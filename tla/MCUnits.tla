------------------------------ MODULE MCUnits ------------------------------
(***************************************************************************)
(* Finite instances of components that do not interact: the garbage        *)
(* collector, the task runner, the scheduler, the calendar, local time,    *)
(* the encoders, STUN messages, buffers, the configuration and texts, and  *)
(* the messages and forms of Symple.                                       *)
(* Each behaviour is one of one component: `part` says which, and the      *)
(* variables of the others stay as they are.                               *)
(***************************************************************************)
EXTENDS GarbageCollector, Scheduler

CONSTANTS
    o1, o2, o3, t1, t2,
    Span, MaxClock, DstFrom, DstTo,
    Byte, MaxText, LineLength,
    MaxAttrs, Kinds,
    Width, BufLimit, MaxItems, MaxLine,
    NoThread, MaxConfCalls, MaxCrashes, MaxTyped, MaxNumber,
    Party, Null, Datum, MaxEdits, MaxSends, FieldId, MaxElements, MaxFormCalls

VARIABLES
    part,
    today, zday, left,
    lclock, ldt, lwatch, lmeant, lorigin, lran,
    codec, text, enc, dec,
    attrs, size,
    bw, bitems, br, tr,
    cf, tx,
    draft, wire, got, sent, tree

\* The destructor of o1 schedules o2.
OneChain == [o \in Obj |-> IF o = o1 THEN o2 ELSE NoObj]

Days == INSTANCE Dates
Codecs == INSTANCE Encodings
Stun == INSTANCE StunMessage
Set == INSTANCE Settings
Messages == INSTANCE SympleMessage

schedvars == <<now, trig, early>>
datevars == <<today, zday, left>>
localvars == <<lclock, ldt, lwatch, lmeant, lorigin, lran>>
codecvars == <<codec, text, enc, dec>>
stunvars == <<attrs, size>>
bitvars == <<bw, bitems, br, tr>>
setvars == <<cf, tx>>
msgvars == <<draft, wire, got, sent>>
symvars == <<msgvars, tree>>
allvars == <<part, gcvars, trvars, schedvars, datevars, localvars, codecvars, stunvars, bitvars, setvars, symvars>>

IdleTasks == TaskInit /\ \A t \in DOMAIN task : ~task[t].repeating
IdleSched == now = 0 /\ trig = [t \in 1..NTasks |-> NewTrigger(0, 0, 0)] /\ early = FALSE
IdleDates == today = 0 /\ zday = 0 /\ left = 0
IdleCodec == codec = "base64" /\ text = <<>> /\ enc = <<>> /\ dec = <<>>

InitUnits ==
    /\ GcInit /\ Stun!MInit /\ Days!LInit
    /\ \/ part \in {"collector", "stun", "local", "bits", "config", "texts", "message", "form"} /\ IdleTasks /\ IdleSched /\ IdleDates /\ IdleCodec
       \/ part = "tasks" /\ TaskInit /\ IdleSched /\ IdleDates /\ IdleCodec
       \/ part = "scheduler" /\ SInit /\ IdleDates /\ IdleCodec
       \/ part = "dates" /\ Days!DInit /\ IdleTasks /\ IdleSched /\ IdleCodec
       \/ part = "codecs" /\ Codecs!EInit /\ IdleTasks /\ IdleSched /\ IdleDates
    /\ Set!ConfInit /\ Set!TextInit /\ (part # "texts" => tx.kind = "words")
    /\ Messages!MsgInit /\ Messages!TreeInit
    /\ Codecs!BInit /\ (part # "bits" => bw = Codecs!NewWriter("network", FALSE))

Step(p, A, others) == part = p /\ A /\ UNCHANGED <<part, others>>

NotCollector == <<trvars, schedvars, datevars, localvars, codecvars, stunvars, bitvars, setvars, symvars>>
NotTasks == <<gcvars, schedvars, datevars, localvars, codecvars, stunvars, bitvars, setvars, symvars>>
NotSettings == <<gcvars, trvars, schedvars, datevars, localvars, codecvars, stunvars, bitvars, symvars>>
NotSymple == <<gcvars, trvars, schedvars, datevars, localvars, codecvars, stunvars, bitvars, setvars>>
NotScheduler == <<gcvars, datevars, localvars, codecvars, stunvars, bitvars, setvars, symvars>>

NextUnits ==
    \/ Step("collector", GcNext, NotCollector)
    \/ Step("tasks", TaskNext, NotTasks)
    \/ Step("scheduler", SNext, NotScheduler)
    \/ Step("dates", Days!DNext, <<gcvars, trvars, schedvars, localvars, codecvars, stunvars, bitvars, setvars, symvars>>)
    \/ Step("local", Days!LNext, <<gcvars, trvars, schedvars, datevars, codecvars, stunvars, bitvars, setvars, symvars>>)
    \/ Step("codecs", Codecs!ENext, <<gcvars, trvars, schedvars, datevars, localvars, stunvars, bitvars, setvars, symvars>>)
    \/ Step("stun", Stun!MNext, <<gcvars, trvars, schedvars, datevars, localvars, codecvars, bitvars, setvars, symvars>>)
    \/ Step("config", Set!ConfNext, <<NotSettings, tx>>)
    \/ Step("texts", Set!TextNext, <<NotSettings, cf>>)
    \/ Step("bits", Codecs!BNext, <<gcvars, trvars, schedvars, datevars, localvars, codecvars, stunvars, setvars, symvars>>)
    \/ Step("message", Messages!MsgNext, <<NotSymple, tree>>)
    \/ Step("form", Messages!TreeNext, <<NotSymple, msgvars>>)

\* The fairness of each component's own specification.
FairnessUnits ==
    /\ WF_gcvars(part = "collector" /\ Main)
    /\ \A t \in {t1, t2} : WF_gcvars(part = "collector" /\ Schedule(t))
    /\ WF_trvars(part = "tasks" /\ RunnerThread)
    /\ \A n \in 1..NTasks : WF_app(part \in {"tasks", "scheduler"} /\ destroyAct(n))
    /\ WF_<<trvars, schedvars>>(part = "scheduler" /\ SThread)

UnitsSpec == InitUnits /\ [][NextUnits]_allvars /\ FairnessUnits

-----------------------------------------------------------------------------
(* The properties of the components, each of its own behaviours; those of  *)
(* GarbageCollector, TaskRunner and Scheduler that are safe are their own. *)

\* Modules GarbageCollector, TaskRunner and Scheduler: an object given to
\* deleteLater() is deleted, and finalize() returns or has run a destructor that
\* calls deleteLater(); tasks of the list all run in their turn, scheduled ones
\* when they are due, and destroyed ones are deleted (next, run, update).
UnitsEnd ==
    /\ \A o \in Obj : (part = "collector" /\ o \in given) ~> (o \in deleted \/ phase # "open")
    /\ (part = "collector" /\ phase = "finalizing") ~>
           (phase = "finalized" \/ (lock = "main" /\ work = "chain"))
    /\ part = "tasks" => EveryTaskRuns
    /\ part = "scheduler" => ScheduledRunsHappen

\* Modules Dates, Encodings, StunMessage, Settings and SympleMessage.  Julian days and the texts of
\* dates come back as the same date, a daily task is set to the first day that is not
\* excluded, and a local time stands for one instant however it was made and moved.  A
\* text encoded and decoded in blocks of any sizes comes back, and so do texts that are
\* split, numbers, paths and addresses.  A message written is read back, attribute by
\* attribute, and so are numbers and texts in buffers and the settings that threads
\* share and save.  Symple messages are delivered as they were meant and answered
\* once (emit, respond), and forms hold together (addElement, clearElements, setValue).
WrittenReadsBack ==
    /\ part = "dates" =>
           Days!CalendarExact /\ Days!CarriesExact /\ Days!DatesRoundTrip /\ Days!NextRunAllowed
    /\ part = "local" => Days!LocalTimeExact
    /\ part = "codecs" => Codecs!BlocksDecode
    /\ part = "texts" => Set!WordsSound /\ Set!NumbersSound /\ Set!PathsAndAddressesSound
    /\ part = "stun" => Stun!StunReadsBack
    /\ part = "bits" => Codecs!BuffersReadBack
    /\ part = "config" => Set!ConfigurationSound
    /\ part = "message" => Messages!MessagesAsMeant
    /\ part = "form" => Messages!FormHolds
=============================================================================
