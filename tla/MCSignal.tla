------------------------------ MODULE MCSignal ------------------------------
(* Three slots: s1 and s2 bind the same method of one object, s3 is a      *)
(* function object of another owner and has a higher priority.  s2 asks    *)
(* for the id 1, as turn::Server::start() does for its receive slot.       *)
EXTENDS Signal, TLC

CONSTANTS s1, s2, s3

MCDelegate == s1 :> "m1" @@ s2 :> "m1" @@ s3 :> "m2"
MCInstance == s1 :> "a" @@ s2 :> "a" @@ s3 :> "b"
MCPriority == s1 :> -1 @@ s2 :> -1 @@ s3 :> 0

\* No caller asks for an id.
AutoIds == s1 :> -1 @@ s2 :> -1 @@ s3 :> -1

\* One caller asks for the id 1.
RequestedId == s1 :> -1 @@ s2 :> 1 @@ s3 :> -1

Symmetry == Permutations(Emission)
=============================================================================
