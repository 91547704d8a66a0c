---------------------------- MODULE FirstSuccess ----------------------------
(***************************************************************************)
(* What the concurrent middleware promises its caller: of the reports it   *)
(* reads, the first complete response is the reply.  Without one it gives  *)
(* up, but, as long as the caller waits, only when every call has reported *)
(* and none delivered a complete response; the reply then hides no failure *)
(* and answers with nothing that no call reported.                         *)
(***************************************************************************)
CONSTANTS Call,    \* the calls
          Nil      \* Go's nil

VARIABLES fate,    \* what became of each call
          caller,  \* the caller's context: "live" or "ended"
          reply    \* the reply, Nil until it is made

vars == <<fate, caller, reply>>

With(f) == {c \in Call : fate[c] = f}

Init ==
  /\ fate = [c \in Call |-> "open"]
  /\ caller = "live"
  /\ reply = Nil

Report(c, f) ==
  /\ reply = Nil
  /\ fate[c] = "open"
  /\ fate' = [fate EXCEPT ![c] = f]
  /\ UNCHANGED caller

\* The call reported an error.
Fail(c) == Report(c, "failed") /\ UNCHANGED reply

\* The call reported an incomplete response.
FallShort(c) == Report(c, "short") /\ UNCHANGED reply

Win(c) == Report(c, "won") /\ reply' = [res |-> c, err |-> Nil]

Leave ==
  /\ caller = "live" /\ caller' = "ended"
  /\ UNCHANGED <<fate, reply>>

GiveUp(res, err) ==
  /\ reply = Nil
  /\ caller = "live" => With("open") = {}
  /\ err = Nil => With("failed") = {}
  /\ res = Nil => With("short") = {}
  /\ reply' = [res |-> res, err |-> err]
  /\ UNCHANGED <<fate, caller>>

Next ==
  \/ \E c \in Call : Fail(c) \/ FallShort(c) \/ Win(c)
  \/ Leave
  \/ \E res \in With("short") \cup {Nil},
        err \in With("failed") \cup {Nil} : GiveUp(res, err)

Spec == Init /\ [][Next]_vars

=============================================================================
