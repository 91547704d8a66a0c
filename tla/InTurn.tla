------------------------------- MODULE InTurn -------------------------------
(***************************************************************************)
(* What the sequential merge promises its caller: the backends are asked   *)
(* or filtered out one after the other, none after a failure or an         *)
(* incomplete response; one reply, made when all have had their turn or    *)
(* one made trouble, accounts for what came back, the later backend's      *)
(* value before the earlier one's.                                         *)
(***************************************************************************)
EXTENDS MergeData

VARIABLES fate,    \* what became of each backend
          given,   \* the response of each backend that delivered one
          reply    \* the reply, Nil until it is made

vars == <<fate, given, reply>>

With(f) == {b \in Backend : fate[b] = f}

Init ==
  /\ fate = [b \in Backend |-> "open"]
  /\ given = [b \in Backend |-> Nil]
  /\ reply = Nil

\* It is b's turn: all before it were skipped or delivered in full.
Settle(b, f) ==
  /\ reply = Nil
  /\ fate[b] = "open"
  /\ \A c \in 1..b-1 :
        fate[c] = "skipped" \/ (fate[c] = "delivered" /\ given[c].complete)
  /\ fate' = [fate EXCEPT ![b] = f]

Skip(b) == Settle(b, "skipped") /\ UNCHANGED <<given, reply>>

Deliver(b) ==
  /\ Settle(b, "delivered")
  /\ \E r \in Response : given' = [given EXCEPT ![b] = r]
  /\ UNCHANGED reply

Fail(b) == b > 1 /\ Settle(b, "failed") /\ UNCHANGED <<given, reply>>

\* The first backend's failure is the reply.
FailAtOnce ==
  /\ Settle(1, "failed")
  /\ reply' = [res |-> Nil, errs |-> <<1>>]
  /\ UNCHANGED given

Trouble(b) == fate[b] = "failed" \/ (fate[b] = "delivered" /\ ~given[b].complete)

\* At most one backend fails, and its error is all there is.
ErrorsOf(errs) ==
  IF With("failed") = {} THEN errs = <<>> ELSE \E b \in With("failed") : errs = <<b>>

\* There is a response if a backend delivered one.  It holds the keys of all
\* of them, each with the value of the last that has it, and is complete
\* exactly if every backend was skipped or delivered a complete response.
ResponseOf(res) ==
  LET delivered  == With("delivered")
      holders(k) == {b \in delivered : HasBody(given[b]) /\ k \in DOMAIN given[b].data}
      several    == \E b, c \in delivered : b # c
  IN  /\ (res = Nil) <=> (delivered = {})
      /\ HasBody(res) =>
            /\ \A k \in Keys : k \in DOMAIN res.data <=> holders(k) # {}
            /\ \A k \in DOMAIN res.data :
                  \E b \in holders(k) : /\ res.data[k] = given[b].data[k]
                                        /\ \A c \in holders(k) : c <= b
      /\ (res # Nil /\ ~HasBody(res)) => ~several
      /\ res # Nil =>
            (res.complete <=> /\ With("open") = {} /\ With("failed") = {}
                              /\ \A b \in delivered : given[b].complete
                              /\ several => \A b \in delivered : HasBody(given[b]))

End ==
  /\ reply = Nil
  /\ With("open") = {} \/ \E b \in Backend : Trouble(b)
  /\ reply' \in Reply
  /\ ErrorsOf(reply'.errs)
  /\ ResponseOf(reply'.res)
  /\ UNCHANGED <<fate, given>>

Next == (\E b \in Backend : Skip(b) \/ Deliver(b) \/ Fail(b)) \/ FailAtOnce \/ End

Spec == Init /\ [][Next]_vars

=============================================================================
