------------------------------ MODULE ForkJoin ------------------------------
(***************************************************************************)
(* What the parallel merge promises its caller: every backend is asked     *)
(* once or filtered out, every backend asked either delivers a response or *)
(* fails, and one reply, made when none is outstanding, accounts for all.  *)
(***************************************************************************)
EXTENDS MergeData

VARIABLES fate,    \* what became of each backend
          given,   \* the response of each backend that delivered one
          reply    \* the reply, Nil until it is made

vars == <<fate, given, reply>>

With(f) == {b \in Backend : fate[b] = f}

TypeOK ==
  /\ fate \in [Backend -> {"open", "skipped", "delivered", "failed"}]
  /\ given \in [Backend -> Response \cup {Nil}]
  /\ reply \in Reply \cup {Nil}

Init ==
  /\ fate = [b \in Backend |-> "open"]
  /\ given = [b \in Backend |-> Nil]
  /\ reply = Nil

Skip(b) ==
  /\ fate[b] = "open"
  /\ fate' = [fate EXCEPT ![b] = "skipped"]
  /\ UNCHANGED <<given, reply>>

Fail(b) ==
  /\ fate[b] = "open"
  /\ fate' = [fate EXCEPT ![b] = "failed"]
  /\ UNCHANGED <<given, reply>>

Deliver(b) ==
  /\ fate[b] = "open"
  /\ fate' = [fate EXCEPT ![b] = "delivered"]
  /\ \E r \in Response : given' = [given EXCEPT ![b] = r]
  /\ UNCHANGED reply

\* Each error is of a backend that failed, and of each there is one.
ErrorsOf(errs) ==
  /\ Range(errs) = With("failed")
  /\ Len(errs) = Cardinality(With("failed"))

\* There is a response if a backend delivered one.  It holds the keys of all
\* of them, each with the value of one that has it, and it is complete
\* exactly if every backend asked delivered a complete response.
ResponseOf(res) ==
  LET delivered == With("delivered")
      holders(k) == {b \in delivered : HasBody(given[b]) /\ k \in DOMAIN given[b].data}
  IN  /\ (res = Nil) <=> (delivered = {})
      /\ (res # Nil /\ HasBody(res)) =>
            /\ \A k \in Keys : k \in DOMAIN res.data <=> holders(k) # {}
            /\ \A k \in DOMAIN res.data :
                  \E b \in holders(k) : res.data[k] = given[b].data[k]
      /\ (res # Nil /\ ~HasBody(res)) => Cardinality(delivered) = 1
      /\ res # Nil =>
            (res.complete <=> /\ With("failed") = {}
                              /\ \A b \in delivered : given[b].complete
                              /\ Cardinality(delivered) > 1 =>
                                    \A b \in delivered : HasBody(given[b]))

Join ==
  /\ reply = Nil
  /\ With("open") = {}
  /\ reply' \in Reply
  /\ ErrorsOf(reply'.errs)
  /\ ResponseOf(reply'.res)
  /\ UNCHANGED <<fate, given>>

Next == (\E b \in Backend : Skip(b) \/ Fail(b) \/ Deliver(b)) \/ Join

Spec == Init /\ [][Next]_vars

=============================================================================
