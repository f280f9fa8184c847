----------------------------- MODULE RunLedger -----------------------------
(***************************************************************************)
(* What the live run registry promises, with no file, lock or system call  *)
(* in sight: one ledger of events, each of which follows the events of its *)
(* run before it, and promises to callers that their event is at a         *)
(* position of it for good.  An event nobody was promised may be in the    *)
(* ledger (its writer died, or failed after writing) and may be lost.      *)
(***************************************************************************)
EXTENDS LiveRunHistory

CONSTANT Offered   \* the records callers may ask to append

VARIABLES
    ledger,    \* the events, oldest first
    promised   \* {<<position, record>>}: the appends that succeeded

Init == ledger = <<>> /\ promised = {}

Record(record) ==
    /\ AcceptsNext(ledger, record)
    /\ ledger' = Append(ledger, record)
    /\ UNCHANGED promised

Promise(n) ==
    /\ promised' = promised \cup {<<n, ledger[n]>>}
    /\ UNCHANGED ledger

Lose(n) ==
    /\ \A x \in promised : x[1] <= n
    /\ ledger' = SubSeq(ledger, 1, n)
    /\ UNCHANGED promised

Next ==
    \/ \E record \in Offered : Record(record)
    \/ \E n \in 1..Len(ledger) : Promise(n)
    \/ \E n \in 0..Len(ledger) : Lose(n)

Spec == Init /\ [][Next]_<<ledger, promised>>
=============================================================================
