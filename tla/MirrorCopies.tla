---------------------------- MODULE MirrorCopies ----------------------------
(***************************************************************************)
(* What the transaction log of FEE/smile_fee_rmap.c promises, seen from    *)
(* the registers: copies between the mirror and the FEE are carried out    *)
(* one after the other in the order they were asked for, each one exactly  *)
(* once and each one to the register it was asked for.                     *)
(***************************************************************************)
EXTENDS Naturals, Sequences

CONSTANTS Regs, Vals, NoData

VARIABLES
    mirror,
    fee,
    queue   \* copies asked for and not completed, oldest first

vars == <<mirror, fee, queue>>

Init ==
    /\ mirror \in [Regs -> Vals]
    /\ fee \in [Regs -> Vals]
    /\ queue = <<>>

Set(r, v) ==
    /\ mirror' = [mirror EXCEPT ![r] = v]
    /\ UNCHANGED <<fee, queue>>

FeeUpdate(r, v) ==
    /\ fee' = [fee EXCEPT ![r] = v]
    /\ UNCHANGED <<mirror, queue>>

\* A write carries the value the mirror has when it is asked for.
Ask(op, r) ==
    /\ queue' = Append(queue, [reg |-> r, op |-> op, done |-> FALSE,
                               data |-> IF op = "write" THEN mirror[r] ELSE NoData])
    /\ UNCHANGED <<mirror, fee>>

Answered(q, d) == [reg |-> q.reg, op |-> q.op, data |-> d, done |-> TRUE]

\* The oldest copy the FEE has not seen is carried out.
Perform(i) ==
    /\ i \in DOMAIN queue
    /\ ~queue[i].done
    /\ \A j \in 1 .. i - 1 : queue[j].done
    /\ LET q == queue[i] IN
       \/ /\ q.op = "write"
          /\ fee' = [fee EXCEPT ![q.reg] = q.data]
          /\ queue' = [queue EXCEPT ![i] = Answered(q, NoData)]
       \/ /\ q.op = "read"
          /\ queue' = [queue EXCEPT ![i] = Answered(q, fee[q.reg])]
          /\ UNCHANGED fee
    /\ UNCHANGED mirror

\* The oldest copy is complete: what was read arrives in the mirror.
Complete ==
    /\ queue # <<>>
    /\ Head(queue).done
    /\ mirror' = IF Head(queue).op = "read"
                 THEN [mirror EXCEPT ![Head(queue).reg] = Head(queue).data]
                 ELSE mirror
    /\ queue' = Tail(queue)
    /\ UNCHANGED fee

Next ==
    \/ \E r \in Regs, v \in Vals : Set(r, v) \/ FeeUpdate(r, v)
    \/ \E r \in Regs, op \in {"read", "write"} : Ask(op, r)
    \/ \E i \in DOMAIN queue : Perform(i)
    \/ Complete

Spec == Init /\ [][Next]_vars
=============================================================================
