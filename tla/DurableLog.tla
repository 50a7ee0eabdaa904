----------------------------- MODULE DurableLog -----------------------------
(***************************************************************************)
(* What a durable intent log promises to its clients, with nothing of how. *)
(* The log is a sequence of intents without repeated intent ids.  A record *)
(* may become durable without its writer ever learning of it; a receipt is *)
(* handed out only for a durable record, and from then on that record      *)
(* keeps its place.  Only an operator who restores a shorter backup takes  *)
(* records away, and the receipts of the lost records are void with them.  *)
(***************************************************************************)
EXTENDS Naturals, Sequences

CONSTANTS Ids,        \* intent ids
          Contents    \* everything else an OrderIntent holds

VARIABLES log,        \* the durable records, oldest first
          acked       \* receipts handed to callers and not voided

logVars == <<log, acked>>

Intents  == [id : Ids, content : Contents]
Receipts == [seq : Nat \ {0}, intent : Intents]

LogInit == /\ log = <<>>
           /\ acked = {}

\* A record reaches stable storage.
Persist == /\ \E i \in Intents :
                /\ \A k \in 1..Len(log) : log[k].id # i.id
                /\ log' = Append(log, i)
           /\ UNCHANGED acked

\* A caller is told where a durable record is.
Acknowledge == /\ \E k \in 1..Len(log) :
                    acked' = acked \cup {[seq |-> k, intent |-> log[k]]}
               /\ UNCHANGED log

\* The operator puts back a file that holds a prefix of the history.
Rollback == \E n \in 0..Len(log) :
              /\ log' = SubSeq(log, 1, n)
              /\ acked' = {r \in acked : r.seq <= n}

LogNext == Persist \/ Acknowledge \/ Rollback

LogSpec == LogInit /\ [][LogNext]_logVars
=============================================================================
