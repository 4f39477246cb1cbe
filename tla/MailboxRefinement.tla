------------------------- MODULE MailboxRefinement -------------------------
(***************************************************************************)
(* The ring buffer, the offsets and the waiting protocol of rt_mb_*        *)
(* implement the bounded FIFO of BoundedFifo.                              *)
(***************************************************************************)
EXTENDS Mailbox

\* The mails in the order they will be received.
MailQueue == [i \in 1 .. entry |-> msg_pool[(out_offset + (i - 1)) % Size]]

Fifo == INSTANCE BoundedFifo WITH queue <- MailQueue

\* Every step of the mailbox is a FIFO step or invisible: a mail is delivered to
\* exactly one receiver, unchanged, in the order the sends completed, and no step
\* other than a reset drops one.
ImplementsFifo == Fifo!Spec
=============================================================================
