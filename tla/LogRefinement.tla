---------------------------- MODULE LogRefinement ----------------------------
(***************************************************************************)
(* The log handler with its transport thread implements LogOutbox.         *)
(***************************************************************************)
EXTENDS LogTransport

\* A record is pending while it is in the handler's buffer, in a batch of the
\* queue or in the transport's buffers.  A handler whose transport thread has
\* died keeps its records pending for ever.
Pending == buf \cup Queued \cup buffers

\* The outbox is closed from the moment the flush of leave_log has returned
\* until the next handler is built.
Open == pc \in {"run", "mark", "flush"}

Outbox == INSTANCE LogOutbox WITH
    open <- Open, pending <- Pending, givenUp <- dropped

\* CloudWatchLogHandler and Transport implement the outbox: a record is in one
\* place at a time from emit until put_log_events confirms it or the error is
\* kept, nothing but pending records is ever put, and flush returns only when
\* nothing is pending, whatever faults happen on the way.
ImplementsOutbox == Outbox!Spec
=============================================================================
