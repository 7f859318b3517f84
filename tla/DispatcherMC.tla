---------------------------- MODULE DispatcherMC ----------------------------
(* What the documentation claims of the pidfile whatever happens.           *)
EXTENDS Dispatcher

\* dispatcher.py: the pidfile is there to "enforce one dispatcher per vault".
\* No two dispatchers have a worker at the same time, launched together or not.
OneDispatcher == \A p, r \in serving : p = r
=============================================================================
