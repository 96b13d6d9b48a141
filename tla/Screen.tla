------------------------------- MODULE Screen -------------------------------
(***************************************************************************)
(* What the screens of the web app share: whether a service answers them   *)
(* or the files of the demo deployment, and how a call of api.ts may end.  *)
(***************************************************************************)

CONSTANT None   \* nothing: no text, no selection, no answer

VARIABLE live   \* a service answers; otherwise the files, or a synthesized success

-----------------------------------------------------------------------------

\* A function that asks for a list checks res.ok: it answers or throws, and a
\* file may be missing too.
Fetched == {"ok", "failed"}

\* A function that changes something answers at once in the demo deployment.
Done == {"ok"} \cup (IF live THEN {"failed"} ELSE {})

\* fetchStats does not check res.ok when a service answers, so the body of an
\* error passes for statistics; what renders its numbers throws, and there is no
\* error boundary.
StatsFetched == {"ok", "failed"} \cup (IF live THEN {"error"} ELSE {})
=============================================================================
