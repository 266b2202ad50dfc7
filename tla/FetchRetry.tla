----------------------------- MODULE FetchRetry -----------------------------
(***************************************************************************)
(* fetchutil.DoRequest: one HTTP request, retried on network errors and on *)
(* the statuses 408, 425, 429, 500, 502, 503 and 504 ("retryable"), with a *)
(* wait between attempts that the caller's context can cut short.  The     *)
(* length of the wait decides nothing and is left out.                     *)
(***************************************************************************)
EXTENDS Integers

CONSTANT MaxAttempts

ASSUME MaxAttemptsAssumption == MaxAttempts \in Nat \ {0}

VARIABLES
    req,      \* the request at hand: state, attempt, lastErr (an attempt met a
              \* network error), err, status and body of what DoRequest returns
    ctxDone   \* the caller's context is cancelled

fetchVars == <<req, ctxDone>>

Status == {"ok", "not_found", "other", "retryable"}
NoRequest == [state |-> "idle", attempt |-> 0, lastErr |-> FALSE,
              err |-> FALSE, status |-> "none", body |-> "none"]

FetchInit == req = NoRequest /\ ctxDone = FALSE

\* The request DoRequest starts with, for a caller's action.
NewRequest == [NoRequest EXCEPT !.state = "trying", !.attempt = 1]

shouldRetry(outcome) == outcome = "retryable" \/ (outcome = "error" /\ ~ctxDone)

Returned(outcome, body) ==
    [req EXCEPT !.state = "done", !.err = outcome = "error",
                !.status = IF outcome = "error" THEN "none" ELSE outcome,
                !.body = body]

\* client.Do answers, or fails; it fails once the context is cancelled.  What is
\* retried has its body drained and closed first, on the last attempt too.
ReqAttempt(outcome) ==
    /\ req.state = "trying"
    /\ ctxDone => outcome = "error"
    /\ req' = IF ~shouldRetry(outcome)
              THEN Returned(outcome, IF outcome = "error" THEN "none" ELSE "open")
              ELSE IF req.attempt = MaxAttempts
              THEN Returned(outcome, IF outcome = "error" THEN "none" ELSE "closed")
              ELSE [req EXCEPT !.state = "waiting", !.lastErr = @ \/ outcome = "error"]
    /\ UNCHANGED ctxDone

ReqWaitOver ==
    /\ req.state = "waiting"
    /\ req' = [req EXCEPT !.state = "trying", !.attempt = @ + 1]
    /\ UNCHANGED ctxDone

\* The wait ends with the context: lastErr or the context's error is returned.
ReqCancelled ==
    /\ req.state = "waiting" /\ ctxDone
    /\ req' = Returned("error", "none")
    /\ UNCHANGED ctxDone

CtxCancel ==
    /\ ~ctxDone /\ req.state \in {"trying", "waiting"}
    /\ ctxDone' = TRUE
    /\ UNCHANGED req

FetchNext ==
    \/ \E outcome \in Status \cup {"error"} : ReqAttempt(outcome)
    \/ ReqWaitOver \/ ReqCancelled \/ CtxCancel

=============================================================================
