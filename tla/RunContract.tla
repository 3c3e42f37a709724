----------------------------- MODULE RunContract -----------------------------
(***************************************************************************)
(* What the bridge promises of one run to n8n, to the dashboard and to the *)
(* queue, with no threads, attempts or agent: it comes to one outcome,     *)
(* which is what n8n is told, however often, and what the run shows unless *)
(* it was cancelled; it is a success only if something succeeded before    *)
(* anybody cancelled; the callback is skipped only for a run that was      *)
(* cancelled; and a run is over when it shows how it ended and its         *)
(* callback was sent, given up or skipped (task_jobs.py:42, AVVIO_RAPIDO:  *)
(* one final POST after the progress pings).                               *)
(***************************************************************************)
EXTENDS Sequences

VARIABLES asked,    \* somebody has cancelled the run
          shown,    \* the status it shows
          good,     \* what was done last for it succeeded
          outcome,  \* the outcome that is reported; "none": not decided
          told,     \* the outcomes n8n was told, in order
          mark,     \* the callback: "open", "sent", "failed" or "skipped"
          over      \* the worker has left the run

vars == <<asked, shown, good, outcome, told, mark, over>>

Active == {"queued", "running", "retrying"}
Final == {"success", "error", "cancelled"}

Init ==
  /\ asked = FALSE /\ shown = "queued"
  /\ good = FALSE /\ outcome = "none"
  /\ told = <<>> /\ mark = "open"
  /\ over = FALSE

\* As long as the run is worked on nothing is reported.
Undecided == outcome = "none" /\ mark # "skipped" /\ ~over

\* Somebody cancels a run that shows no final status.
Ask ==
  /\ shown \in Active
  /\ asked' = TRUE
  /\ UNCHANGED <<shown, good, outcome, told, mark, over>>

\* The run shows that it was cancelled, whatever it has come to.
Overwrite ==
  /\ asked
  /\ shown' = "cancelled"
  /\ UNCHANGED <<asked, good, outcome, told, mark, over>>

\* The attempts show their progress and how they end.
Show ==
  /\ Undecided
  /\ shown' \in Active \cup {IF good THEN "success" ELSE "error"}
  /\ UNCHANGED <<asked, good, outcome, told, mark, over>>

\* An attempt succeeds, unless it was cancelled in time.
Succeed ==
  /\ Undecided /\ ~asked
  /\ good' = TRUE
  /\ UNCHANGED <<asked, shown, outcome, told, mark, over>>

\* Publishing what it did fails after all.
Fail ==
  /\ Undecided
  /\ good' = FALSE
  /\ UNCHANGED <<asked, shown, outcome, told, mark, over>>

\* The outcome is decided, once, and is what the run shows.
Decide ==
  /\ outcome = "none" /\ ~over
  /\ outcome' = IF good THEN "success" ELSE "error"
  /\ shown' = outcome' \/ (asked /\ shown' = "cancelled")
  /\ UNCHANGED <<asked, good, told, mark, over>>

\* A cancelled run that came to nothing is not reported.
Skip ==
  /\ asked /\ ~good
  /\ Undecided
  /\ mark' = "skipped"
  /\ shown' \in {shown, "cancelled"}
  /\ UNCHANGED <<asked, good, outcome, told, over>>

\* n8n gets the outcome.
Tell ==
  /\ outcome # "none" /\ mark # "skipped"
  /\ told' = Append(told, outcome)
  /\ UNCHANGED <<asked, shown, good, outcome, mark, over>>

\* The callback shows how far it is, and it may be all that was left to do.
Mark ==
  /\ outcome # "none"
  /\ mark' \in {"open", "failed"} \cup (IF told = <<>> THEN {} ELSE {"sent"})
  /\ \/ UNCHANGED over
     \/ shown \in Final /\ mark' # "open" /\ over' = TRUE
  /\ UNCHANGED <<asked, shown, good, outcome, told>>

\* The worker leaves a run that shows how it ended and was reported or skipped.
Leave ==
  /\ ~over
  /\ shown \in Final
  /\ outcome # "none" \/ mark = "skipped"
  /\ over' = TRUE
  /\ UNCHANGED <<asked, shown, good, outcome, told, mark>>

Next ==
  \/ Ask \/ Overwrite
  \/ Show \/ Succeed \/ Fail
  \/ Decide \/ Skip
  \/ Tell \/ Mark \/ Leave

Spec == Init /\ [][Next]_vars

\* What follows from the contract at any moment: n8n was told nothing but the
\* outcome, the run shows it or was cancelled, a skipped callback was not sent
\* and a sent one was, and a run that is over shows how it ended.
Promise ==
  /\ told \in Seq({outcome})
  /\ told # <<>> => outcome # "none"
  /\ outcome # "none" => /\ outcome \in {"success", "error"}
                         /\ shown \in {outcome, "cancelled"}
  /\ mark = "skipped" => told = <<>>
  /\ mark = "sent" => told # <<>>
  /\ shown = "cancelled" => asked
  /\ over => shown \in Final
=============================================================================
