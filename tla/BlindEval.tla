------------------------------ MODULE BlindEval ------------------------------
(***************************************************************************)
(* The command of b2/blind_eval.py, invoked several times with the same    *)
(* --raw-output and --receipt-output: run_blind_eval decides on the        *)
(* request and makes at most one transport call, commit_cli_outputs then   *)
(* replaces the pair of files left by earlier runs.  Every file operation  *)
(* of the commit is a step; it may fail, and the process may be killed     *)
(* between any two.                                                        *)
(*                                                                         *)
(* A file is the number of the run that wrote it, 0 when it is absent.     *)
(* Runs do not overlap: the command takes no lock and documents no         *)
(* concurrent use of one pair of paths.                                    *)
(***************************************************************************)
EXTENDS Naturals, FiniteSets

CONSTANTS
    MaxRuns,    \* bound: invocations of the command
    MaxFailures   \* bound: failed file operations and kills

ASSUME EvalAssumption == {MaxRuns, MaxFailures} \subseteq Nat

\* What run_blind_eval checks before the call; each failure has its own receipt.
Gate == {"utf8", "authorization", "protocol", "model", "thinking", "effort",
         "combination", "credential"}

\* What becomes of the call; only "content" has a raw output.
Answer == {"content", "http_error", "invalid_json", "invalid_schema",
           "empty_content", "transport_error"}

VARIABLES
    step,             \* the next operation
    run,            \* invocations so far
    told,           \* the receipt each run built: terminal_status, provider_attempts
    calls,          \* history: the transport calls each run made
    raw, receipt,   \* the two target paths
    temps,          \* staged temporary files: <<run, "raw" or "receipt">>
    broken,         \* what went wrong in the latest run
    failures          \* bounded counter

targets == <<raw, receipt>>
evalVars == <<step, run, told, calls, targets, temps, broken, failures>>

Run == 1..MaxRuns
Unbuilt == [status |-> "none", attempts |-> 0]

EvalInit ==
    /\ step = "idle"
    /\ run = 0
    /\ told = [r \in Run |-> Unbuilt]
    /\ calls = [r \in Run |-> 0]
    /\ raw = 0 /\ receipt = 0
    /\ temps = {} /\ broken = {} /\ failures = 0

\* Defect: a raw output is staged whatever the status.
AfterAnyReceipt(status) == "stageRaw"

\* Only a PASS receipt has a raw output to stage and to publish.
AfterReceipt(status) == IF status = "PASS" THEN "stageRaw" ELSE "stageReceipt"

\* Defect: the receipt of a failed call keeps provider_attempts = 0.
BuildUncounted(r, status, made) ==
    /\ told' = [told EXCEPT ![r] =
           [status |-> status, attempts |-> IF status = "PASS" THEN made ELSE 0]]
    /\ step' = AfterReceipt(status)

Build(r, status, made) ==
    /\ told' = [told EXCEPT ![r] = [status |-> status, attempts |-> made]]
    /\ step' = AfterReceipt(status)

----------------------------------------------------------------------------
(* run_blind_eval *)

\* The gates that hold are the run's input; the credential is looked up last.
StartRun ==
    /\ step = "idle" /\ run < MaxRuns
    /\ run' = run + 1
    /\ broken' = {}
    /\ \E holds \in SUBSET Gate :
          IF holds = Gate
          THEN step' = "call" /\ UNCHANGED told
          ELSE Build(run + 1,
                     IF "utf8" \in holds THEN "NOT_EVALUABLE" ELSE "ERROR", 0)
    /\ UNCHANGED <<calls, targets, temps, failures>>

\* One attempt, never a retry; a failed one is told as an attempt as well.
CallProvider ==
    /\ step = "call"
    /\ calls' = [calls EXCEPT ![run] = @ + 1]
    /\ \E answer \in Answer :
          Build(run, IF answer = "content" THEN "PASS" ELSE "NOT_EVALUABLE", 1)
    /\ UNCHANGED <<run, targets, temps, broken, failures>>

----------------------------------------------------------------------------
(* commit_cli_outputs: each operation, what follows it, what follows its failure *)

Publishes == run > 0 /\ told[run].status = "PASS"

Thereafter == [
    stageRaw     |-> "stageReceipt",
    stageReceipt |-> "dropRaw",
    dropRaw      |-> "dropReceipt",
    dropReceipt  |-> IF Publishes THEN "putRaw" ELSE "putReceipt",
    putRaw       |-> "putReceipt",
    putReceipt   |-> "tidyRaw",
    undoRaw      |-> "undoReceipt",     \* the inner except of a PASS receipt
    undoReceipt  |-> "clearRaw",        \* the outer except
    clearRaw     |-> "clearReceipt",
    clearReceipt |-> "tidyRaw",
    tidyRaw      |-> "tidyReceipt",     \* finally
    tidyReceipt  |-> "idle"]

Operation == DOMAIN Thereafter

\* Defect: errors of clearing and of publishing the raw path are swallowed.
OtherwiseGoOn(op) ==
    CASE op = "putReceipt" /\ Publishes -> "undoRaw"
      [] op \in {"dropRaw", "dropReceipt", "putRaw"} -> Thereafter[op]
      [] op \in {"clearRaw", "clearReceipt"} -> "tidyRaw"
      [] op \in {"tidyRaw", "tidyReceipt"} -> "idle"
      [] OTHER -> "clearRaw"

\* Defect: there is no outer rollback.
OtherwiseGiveUp(op) ==
    CASE op = "putReceipt" /\ Publishes -> "undoRaw"
      [] op \in {"tidyRaw", "tidyReceipt"} -> "idle"
      [] OTHER -> "tidyRaw"

Otherwise(op) ==
    CASE op = "putReceipt" /\ Publishes -> "undoRaw"
      [] op \in {"clearRaw", "clearReceipt"} -> "tidyRaw"
      [] op \in {"tidyRaw", "tidyReceipt"} -> "idle"
      [] OTHER -> "clearRaw"

\* What a completed operation does to the targets and the staged files; os.replace
\* consumes the temporary file, unlinking an absent file is not an error.
RawAfter(op) ==
    CASE op = "putRaw" -> run
      [] op \in {"dropRaw", "undoRaw", "clearRaw"} -> 0
      [] OTHER -> raw

ReceiptAfter(op) ==
    CASE op = "putReceipt" -> run
      [] op \in {"dropReceipt", "undoReceipt", "clearReceipt"} -> 0
      [] OTHER -> receipt

\* Defect: finally forgets the staged raw answer.
TempsAfterForgetting(op) ==
    CASE op = "stageRaw" -> temps \cup {<<run, "raw">>}
      [] op = "stageReceipt" -> temps \cup {<<run, "receipt">>}
      [] op = "putRaw" -> temps \ {<<run, "raw">>}
      [] op \in {"putReceipt", "tidyReceipt"} -> temps \ {<<run, "receipt">>}
      [] OTHER -> temps

TempsAfter(op) ==
    CASE op = "stageRaw" -> temps \cup {<<run, "raw">>}
      [] op = "stageReceipt" -> temps \cup {<<run, "receipt">>}
      [] op \in {"putRaw", "tidyRaw"} -> temps \ {<<run, "raw">>}
      [] op \in {"putReceipt", "tidyReceipt"} -> temps \ {<<run, "receipt">>}
      [] OTHER -> temps

Operate ==
    /\ step \in Operation
    /\ raw' = RawAfter(step) /\ receipt' = ReceiptAfter(step) /\ temps' = TempsAfter(step)
    /\ step' = Thereafter[step]
    /\ UNCHANGED <<run, told, calls, broken, failures>>

Break(what) ==
    /\ failures < MaxFailures
    /\ failures' = failures + 1
    /\ broken' = broken \cup {what}
    /\ UNCHANGED <<run, told, calls, targets, temps>>

\* finally unlinks only the staged files that were not published.
Touches(op) ==
    CASE op = "tidyRaw" -> <<run, "raw">> \in temps
      [] op = "tidyReceipt" -> <<run, "receipt">> \in temps
      [] OTHER -> TRUE

\* An OSError of the operation.
OperationFails ==
    /\ step \in Operation
    /\ Touches(step)
    /\ Break(step)
    /\ step' = Otherwise(step)

\* The process is killed before its next operation.
Kill ==
    /\ step # "idle"
    /\ Break("kill")
    /\ step' = "idle"

Done == step = "idle" /\ run = MaxRuns /\ UNCHANGED evalVars

EvalNext == StartRun \/ CallProvider \/ Operate \/ OperationFails \/ Kill \/ Done

EvalSpec == EvalInit /\ [][EvalNext]_evalVars

----------------------------------------------------------------------------
(* Properties *)

\* At no moment, whatever failed or was killed before, do the two paths hold a
\* raw answer and a receipt of different runs, and a PASS receipt of the latest run
\* is there only with its raw answer: commit_cli_outputs clears both before it
\* publishes either, and publishes the raw answer first.
PairIsOneRun ==
    /\ raw # 0 /\ receipt # 0 => raw = receipt
    /\ receipt = run /\ Publishes => raw = run

\* A run that was not killed, and whose rollback could remove what it had to, left
\* either exactly its own outputs or neither file: never a stale one of an earlier
\* run, never half a pair (commit_cli_outputs' docstring), and no private raw answer
\* under a temporary name either when it finally could unlink it.
AllOrNothing ==
    step = "idle" /\ run > 0 /\ "kill" \notin broken =>
        /\ broken \cap {"clearRaw", "clearReceipt"} = {} =>
              IF broken = {}
              THEN receipt = run /\ raw = (IF Publishes THEN run ELSE 0)
              ELSE raw = 0 /\ receipt = 0
        /\ broken \cap {"tidyRaw", "tidyReceipt"} = {} => \A t \in temps : t[1] # run

\* A receipt on disk tells how often the provider was called by its run: a failed
\* call is an attempt (and was paid), a refused request is none.
AttemptsAreTold == receipt > 0 => told[receipt].attempts = calls[receipt]

\* docs/b2/blind-eval-bridge.md: "a visible PASS receipt is the commit marker for
\* the pair", and the commit "prevents a PASS receipt from surviving without its
\* corresponding raw artifact".
PassReceiptHasRaw ==
    step = "idle" /\ receipt > 0 /\ told[receipt].status = "PASS" => raw = receipt

=============================================================================
