---------------------------- MODULE BoundedCodex ----------------------------
(***************************************************************************)
(* codex_runtime.execute_codex_bounded: one Codex process run under byte   *)
(* caps.  The calling thread writes the prompt and waits; one daemon       *)
(* thread per output stream drains it up to Limit chunks and terminates    *)
(* the process on anything beyond.  Codex itself is outside this code: it  *)
(* reads, writes one stream at a time, may hang, may exit early with any   *)
(* code, may ignore its input, and may leave a child that holds the pipes. *)
(* A "chunk" is what one read returns; pipes hold PipeSize of them.        *)
(***************************************************************************)
EXTENDS Naturals

CONSTANTS Streams,     \* {"stdout", "stderr"}
          PromptSize,  \* chunks of the prompt
          PipeSize,    \* chunks an operating system pipe holds
          Limit,       \* stdout_limit and stderr_limit
          MaxOutput    \* bound: chunks Codex writes to one stream

ASSUME CodexAssumption == /\ Streams # {} /\ "none" \notin Streams
                          /\ PipeSize \in Nat \ {0}
                          /\ Limit \in Nat \ {0}
                          /\ PromptSize \in Nat \ {0}
                          /\ MaxOutput \in Nat

VARIABLES main,      \* where the calling thread is
          raised,    \* the exception on its way through the finally clause
          outcome,   \* what the call returned or raised
          fed,       \* prompt chunks written to stdin
          taken,     \* prompt chunks Codex has read
          life,      \* the Codex process
          code,      \* its exit code
          busy,      \* the stream Codex is writing to, blocked or not
          held,      \* a child of Codex still holds its output pipes
          garbled,   \* what Codex wrote to stdout is not UTF-8
          ending,    \* somebody called process.terminate()
          emitted, pipe, captured, reader,   \* per stream
          overflow,  \* the event the readers set
          unread     \* reader_failure is not empty

codexVars == <<main, raised, outcome, fed, taken, life, code, busy, held,
               garbled, ending, emitted, pipe, captured, reader, overflow, unread>>

Process == <<life, code, busy, held, garbled>>
Output == <<emitted, pipe, captured, reader, overflow, unread>>

NoChunk == [s \in Streams |-> 0]
NoReader == [s \in Streams |-> "unstarted"]

CodexInit ==
  /\ main = "idle" /\ raised = "none" /\ outcome = "none"
  /\ fed = 0 /\ taken = 0
  /\ life = "absent" /\ code = 0 /\ busy = "none" /\ held = FALSE /\ garbled = FALSE
  /\ ending = FALSE /\ overflow = FALSE /\ unread = FALSE
  /\ emitted = NoChunk /\ pipe = NoChunk /\ captured = NoChunk /\ reader = NoReader

\* The Windows job is terminated: process, children and threads are gone.
CodexGone ==
  /\ main' = "idle" /\ raised' = "none" /\ outcome' = "none"
  /\ fed' = 0 /\ taken' = 0
  /\ life' = "absent" /\ code' = 0 /\ busy' = "none" /\ held' = FALSE /\ garbled' = FALSE
  /\ ending' = FALSE /\ overflow' = FALSE /\ unread' = FALSE
  /\ emitted' = NoChunk /\ pipe' = NoChunk /\ captured' = NoChunk /\ reader' = NoReader

Alive(s) == reader[s] = "reading"
Broken(s) == life = "exited" /\ ~held /\ pipe[s] = 0   \* a read returns b""

-----------------------------------------------------------------------------
(* The calling thread. *)

\* check_chatgpt_auth: the version and the login status are asked first, each
\* by a subprocess.run without a timeout: Codex need never answer.
CheckAuth ==
  /\ main = "auth"
  /\ \/ main' = "spawn" /\ UNCHANGED outcome
     \/ \E answer \in {"CODEX_UNAVAILABLE", "CODEX_VERSION_INVALID", "CHATGPT_AUTH_REQUIRED"} :
          main' = "done" /\ outcome' = answer
  /\ UNCHANGED <<raised, fed, taken, Process, ending, Output>>

Spawn ==
  /\ main = "spawn"
  /\ \/ /\ life' = "running" /\ main' = "write"
        /\ reader' = [s \in Streams |-> "reading"]
        /\ UNCHANGED outcome
     \/ main' = "done" /\ outcome' = "CODEX_UNAVAILABLE" /\ UNCHANGED <<life, reader>>
  /\ UNCHANGED <<raised, fed, taken, code, busy, held, garbled, ending,
                 emitted, pipe, captured, overflow, unread>>

\* stdin.write blocks while the pipe is full: no timeout covers it.
WritePrompt ==
  /\ main = "write" /\ fed < PromptSize /\ fed - taken < PipeSize /\ life = "running"
  /\ fed' = fed + 1
  /\ UNCHANGED <<main, raised, outcome, taken, Process, ending, Output>>

ClosePrompt ==
  /\ main = "write" /\ fed = PromptSize
  /\ main' = "wait"
  /\ UNCHANGED <<raised, outcome, fed, taken, Process, ending, Output>>

\* Codex is gone: the write raises and only the finally clause runs.
WriteBreaks ==
  /\ main = "write" /\ fed < PromptSize /\ life = "exited"
  /\ main' = "join" /\ raised' = "BROKEN_PIPE"
  /\ UNCHANGED <<outcome, fed, taken, Process, ending, Output>>

WaitReturns ==
  /\ main \in {"wait", "expire"} /\ life = "exited"
  /\ main' = "join"
  /\ UNCHANGED <<raised, outcome, fed, taken, Process, ending, Output>>

WaitTimesOut ==
  /\ main = "wait" /\ life = "running"
  /\ main' = "expire" /\ raised' = "CODEX_TIMEOUT" /\ ending' = TRUE
  /\ UNCHANGED <<outcome, fed, taken, Process, Output>>

\* The ten seconds after terminate() pass too: that exception replaces the first.
ExpireTimesOut ==
  /\ main = "expire" /\ life = "running"
  /\ main' = "join" /\ raised' = "TIMEOUT_EXPIRED"
  /\ UNCHANGED <<outcome, fed, taken, Process, ending, Output>>

\* reader.join(timeout=...) for each reader: it returns when the reader ended
\* or when its time is over, whichever is first.
JoinReaders ==
  /\ main = "join"
  /\ main' = "verdict"
  /\ UNCHANGED <<raised, outcome, fed, taken, Process, ending, Output>>

ReadersAlive == \E s \in Streams : Alive(s)

\* Mutant: an exceeded cap truncates instead of failing.
VerdictTruncating ==
  IF raised # "none" THEN raised
  ELSE IF ReadersAlive THEN "READERS_ALIVE"
  ELSE IF unread \/ garbled THEN "CODEX_OUTPUT_INVALID"
  ELSE IF code # 0 THEN "CODEX_EXECUTION_FAILED"
  ELSE "OK"

Verdict ==
  IF raised # "none" THEN raised
  ELSE IF ReadersAlive THEN "READERS_ALIVE"
  ELSE IF unread THEN "CODEX_OUTPUT_INVALID"
  ELSE IF overflow THEN "CODEX_OUTPUT_LIMIT"
  ELSE IF garbled THEN "CODEX_OUTPUT_INVALID"
  ELSE IF code # 0 THEN "CODEX_EXECUTION_FAILED"
  ELSE "OK"

Judge ==
  /\ main = "verdict"
  /\ main' = "done" /\ outcome' = Verdict
  /\ ending' = (ending \/ Verdict = "READERS_ALIVE")
  /\ UNCHANGED <<raised, fed, taken, Process, Output>>

-----------------------------------------------------------------------------
(* The drain threads. *)

Room(s) == captured[s] < Limit

\* Mutant: the readers start when the prompt has been written.
DrainsLate(s) == Alive(s) /\ pipe[s] > 0 /\ main # "write"

Drains(s) == Alive(s) /\ pipe[s] > 0

Drain(s) ==
  /\ Drains(s)
  /\ pipe' = [pipe EXCEPT ![s] = @ - 1]
  /\ IF Room(s)
       THEN /\ captured' = [captured EXCEPT ![s] = @ + 1]
            /\ UNCHANGED <<overflow, ending>>
       ELSE overflow' = TRUE /\ ending' = TRUE /\ UNCHANGED captured
  /\ UNCHANGED <<main, raised, outcome, fed, taken, Process, emitted, reader, unread>>

DrainEnds(s) ==
  /\ Alive(s) /\ Broken(s)
  /\ reader' = [reader EXCEPT ![s] = "ended"]
  /\ UNCHANGED <<main, raised, outcome, fed, taken, Process, ending,
                 emitted, pipe, captured, overflow, unread>>

DrainFails(s) ==
  /\ Alive(s)
  /\ reader' = [reader EXCEPT ![s] = "ended"]
  /\ unread' = TRUE /\ ending' = TRUE
  /\ UNCHANGED <<main, raised, outcome, fed, taken, Process,
                 emitted, pipe, captured, overflow>>

-----------------------------------------------------------------------------
(* Codex. *)

Idle == life = "running" /\ busy = "none"

CodexReads ==
  /\ Idle /\ taken < fed
  /\ taken' = taken + 1
  /\ UNCHANGED <<main, raised, outcome, fed, Process, ending, Output>>

CodexSpeaks(s) ==
  /\ Idle /\ emitted[s] < MaxOutput
  /\ busy' = s
  /\ UNCHANGED <<main, raised, outcome, fed, taken, life, code, held, garbled, ending, Output>>

\* The write completes only when the pipe has room.
CodexEmits(s) ==
  /\ life = "running" /\ busy = s /\ pipe[s] < PipeSize
  /\ busy' = "none"
  /\ emitted' = [emitted EXCEPT ![s] = @ + 1]
  /\ pipe' = [pipe EXCEPT ![s] = @ + 1]
  /\ UNCHANGED <<main, raised, outcome, fed, taken, life, code, held, garbled, ending,
                 captured, reader, overflow, unread>>

CodexExits ==
  /\ Idle
  /\ life' = "exited" /\ code' \in {0, 1} /\ garbled' \in BOOLEAN
  /\ UNCHANGED <<main, raised, outcome, fed, taken, busy, held, ending, Output>>

CodexLeavesChild ==
  /\ Idle /\ ~held
  /\ held' = TRUE
  /\ UNCHANGED <<main, raised, outcome, fed, taken, life, code, busy, garbled, ending, Output>>

ChildEnds ==
  /\ held
  /\ held' = FALSE
  /\ UNCHANGED <<main, raised, outcome, fed, taken, life, code, busy, garbled, ending, Output>>

\* What terminate() asked for.
CodexDies ==
  /\ ending /\ life = "running"
  /\ life' = "exited" /\ code' = 1 /\ busy' = "none"
  /\ UNCHANGED <<main, raised, outcome, fed, taken, held, garbled, ending, Output>>

Caller == \/ CheckAuth \/ Spawn \/ WritePrompt \/ ClosePrompt \/ WriteBreaks
          \/ WaitReturns \/ WaitTimesOut \/ ExpireTimesOut \/ JoinReaders \/ Judge
Readers == \E s \in Streams : Drain(s) \/ DrainEnds(s) \/ DrainFails(s)
Codex == \/ CodexReads \/ CodexExits \/ CodexLeavesChild \/ ChildEnds \/ CodexDies
         \/ \E s \in Streams : CodexSpeaks(s) \/ CodexEmits(s)

CodexNext == Caller \/ Readers \/ Codex

\* Codex holds the caller in a wait that no timeout bounds: it does not answer
\* the authentication check, or it is at leisure and does not read its prompt.
CodexSilent ==
  \/ main = "auth"
  \/ main = "write" /\ fed < PromptSize /\ fed - taken = PipeSize /\ Idle

OwedByCaller == Caller /\ main # "auth"

\* The calling thread and the readers are scheduled and every timeout passes;
\* Codex completes a write that has room and dies when terminated.  It need not
\* answer the authentication check, read its prompt or exit, nor its child end.
CodexFairness ==
  /\ WF_codexVars(OwedByCaller)
  /\ \A s \in Streams : WF_codexVars(Drain(s) \/ DrainEnds(s))
  /\ \A s \in Streams : WF_codexVars(CodexEmits(s))
  /\ WF_codexVars(CodexDies)

-----------------------------------------------------------------------------
CodexTypeOK ==
  /\ main \in {"idle", "auth", "spawn", "write", "wait", "expire", "join", "verdict", "done"}
  /\ raised \in {"none", "BROKEN_PIPE", "CODEX_TIMEOUT", "TIMEOUT_EXPIRED"}
  /\ taken \in 0 .. fed /\ fed \in 0 .. PromptSize /\ fed - taken <= PipeSize
  /\ life \in {"absent", "running", "exited"} /\ code \in {0, 1}
  /\ busy \in Streams \cup {"none"}
  /\ \A s \in Streams : /\ emitted[s] \in 0 .. MaxOutput /\ pipe[s] \in 0 .. PipeSize
                        /\ captured[s] \in 0 .. Limit
                        /\ reader[s] \in {"unstarted", "reading", "ended"}

\* A call that returns an execution captured everything Codex and its children
\* wrote, byte for byte, from a process that took its whole prompt's write, left
\* nobody on the pipes and exited with zero of its own accord: no cap, timeout,
\* failed read or terminate() hides behind a success.
CapturedWhole ==
  outcome = "OK" =>
    /\ life = "exited" /\ code = 0 /\ ~held /\ fed = PromptSize
    /\ \A s \in Streams : captured[s] = emitted[s] /\ pipe[s] = 0
=============================================================================
