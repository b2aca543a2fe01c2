------------------------------ MODULE LlmClient ------------------------------
(***************************************************************************)
(* OpenAICompatibleLlmClient (agent/llm_client.py): one call at a time, to *)
(* a service that may refuse, stall, break off or send nonsense.           *)
(*                                                                         *)
(*   idle -> posting -> answered                                           *)
(*              |  \--> streaming -> answered                              *)
(*              |           |                                              *)
(*              \-> backoff <    -> raised                                 *)
(*                                                                         *)
(* Only a streaming call shows what it receives before it has ended.       *)
(***************************************************************************)
EXTENDS Naturals, Sequences

CONSTANTS
  MaxRetries,   \* RESOURCEOPS_LLM_MAX_RETRIES
  MaxChunks     \* bound: the chunks a stream carries

ASSUME ClientAssumption == MaxRetries \in Nat /\ MaxChunks \in Nat

VARIABLES
  stage,      \* control state of the call
  streams,    \* whether it was made by stream_report
  attempt,    \* number of the attempt
  yielded,    \* yielded_line of the attempt
  shown,      \* the chunks given to the callback, by their attempt
  sent        \* history: requests sent, over all calls of the diagnosis

clientVars == <<stage, streams, attempt, yielded, shown, sent>>

ClientTypeOK ==
  /\ stage \in {"idle", "posting", "streaming", "backoff", "answered", "raised"}
  /\ streams \in BOOLEAN
  /\ attempt \in 0..MaxRetries
  /\ yielded \in BOOLEAN
  /\ shown \in Seq(0..MaxRetries) /\ Len(shown) <= MaxChunks
  /\ sent \in Nat

ClientInit ==
  /\ stage = "idle"
  /\ streams = FALSE
  /\ attempt = 0
  /\ yielded = FALSE
  /\ shown = <<>>
  /\ sent = 0

-----------------------------------------------------------------------------
\* generate_text, generate_report or, with stream, stream_report.
StartCall(stream) ==
  /\ stage \in {"idle", "answered", "raised"}
  /\ stage' = "posting"
  /\ streams' = stream
  /\ attempt' = 0
  /\ yielded' = FALSE
  /\ UNCHANGED <<shown, sent>>

\* What may be tried again, is, as long as attempts are left.
AgainOrRaise == IF attempt < MaxRetries THEN "backoff" ELSE "raised"

\* One HTTP request.  429, 502, 503, 504, timeouts and transport errors are
\* tried again; any other error status raises at once, and so does a body
\* that is not the expected JSON.
Post ==
  /\ stage = "posting"
  /\ sent' = sent + 1
  /\ yielded' = FALSE
  /\ stage' \in {AgainOrRaise, "raised", IF streams THEN "streaming" ELSE "answered"}
  /\ UNCHANGED <<streams, attempt, shown>>

\* time.sleep, and the next attempt.
Backoff ==
  /\ stage = "backoff"
  /\ stage' = "posting"
  /\ attempt' = attempt + 1
  /\ UNCHANGED <<streams, yielded, shown, sent>>

\* A line of the stream: a chunk, which is shown, or one without content.
ReceiveLine ==
  /\ stage = "streaming"
  /\ yielded' = TRUE
  /\ \/ Len(shown) < MaxChunks /\ shown' = Append(shown, attempt)
     \/ ~yielded /\ UNCHANGED shown
  /\ UNCHANGED <<stage, streams, attempt, sent>>

\* [DONE] or the end of the body ends a stream, a line that is not the
\* expected JSON raises.
EndStream ==
  /\ stage = "streaming"
  /\ stage' \in {"answered", "raised"}
  /\ UNCHANGED <<streams, attempt, yielded, shown, sent>>

\* Mutation: a broken stream is tried again whatever has been received.
BreakStreamAgain ==
  /\ stage = "streaming"
  /\ stage' = AgainOrRaise
  /\ UNCHANGED <<streams, attempt, yielded, shown, sent>>

\* The connection fails: tried again only before the first line.
BreakStream ==
  /\ stage = "streaming"
  /\ stage' = IF yielded THEN "raised" ELSE AgainOrRaise
  /\ UNCHANGED <<streams, attempt, yielded, shown, sent>>

ClientStep == Post \/ Backoff \/ ReceiveLine \/ EndStream \/ BreakStream

-----------------------------------------------------------------------------
\* What the reader is shown while the report streams is one answer, never two
\* beginnings in a row: a retry after the first line would repeat it.
ShownTextIsOneAnswer == \A i, j \in DOMAIN shown : shown[i] = shown[j]
=============================================================================
