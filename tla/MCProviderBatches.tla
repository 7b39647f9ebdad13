-------------------------- MODULE MCProviderBatches --------------------------
(***************************************************************************)
(* Instances of ProviderBatches for TLC: one cell, run, pass and worker    *)
(* over two batches, so that a retried cell meets the rows of two.         *)
(***************************************************************************)
EXTENDS ProviderBatches, MCBenchmarkPipeline, MCMoonshotCalls

Line(file, error, finish, usage) ==
  [file |-> file, status |-> 200, body |-> TRUE, error |-> error, finish |-> finish, usage |-> usage]
Entry(type, stop, usage) == [type |-> type, stop |-> stop, usage |-> usage]

Reply(reply, usage) == ("usage" :> usage) @@ reply

\* Answers, refusals and failures; also what is taken for an answer, a message cut short
\* and a body without a choice (whose finish is "none").
MCEmulatedRows ==
  {Reply(Good, TRUE), Reply(Error(400, "content_filter", FALSE), FALSE), Reply(Answer("length", FALSE), TRUE)}
MCMoonshotRows ==
  {Line("output", "none", "stop", TRUE), Line("output", "content_filter", "none", TRUE),
   Line("output", "other", "stop", FALSE), Line("output", "none", "length", TRUE),
   Line("output", "none", "none", FALSE)}
MCAnthropicRows ==
  {Entry("succeeded", "end_turn", TRUE), Entry("succeeded", "refusal", TRUE),
   Entry("succeeded", "max_tokens", TRUE), Entry("errored", "none", FALSE)}

\* What the adapters' tests say of the rows left out above: a bodyless 200, an error
\* status, a refusal by finish reason, the error file, a line that does not parse.
ASSUME ItemsAreRead ==
  /\ MoonshotItem([Line("output", "none", "stop", TRUE) EXCEPT !.body = FALSE]) = "errored"
  /\ MoonshotItem([Line("output", "none", "stop", TRUE) EXCEPT !.status = 500]) = "errored"
  /\ MoonshotItem(Line("output", "none", "content_filter", TRUE)) = "refusal"
  /\ MoonshotItem(Line("errors", "content_filter", "none", FALSE)) = "errored"
  /\ MoonshotItem(Line("garbled", "none", "stop", TRUE)) = "errored"
  /\ \A type \in {"canceled", "expired"} : AnthropicItem(Entry(type, "none", FALSE)) = "errored"
  /\ Lifecycle("validating") = "in_progress" /\ Lifecycle("canceling") = "submitted"

\* "MIRRORS toItemResult (the native-batch path) - keep the two in sync": an answer or a
\* refusal is the same item in the emulation and in a line of the native output.
ASSUME EmulationMirrorsNative ==
  /\ \A finish \in {"stop", "length", "content_filter"} :
       ItemResult(Answer(finish, TRUE)) = MoonshotItem(Line("output", "none", finish, TRUE))
  /\ ItemResult(Error(400, "content_filter", FALSE)) = MoonshotItem(Line("output", "content_filter", "none", TRUE))
=============================================================================
