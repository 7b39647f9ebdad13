----------------------------- MODULE MoonshotChat -----------------------------
(***************************************************************************)
(* What Moonshot's chat API is asked, and what is made of its replies:     *)
(* the strict schema with its fallback and latch (createChatWithFallback), *)
(* one structured message (messageStructured) and one item of an emulated  *)
(* batch (runOne), each as a function of the replies that the API gives to *)
(* consecutive calls.                                                      *)
(*                                                                         *)
(* A reply is an answer [status 200, finish, json, usage] or an error      *)
(* [status, type, schema, context]: what its text mentions.  Status 0 is a *)
(* failure without one.  Of the request it is kept whether it has a schema *)
(* and whether it is retried by its caller.                                *)
(***************************************************************************)
EXTENDS Integers, Sequences

LOCAL INSTANCE SequencesExt

IsError(reply) == reply.status # 200
Refuses(reply) ==
  IF IsError(reply) THEN reply.status = 400 /\ reply.type = "content_filter"
  ELSE reply.finish = "content_filter"
Truncated(reply) == ~IsError(reply) /\ reply.finish = "length"

\* A 400 about the schema, or about the request at large, but not about its length.
IsSchemaRejection(reply) ==
  reply.status = 400 /\ ~reply.context /\ (reply.type = "invalid_request_error" \/ reply.schema)

\* One call of createChatWithFallback: the modes asked for, the reply it returns or throws,
\* and the latch afterwards.  A latched schema is not tried again.
Chat(schema, latched, replies) ==
  IF ~schema THEN [asked |-> <<"plain">>, reply |-> replies[1], latched |-> latched]
  ELSE IF latched THEN [asked |-> <<"object">>, reply |-> replies[1], latched |-> TRUE]
  ELSE IF IsSchemaRejection(replies[1]) THEN [asked |-> <<"strict", "object">>, reply |-> replies[2], latched |-> TRUE]
  ELSE [asked |-> <<"strict">>, reply |-> replies[1], latched |-> FALSE]

From(replies, n) == SubSeq(replies, n + 1, Len(replies))

------------------------------------------------------------------------------
(* MoonshotService.messageStructured: a value or the HTTP status it throws.  *)

Degenerate(reply) == reply.finish = "length" \/ ~reply.json

\* The catch around it all: the upstream's status, a refusal as 422, and 500 for what
\* has no status (Nest's answer to a plain Error).
Rethrown(reply) == IF Refuses(reply) THEN 422 ELSE IF reply.status = 0 THEN 500 ELSE reply.status

Outcome(reply) ==
  IF IsError(reply) THEN Rethrown(reply)
  ELSE IF Refuses(reply) THEN 422 ELSE IF Degenerate(reply) THEN 502 ELSE 200

\* A degenerate answer to a request with a schema is asked for once more, without the
\* schema's grammar; every answer is billed, the first one too.
MessageStructured(schema, latched, replies) ==
  LET first == Chat(schema, latched, replies)
      retried == schema /\ ~IsError(first.reply) /\ ~Refuses(first.reply) /\ Degenerate(first.reply)
      last == IF retried THEN replies[Len(first.asked) + 1] ELSE first.reply
  IN  [asked |-> first.asked \o (IF retried THEN <<"object">> ELSE <<>>),
       outcome |-> Outcome(last), latched |-> first.latched,
       billed |-> Len(SelectSeq(<<first.reply>> \o (IF retried THEN <<last>> ELSE <<>>), LAMBDA r : ~IsError(r)))]

------------------------------------------------------------------------------
(* MoonshotBatchWorker.runOne: an item's result.                             *)

MaxAttempts == 4
IsTransient(reply) == reply.status \in {0, 429} \cup 500 .. 599

ItemResult(reply) ==
  IF Refuses(reply) THEN "refusal"
  ELSE IF IsError(reply) \/ Truncated(reply) THEN "errored" ELSE "succeeded"

\* One attempt after those that ended in a transient error.
Attempt(schema, replies, run) ==
  IF run.settled THEN run
  ELSE LET call == Chat(schema, run.latched, From(replies, Len(run.asked))) IN
       [asked |-> run.asked \o call.asked, latched |-> call.latched, result |-> ItemResult(call.reply),
        settled |-> ~IsError(call.reply) \/ ~IsTransient(call.reply)]

RunOne(schema, latched, replies) ==
  FoldLeft(LAMBDA run, n : Attempt(schema, replies, run),
           [asked |-> <<>>, latched |-> latched, result |-> "errored", settled |-> FALSE],
           [n \in 1 .. MaxAttempts |-> n])
==============================================================================
