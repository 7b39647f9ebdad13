--------------------------- MODULE MCMoonshotCalls ---------------------------
(***************************************************************************)
(* MoonshotChat and MoonshotExtracts against what is said of them, over    *)
(* every short sequence of replies and every short text.                   *)
(***************************************************************************)
EXTENDS MoonshotChat, MoonshotExtracts, FiniteSets, SequencesExt

Answer(finish, json) == [status |-> 200, finish |-> finish, json |-> json]
Error(status, type, context) == [status |-> status, type |-> type, schema |-> FALSE, context |-> context]
Good == Answer("stop", TRUE)
SchemaRejected == Error(400, "invalid_request_error", FALSE)

Answers == {Good, Answer("stop", FALSE), Answer("length", FALSE), Answer("content_filter", FALSE)}
Errors == {SchemaRejected, Error(400, "invalid_request_error", TRUE), Error(400, "content_filter", FALSE),
           Error(429, "rate_limit", FALSE), Error(0, "none", FALSE)}

Taken(replies, asked) == SubSeq(replies, 1, Len(asked))
Ends(replies, asked) == replies[Len(asked)]

\* "Capture usage BEFORE any refusal/parse throw": every answer is billed once; "a refusal
\* never masquerades as a malformed-JSON 502" and is not asked again; a value is whole JSON.
ASSUME MessagesAreBilledAndMapped ==
  \A replies \in [1 .. 3 -> Answers \cup Errors], schema, latched \in BOOLEAN :
    LET m == MessageStructured(schema, latched, replies)
        taken == Taken(replies, m.asked)
    IN  /\ m.billed = Cardinality({i \in DOMAIN taken : taken[i] \in Answers})
        /\ \A i \in 1 .. Len(taken) - 1 : ~Refuses(taken[i]) /\ taken[i] # Good
        /\ m.outcome = 422 <=> Refuses(Ends(replies, m.asked))
        /\ m.outcome = 200 <=> Ends(replies, m.asked) = Good

\* "A schema Moonshot permanently rejects costs ONE wasted 400 per process", of calls one
\* after the other: a rejected schema is never asked for again.
ASSUME RejectedSchemasAreLatched ==
  \A replies \in [1 .. 3 -> Answers \cup Errors], latched \in BOOLEAN :
    LET m == MessageStructured(TRUE, latched, replies)
        probes == {i \in DOMAIN m.asked : m.asked[i] = "strict"}
    IN  /\ probes = IF latched THEN {} ELSE {1}
        /\ m.latched <=> latched \/ replies[1] = SchemaRejected

\* An item is paid for once: only transient errors and the schema's one probe are followed
\* by another call, and a truncated answer is never a success.
ASSUME ItemsArePaidOnce ==
  \A replies \in [1 .. 5 -> {Good, Answer("length", FALSE), Answer("content_filter", FALSE), SchemaRejected,
                             Error(400, "content_filter", FALSE), Error(429, "rate_limit", FALSE)}],
     latched \in BOOLEAN :
    LET run == RunOne(TRUE, latched, replies)
        taken == Taken(replies, run.asked)
        last == Ends(replies, run.asked)
    IN  /\ \A i \in 1 .. Len(taken) - 1 : IsError(taken[i]) /\ (IsTransient(taken[i]) \/ run.asked[i] = "strict")
        /\ run.result = "succeeded" <=> last = Good
        /\ run.result = "refusal" <=> Refuses(last)
        /\ Len(taken) <= MaxAttempts + 1

------------------------------------------------------------------------------
Texts == UNION {[1 .. n -> {"plain", "high", "low"}] : n \in 0 .. 6}
\* As JavaScript makes them of characters.
WellFormed(text) ==
  \A i \in 1 .. Len(text) :
    /\ text[i] = "high" => i < Len(text) /\ text[i + 1] = "low"
    /\ text[i] = "low" => i > 1 /\ text[i - 1] = "high"

Joined(chunks) == FoldLeft(LAMBDA text, chunk : text \o chunk, <<>>, chunks)

\* Chunks are never empty or too long, join to the text, and cut no character in two.
ASSUME ChunksJoin ==
  \A text \in Texts, size \in 1 .. 4 :
    LET chunks == Split(text, size) IN
    /\ Joined(chunks) = text
    /\ \A i \in DOMAIN chunks : Len(chunks[i]) \in 1 .. size
    /\ WellFormed(text) /\ size > 1 => \A i \in DOMAIN chunks : WellFormed(chunks[i])

Readings(text, size, n) == After(NoStore, SubSeq(Put(text, size), 1, n))

\* "The parent doc is the commit point": a text is read whole or not at all, also when its
\* writing was cut short, at a size as large or larger, and is done again up to any point.
ASSUME TextsAreWholeOrAbsent ==
  \A text \in {t \in Texts : WellFormed(t)}, size \in 1 .. 3, before \in 1 .. 4 :
    before >= size =>
      \A n \in 0 .. Len(Put(text, before)) - 1 :
        LET left == Readings(text, before, n)
            writes == Put(text, size)
        IN  /\ \A m \in 0 .. Len(writes) - 1 : Get(After(left, SubSeq(writes, 1, m))) = [kind |-> "none"]
            /\ Get(After(left, writes)) = TextOf(text)

\* "May only ever DECREASE": what a torn put at a smaller size has left makes the whole text
\* unreadable; so does a text of fewer chunks, extracted from the same bytes another time.
ASSUME LeftoversAreRejected ==
  LET text == <<"plain", "plain", "plain">>
      left == Readings(text, 1, 3)
  IN  /\ Get(After(left, Put(text, 2))) = [kind |-> "torn"]
      /\ Get(After(left, Put(SubSeq(text, 1, 2), 1))) = [kind |-> "torn"]

\* Two processes that extract the same bytes to different texts mix them: the store leaves it
\* to the extraction to be a function of the bytes.
ASSUME ExtractionsMix ==
  LET one == <<"plain", "plain">>
      other == <<"high", "low">>
  IN  Get(After(After(NoStore, Put(one, 1)), SubSeq(Put(other, 1), 1, 1))) = TextOf(<<"high", "plain">>)
==============================================================================
