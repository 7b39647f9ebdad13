--------------------------- MODULE MoonshotExtracts ---------------------------
(***************************************************************************)
(* The texts extracted from uploaded files (moonshot.extract-store.ts): a  *)
(* text is a sequence of UTF-16 units, of which an astral character takes  *)
(* a "high" and a "low" one, stored in one document or in chunks below it. *)
(* Put is the sequence of the documents it writes, one await each, so that *)
(* a crash leaves a prefix of it; Get is what a process without the text   *)
(* in its cache reads of the documents there are.                          *)
(***************************************************************************)
EXTENDS Integers, Sequences

LOCAL INSTANCE SequencesExt

\* A text is cut before a high unit that would be the last of its chunk, unless that
\* leaves the chunk empty.
ChunkEnd(text, from, size) ==
  LET end == IF from + size < Len(text) THEN from + size ELSE Len(text) IN
  IF end < Len(text) /\ text[end] = "high" /\ end - 1 > from THEN end - 1 ELSE end

\* splitIntoChunks, as a fold over the units: each is where a chunk may begin.
Split(text, size) ==
  LET cut == FoldLeft(LAMBDA acc, n :
               IF acc.from >= Len(text) THEN acc
               ELSE LET end == ChunkEnd(text, acc.from, size) IN
                    [from |-> end, chunks |-> Append(acc.chunks, SubSeq(text, acc.from + 1, end))],
               [from |-> 0, chunks |-> <<>>], [n \in 1 .. Len(text) |-> n])
  IN  cut.chunks

NoStore == [parent |-> <<>>, chunks |-> <<>>]
Inline(text) == [chunked |-> FALSE, count |-> 1, text |-> text]
Parent(count) == [chunked |-> TRUE, count |-> count, text |-> <<>>]

\* The writes of a put: the chunks in order, and the parent last.
Put(text, size) ==
  IF Len(text) <= size THEN <<[doc |-> 0, value |-> Inline(text)]>>
  ELSE LET chunks == Split(text, size) IN
       [i \in 1 .. Len(chunks) |-> [doc |-> i, value |-> chunks[i]]]
         \o <<[doc |-> 0, value |-> Parent(Len(chunks))]>>

\* A write sets its document; chunks are numbered without gaps, for writes begin with the first.
Written(store, write) ==
  IF write.doc = 0 THEN [store EXCEPT !.parent = <<write.value>>]
  ELSE [store EXCEPT !.chunks = IF write.doc <= Len(@) THEN [@ EXCEPT ![write.doc] = write.value]
                                ELSE Append(@, write.value)]
After(store, writes) == FoldLeft(Written, store, writes)

TextOf(text) == [kind |-> "text", text |-> text]

\* getByHash: nothing, a text, or the error of a torn write.
Get(store) ==
  IF store.parent = <<>> THEN [kind |-> "none"]
  ELSE LET doc == store.parent[1] IN
       IF ~doc.chunked THEN TextOf(doc.text)
       ELSE IF Len(store.chunks) # doc.count THEN [kind |-> "torn"]
       ELSE TextOf(FoldLeft(LAMBDA text, chunk : text \o chunk, <<>>, store.chunks))
==============================================================================
