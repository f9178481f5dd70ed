--------------------------- MODULE LoptTokenizer ----------------------------
(***************************************************************************)
(* LoPT, the parallel tokenizer: LoptParallelTokenizer                      *)
(* (vllm/tokenizers/lopt_wrapper.py) over chunks (lopt_utils.py) and the    *)
(* C++ match and merge (benchmarks/csrc/match_merge.cpp), as                *)
(* create_completion (serving_completion.py) calls it.                      *)
(*                                                                         *)
(* A text is its length; characters are 0 .. len-1.  A tokenization is the  *)
(* nondecreasing sequence of the tokens' start offsets; a character that   *)
(* the vocabulary lacks (Split) is two byte tokens with the same start.     *)
(* The tokenizer is external: cutting the text disturbs the tokens within   *)
(* Edge characters of the cut and no others.                                *)
(*                                                                         *)
(* The call is synchronous, so the server handles one prompt at a time; the *)
(* pool's workers run in parallel.  A worker that dies, and leaves pool.map *)
(* waiting for ever, is not modelled.                                       *)
(***************************************************************************)
EXTENDS Integers, Sequences, FiniteSets, SequencesExt

CONSTANTS ChunkSize,        \* chunk_size
          Overlap,          \* overlap, chunk_size / 8 in the code
          MinTail,          \* the 100 of chunks()
          MismatchThres,    \* mismatch_thres, the 2 of _cpp_match_wrapper
          TextLens,         \* lengths of prompts
          Split,            \* characters that are two tokens
          MaxTokenLen,      \* longest token, in characters
          Edge,             \* how far the tokenizer looks
          Builds,           \* whether the tokenizer can be built: {TRUE}, {FALSE}, both
          Pending, None

ASSUME LoptAssumption ==
    /\ ChunkSize \in Nat \ {0} /\ Overlap \in 0..ChunkSize /\ MinTail \in Nat
    /\ MismatchThres \in Nat /\ MaxTokenLen \in Nat \ {0} /\ Edge \in Nat
    /\ TextLens \subseteq Nat \ {0} /\ Builds \in (SUBSET BOOLEAN) \ {{}}

VARIABLES lopt_tokenizer,   \* "unset", None, or "ready"
          text,             \* length of the prompt
          serial,           \* where the tokens of the whole text start (a set)
          shards,           \* the workers' results, in the order of the chunks
          matches,          \* of the pairs matched so far
          pc, reply

vars == <<lopt_tokenizer, text, serial, shards, matches, pc, reply>>

NoReply == [kind |-> "none", tokens |-> <<>>]
Error   == [kind |-> "error", tokens |-> <<>>]

Init == /\ lopt_tokenizer = "unset"
        /\ text = 0 /\ serial = {} /\ shards = <<>> /\ matches = <<>>
        /\ pc = "start" /\ reply = NoReply

-----------------------------------------------------------------------------
(* Tokenizations. *)

\* The starts of B within n characters from s on, relative to s, in order.
Starts(B, s, n) ==
    LET Copy(k) == s + (k - 1) \div 2   \* each character is looked at twice
        idx == SelectSeq([k \in 1..(2 * n) |-> k],
                         LAMBDA k : Copy(k) \in B /\ (k % 2 = 1 \/ Copy(k) \in Split))
    IN [i \in 1..Len(idx) |-> Copy(idx[i]) - s]

\* Each token of a piece of n characters at s, by where it is in the text.
Tokens(starts, s, n) ==
    LET End(i) == LET after == {starts[j] : j \in i..Len(starts)} \ {starts[i]}
                  IN IF after = {} THEN n ELSE CHOOSE e \in after : \A x \in after : e <= x
        Nth(i) == IF i > 1 /\ starts[i - 1] = starts[i] THEN 2 ELSE 1
    IN [i \in 1..Len(starts) |-> <<s + starts[i], s + End(i), Nth(i)>>]

\* A split character is not part of a longer token.
Standalone(B, n) == \A p \in Split : (p < n => p \in B) /\ (p + 1 < n => p + 1 \in B)

Tokenizations(n) ==
    {B \cup {0} : B \in {X \in SUBSET (1..(n - 1)) :
        /\ Standalone(X \cup {0}, n)
        /\ \A p \in 0..(n - MaxTokenLen - 1) :
              p \in X \cup {0} => \E q \in (p + 1)..(p + MaxTokenLen) : q \in X}}

-----------------------------------------------------------------------------
(* chunks() *)

\* The loop cuts off ChunkSize characters while more than MinTail remain after.
NumChunks(n) == 1 + Cardinality({i \in 1..n : n - i * ChunkSize > MinTail})
ChunkStart(i) == (i - 1) * ChunkSize

ChunkEnd(i, n) ==
    IF i = NumChunks(n) \/ ChunkStart(i) + ChunkSize + Overlap > n THEN n
    ELSE ChunkStart(i) + ChunkSize + Overlap

\* What a worker may make of chunk i: the serial tokens, except near a cut.
ChunkTokenizations(i, n) ==
    LET s == ChunkStart(i)
        e == ChunkEnd(i, n)
        Sure(p) == /\ (p >= s + Edge \/ s = 0) /\ (p < e - Edge \/ e = n)
        fixed == {p \in serial : p \in s..(e - 1) /\ Sure(p)} \cup {s}
                    \cup {p \in s..(e - 1) : p \in Split \/ p - 1 \in Split}
    IN {fixed \cup X : X \in SUBSET {p \in (s + 1)..(e - 1) : ~Sure(p)}}

-----------------------------------------------------------------------------
(* match() of match_merge.cpp: a and b are the start offsets of neighbouring *)
(* chunks.  It walks both from the right and keeps the longest run of equal  *)
(* offsets; size is one less than the run's length.  The cut is in front of  *)
(* the last but one token of the run.  Sequences count from 1 here.          *)

Failed == <<-1, -1>>

\* One iteration, for b[i1].  The offsets are in order, so that the inner loop
\* leaves i0 at the last one that is small enough.
MatchStep(a, b, st, i1) ==
    LET i0 == Cardinality({i \in 1..st.i0 : a[i] <= b[i1] + ChunkSize})
        current == IF i0 = st.i0 THEN st.current ELSE 0
        longer == current > st.size
    IN IF i0 > 0 /\ a[i0] = b[i1] + ChunkSize
       THEN [i0 |-> i0 - 1, current |-> current + 1,
             a |-> IF longer THEN i0 ELSE st.a, b |-> IF longer THEN i1 ELSE st.b,
             size |-> IF longer THEN current ELSE st.size]
       ELSE [st EXCEPT !.i0 = i0, !.current = 0]

\* The loop.  (The set of one element makes TLC evaluate the state only once.)
LongestMatch(a, b) ==
    LET m[i1 \in 1..(Len(b) + 1)] ==
            IF i1 > Len(b) THEN [i0 |-> Len(a), current |-> 0, a |-> 0, b |-> 0, size |-> 0]
            ELSE CHOOSE next \in {MatchStep(a, b, st, i1) : st \in {m[i1 + 1]}} : TRUE
    IN m[1]

\* Mutants: the left chunk is cut one token later; one equal offset is enough.
match_late(a, b) ==
    LET m == LongestMatch(a, b)
    IN IF m.size <= MismatchThres THEN Failed
       ELSE <<Len(a) - (m.a + m.size - 1), Len(b) - (m.b + m.size - 2)>>
match_any(a, b) ==
    LET m == LongestMatch(a, b)
    IN IF m.size = 0 THEN Failed
       ELSE <<Len(a) - (m.a + m.size - 2), Len(b) - (m.b + m.size - 2)>>

match(a, b) ==
    LET m == LongestMatch(a, b)
    IN IF m.size <= MismatchThres THEN Failed
       ELSE <<Len(a) - (m.a + m.size - 2), Len(b) - (m.b + m.size - 2)>>

\* merge(): of each chunk the tokens between its two cuts, which are counted
\* from the chunk's end.
merge(chunks, cuts) ==
    FlattenSeq([i \in DOMAIN chunks |->
        LET n == Len(chunks[i])
        IN SubSeq(chunks[i], n - cuts[2 * i - 1] + 1, n - cuts[2 * i])])

-----------------------------------------------------------------------------
\* maybe_get_lopt_tokenizer, called when the server starts: without the
\* extension, or when the constructor raises, there is no tokenizer.
maybe_get_lopt_tokenizer(built) ==
    /\ pc = "start"
    /\ lopt_tokenizer' = IF built THEN "ready" ELSE None
    /\ pc' = "idle"
    /\ UNCHANGED <<text, serial, shards, matches, reply>>

Answer(r) == pc' = "reply" /\ reply' = r

\* create_completion calls self.lopt_tokenizer(request.prompt).  None is not
\* callable: TypeError, an error response.  A short text goes to the tokenizer
\* itself, with add_special_tokens as its second argument, which is text_pair:
\* the tokenizer refuses a pair that is not a text, or adds its special tokens.
Receive(n, B) ==
    /\ pc = "idle"
    /\ text' = n /\ serial' = B
    /\ \/ /\ lopt_tokenizer = None
          /\ Answer(Error) /\ shards' = <<>>
       \/ /\ lopt_tokenizer = "ready" /\ n < 2 * ChunkSize
          /\ \/ Answer(Error)
             \/ Answer([kind |-> "special", tokens |-> Tokens(Starts(B, 0, n), 0, n)])
          /\ shards' = <<>>
       \/ /\ lopt_tokenizer = "ready" /\ n >= 2 * ChunkSize
          /\ shards' = [i \in 1..NumChunks(n) |-> Pending]
          /\ pc' = "map" /\ UNCHANGED reply
    /\ matches' = <<>>
    /\ UNCHANGED lopt_tokenizer

\* _tokenize_chunk, in a worker.
_tokenize_chunk(i, B) ==
    /\ pc = "map" /\ shards[i] = Pending
    /\ shards' = [shards EXCEPT
                    ![i] = Starts(B, ChunkStart(i), ChunkEnd(i, text) - ChunkStart(i))]
    /\ UNCHANGED <<lopt_tokenizer, text, serial, matches, pc, reply>>

\* pool.map returns when every chunk is done.  The only chunk of a text is
\* returned as an array, which create_completion's renderer does not accept.
Collect ==
    /\ pc = "map" /\ \A i \in DOMAIN shards : shards[i] # Pending
    /\ IF Len(shards) = 1 THEN Answer(Error) ELSE pc' = "match" /\ UNCHANGED reply
    /\ UNCHANGED <<lopt_tokenizer, text, serial, shards, matches>>

NextPair == match(shards[Len(matches) + 1], shards[Len(matches) + 2])

MatchPair ==
    /\ pc = "match" /\ Len(matches) < Len(shards) - 1
    /\ NextPair # Failed
    /\ matches' = Append(matches, NextPair)
    /\ UNCHANGED <<lopt_tokenizer, text, serial, shards, pc, reply>>

\* RuntimeError: fall back to the tokenizer, for an array.  The renderer compares
\* it with "", which has no truth value in current versions of NumPy (ValueError);
\* past that, parse_raw_prompts raises TypeError.  Either way the reply is an error.
FallBack ==
    /\ pc = "match" /\ Len(matches) < Len(shards) - 1
    /\ NextPair = Failed
    /\ Answer(Error)
    /\ UNCHANGED <<lopt_tokenizer, text, serial, shards, matches>>

Cuts == <<Len(shards[1])>> \o FlattenSeq(matches) \o <<0>>

ShardTokens(i) == Tokens(shards[i], ChunkStart(i), ChunkEnd(i, text) - ChunkStart(i))

Merge ==
    /\ pc = "match" /\ Len(matches) = Len(shards) - 1
    /\ Answer([kind |-> "merged",
               tokens |-> merge([i \in DOMAIN shards |-> ShardTokens(i)], Cuts)])
    /\ UNCHANGED <<lopt_tokenizer, text, serial, shards, matches>>

\* The response is on its way; nothing is left of the prompt.
SendReply ==
    /\ pc = "reply"
    /\ text' = 0 /\ serial' = {} /\ shards' = <<>> /\ matches' = <<>>
    /\ pc' = "idle" /\ reply' = NoReply
    /\ UNCHANGED lopt_tokenizer

Serve ==
    \/ \E i \in DOMAIN shards :
          shards[i] = Pending /\ \E B \in ChunkTokenizations(i, text) : _tokenize_chunk(i, B)
    \/ Collect \/ MatchPair \/ FallBack \/ Merge \/ SendReply

Next ==
    \/ \E built \in Builds : maybe_get_lopt_tokenizer(built)
    \/ pc = "idle" /\ \E n \in TextLens : \E B \in Tokenizations(n) : Receive(n, B)
    \/ Serve

Spec == Init /\ [][Next]_vars

-----------------------------------------------------------------------------
TypeOK ==
    /\ lopt_tokenizer \in {"unset", None, "ready"}
    /\ pc \in {"start", "idle", "map", "match", "reply"}
    /\ reply.kind \in {"none", "error", "special", "merged"}
    /\ matches # <<>> => Len(matches) < Len(shards)
    /\ \A k \in 1..Len(matches) : /\ matches[k][1] \in 1..Len(shards[k])
                                 /\ matches[k][2] \in 1..Len(shards[k + 1])
    /\ pc \in {"match", "reply"} => \A i \in DOMAIN shards : shards[i] \in Seq(Nat)

\* "Lossless": the merged tokens are the tokens of the whole text, none lost,
\* doubled or split at the cuts.  It holds when Edge characters are too few for
\* an accepted run (MismatchThres + 2 tokens) and a wrong token after it, and
\* half the overlap is at least Edge.
Lossless ==
    reply.kind = "merged" => reply.tokens = Tokens(Starts(serial, 0, text), 0, text)

\* The common runs of two chunks: n equal offsets from a[i] and b[j] on.
Runs(a, b) ==
    {<<i, j, n>> \in (1..Len(a)) \X (1..Len(b)) \X (1..Len(b)) :
        /\ i + n - 1 <= Len(a) /\ j + n - 1 <= Len(b)
        /\ \A k \in 0..(n - 1) : a[i + k] = b[j + k] + ChunkSize}

\* The two-pointer loop of match() finds a longest common run, and the rightmost
\* of them, and cuts both chunks in front of the same character, one token
\* before the run's end.
MatchIsLongestRun ==
    \A k \in 1..Len(matches) :
        LET a == shards[k]
            b == shards[k + 1]
            ca == Len(a) - matches[k][1] + 1
            cb == Len(b) - matches[k][2] + 1
            all == Runs(a, b)
        IN \E x \in all :
              /\ ca = x[1] + x[3] - 2 /\ cb = x[2] + x[3] - 2
              /\ a[ca] = b[cb] + ChunkSize
              /\ \A y \in all : y[3] < x[3] \/ (y[3] = x[3] /\ y[1] <= x[1])

\* A text that the tokenizer itself would accept is never answered with an
\* error: "Falling back to standard tokenization" is the promise of
\* maybe_get_lopt_tokenizer, and of _parallel_encode on match failure.
AlwaysServed == reply.kind # "error"
=============================================================================
