----------------------------- MODULE ChatContext -----------------------------
(***************************************************************************)
(* What the model is told of the conversation so far. created_at is the    *)
(* start of the transaction, so the rows of one request are tied and come  *)
(* back in any order.                                                      *)
(***************************************************************************)
EXTENDS ChatSession, SequencesExt

CONSTANTS
  PairLimit, \* turns in the prompt (8)
  LineLimit  \* lines that fit into its 1800 characters

ASSUME ContextConstants == PairLimit \in Nat \ {0} /\ LineLimit \in Nat \ {0}

Newest(s, n) == IF Len(s) > n THEN SubSeq(s, Len(s) - n + 1, Len(s)) ELSE s

\* The rows of one session a transaction wrote.
RowsAt(ph, n) ==
  [turn : {t \in turns : From[t.msg] = ph /\ t.at = n}, role : {"user", "assistant"}]

\* get_recent_messages, reversed: every order the database may return.
Recent(ph) ==
  LET read[n \in Nat] ==
        IF n = 0 THEN {<<>>}
        ELSE {s \o t : s \in read[n - 1], t \in SetToSeqs(RowsAt(ph, n))}
  IN  {Newest(s, HistoryLimit) : s \in read[clock]}

\* A pair of the loop that pairs questions and answers, as its lines: a question
\* without an answer, an answer without a question, or both.
NoPairs == [pairs |-> <<>>, user |-> <<>>]
Flush(acc) == IF acc.user = <<>> THEN acc.pairs ELSE Append(acc.pairs, acc.user)

\* Faulty variant: a question without an answer is overwritten by the next
PairOverwrites(acc, row) ==
  IF row.role = "user" THEN [pairs |-> acc.pairs, user |-> <<row>>]
  ELSE [pairs |-> Append(acc.pairs, Append(acc.user, row)), user |-> <<>>]

\* One row of the loop.
Pair(acc, row) ==
  IF row.role = "user" THEN [pairs |-> Flush(acc), user |-> <<row>>]
  ELSE [pairs |-> Append(acc.pairs, Append(acc.user, row)), user |-> <<>>]

RecentTurns(rows) ==
  LET acc[n \in Nat] == IF n = 0 THEN NoPairs ELSE Pair(acc[n - 1], rows[n])
  IN  Flush(acc[Len(rows)])

\* The transcript: the newest pairs, line by line, cut at the front.
Transcript(rows) ==
  Newest(FlattenSeq(Newest(RecentTurns(rows), PairLimit)), LineLimit)

\* In whatever order the tied rows come back, and whichever turns overlapped,
\* the transcript is the newest of what was read, in its order and without a
\* gap, and is as long as the limits let it be.
TranscriptIsNewest ==
  \A ph \in Phone : \A rows \in Recent(ph) :
    LET lines == Transcript(rows) IN
    /\ Len(lines) <= Len(rows) /\ lines = Newest(rows, Len(lines))
    /\ \A n \in {PairLimit, LineLimit, Len(rows)} :
         (\A k \in {PairLimit, LineLimit, Len(rows)} : n <= k) => Len(lines) >= n
=============================================================================
