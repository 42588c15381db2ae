------------------------------ MODULE Feedback ------------------------------
(***************************************************************************)
(* Votes on the scenes of a project, and the advice on prompts drawn from  *)
(* the votes on a style.  A vote is looked up among the recent ones before *)
(* it is inserted and gets its embedding afterwards, each by a query of    *)
(* its own.  What a like starts in the training of a style is StyleLora's. *)
(***************************************************************************)
EXTENDS Integers, Sequences, FiniteSets

CONSTANTS
    MaxVotes,        \* bound: requests POST /projects/:id/feedback
    Ballots,         \* what they may say
    DedupeWindow,    \* FEEDBACK_DEDUPE_WINDOW_MS
    Enough,          \* votes that advice needs, 5 in the code
    SimilarityLimit, \* PGVECTOR_SIMILARITY_LIMIT
    CandidateLimit,  \* PGVECTOR_ANN_CANDIDATE_LIMIT
    MaxMoment        \* bound: the clock

NoFrame == -1     \* frameTime is optional and never negative

(* A prompt is its spelling after trimming and lowering, a style the one    *)
(* sent or else the project's.                                              *)
IsBallot(b) ==
    /\ DOMAIN b = {"score", "prompt", "style", "frame"}
    /\ b.score \in -1 .. 1 /\ b.frame \in Nat \cup {NoFrame}

ASSUME FeedbackAssumption ==
    /\ \A b \in Ballots : IsBallot(b)
    /\ DedupeWindow \in Nat /\ MaxMoment \in Nat /\ MaxVotes \in Nat
    /\ Enough \in Nat \ {0} /\ SimilarityLimit \in Nat \ {0} /\ CandidateLimit \in Nat \ {0}

VARIABLES
    votes,    \* rows of GenerationFeedback, in the order of their inserts
    voter,    \* where each request stands
    moment    \* the clock, in units of the window

feedbackVars == <<votes, voter, moment>>

Voters == 1 .. MaxVotes     \* alike, so they come in this order

Ready == [at |-> "ready"]

FeedbackInit ==
    /\ votes = <<>> /\ moment = 0
    /\ voter = [v \in Voters |-> Ready]

-----------------------------------------------------------------------------
(* The WHERE of findDuplicateFeedback: a ballot with no frame is a second   *)
(* vote on any, frames a second apart are one.                              *)
SameVote(row, b) ==
    /\ row.score = b.score /\ row.prompt = b.prompt /\ row.style = b.style
    /\ \/ b.frame = NoFrame
       \/ row.frame # NoFrame /\ row.frame - b.frame \in -1 .. 1

Recent(row) == row.createdAt >= moment - DedupeWindow

(* Mutation: only the newest row is compared. *)
Duplicates_newestOnly(b) ==
    {i \in DOMAIN votes : i = Len(votes) /\ SameVote(votes[i], b) /\ Recent(votes[i])}

Duplicates(b) == {i \in DOMAIN votes : SameVote(votes[i], b) /\ Recent(votes[i])}

(* addFeedback looks for a duplicate and answers with it,                   *)
LookUp(v) ==
    /\ voter[v] = Ready /\ \A u \in 1 .. v - 1 : voter[u] # Ready
    /\ \E b \in Ballots :
          voter' = [voter EXCEPT ![v] = IF Duplicates(b) # {} THEN [at |-> "ignored"]
                                        ELSE [at |-> "insert", ballot |-> b, seen |-> Len(votes)]]
    /\ UNCHANGED <<votes, moment>>

(* or inserts the vote.  seen is a ghost: the rows its look-up could see.   *)
Row(b, seen) ==
    [score |-> b.score, prompt |-> b.prompt, style |-> b.style, frame |-> b.frame,
     createdAt |-> moment, embedded |-> FALSE, seen |-> seen]

Insert(v) ==
    /\ voter[v].at = "insert"
    /\ votes' = Append(votes, Row(voter[v].ballot, voter[v].seen))
    /\ voter' = [voter EXCEPT ![v] = [at |-> "enrich", row |-> Len(votes')]]
    /\ UNCHANGED moment

(* enrichFeedbackWithEmbedding: no model answering, the vector is computed  *)
(* here; the empty prompt has none, and a failed UPDATE is only logged.     *)
Enrich(v) ==
    /\ voter[v].at = "enrich"
    /\ \E stored \in BOOLEAN :
          /\ stored => votes[voter[v].row].prompt # ""
          /\ votes' = [votes EXCEPT ![voter[v].row].embedded = stored]
    /\ voter' = [voter EXCEPT ![v] = [at |-> "recorded"]]
    /\ UNCHANGED moment

Passes ==
    /\ moment < MaxMoment /\ moment' = moment + 1
    /\ UNCHANGED <<votes, voter>>

FeedbackNext ==
    \/ \E v \in Voters : LookUp(v)
    \/ \E v \in Voters : Insert(v)
    \/ \E v \in Voters : Enrich(v)
    \/ Passes

FeedbackSpec == FeedbackInit /\ [][FeedbackNext]_feedbackVars

-----------------------------------------------------------------------------
(* The advice on a style, for every order in which the distances may put    *)
(* the rows.  nearest stands for the candidates of the approximate search,  *)
(* which knows no style.                                                    *)
Counted(style) == {i \in DOMAIN votes : votes[i].style = style /\ votes[i].score # 0}

Vectors == {i \in DOMAIN votes : votes[i].embedded /\ votes[i].score # 0}

Least(a, b) == IF a <= b THEN a ELSE b

Searches ==
    LET limit == IF CandidateLimit < SimilarityLimit THEN SimilarityLimit ELSE CandidateLimit
    IN {near \in SUBSET Vectors : Cardinality(near) = Least(limit, Cardinality(Vectors))}

(* WHERE "style" ... LIMIT *)
Matches(near, style) == Least(SimilarityLimit, Cardinality(near \cap Counted(style)))

(* Too few of them: the exact search is made, and the longer result used.   *)
Similar(near, style) ==
    LET exact == Least(SimilarityLimit, Cardinality(Vectors \cap Counted(style)))
    IN IF Matches(near, style) < Least(Enough, SimilarityLimit) /\ exact > Matches(near, style)
       THEN exact ELSE Matches(near, style)

(* optimizePromptFromFeedback *)
Aggregate(style) == IF Cardinality(Counted(style)) < Enough THEN "none" ELSE "aggregate"

(* getPromptOptimization; the patterns found may be too weak to be used.    *)
Advice(near, style, weak) ==
    IF Similar(near, style) >= Enough /\ ~weak THEN "similar" ELSE Aggregate(style)

(* The types of the votes and of the requests.                              *)
FeedbackTypeOK ==
    /\ moment \in 0 .. MaxMoment
    /\ \A i \in DOMAIN votes :
          /\ votes[i].createdAt \in 0 .. moment /\ votes[i].embedded \in BOOLEAN
          /\ votes[i].seen \in 0 .. i - 1
    /\ \A v \in Voters : voter[v].at \in {"ready", "ignored", "insert", "enrich", "recorded"}

(* Of two votes that say the same within the window, the second had been    *)
(* looked up before the first was inserted: only requests that overlap get  *)
(* past the look-up of addFeedback, whatever was voted in between.          *)
DuplicateVotesOverlap ==
    \A i, k \in DOMAIN votes :
        /\ i < k /\ SameVote(votes[i], votes[k])
        /\ votes[k].createdAt - votes[i].createdAt <= DedupeWindow
        => votes[k].seen < i

(* Whether there is advice on a style depends on the number of votes on it  *)
(* alone: not on which of them have a vector, nor on how many votes on      *)
(* other styles crowd the approximate search (getPromptOptimization).       *)
AdviceNeedsVotes ==
    \A style \in {votes[i].style : i \in DOMAIN votes}, near \in Searches, weak \in BOOLEAN :
        Advice(near, style, weak) = "none" <=> Cardinality(Counted(style)) < Enough
=============================================================================
