------------------------------ MODULE Matching ------------------------------
(***************************************************************************)
(* Plate matching: normalise_plate and decide_access, and the part of the   *)
(* processor's frame loop that calls decide_access again after every frame  *)
(* and stops at the first frame that allows.                                *)
(*                                                                         *)
(* A plate is a sequence of characters; one character may become two when   *)
(* it is put in upper case.  Confidence is in hundredths.                   *)
(***************************************************************************)
EXTENDS Naturals, FiniteSets, SequencesExt

CONSTANTS
    MaxFrames,     \* MAX_OCR_FRAMES
    Readings,      \* the plates as the OCR service or the list spells them
    Confidences,   \* confidences of a reading
    ListSize       \* bound: plates on the authorised list

\* With a fourth frame two plates could both be read twice, and which of them comes first
\* would decide.
ASSUME MatchingAssumption ==
    /\ MaxFrames \in 1 .. 3 /\ ListSize \in Nat
    /\ Confidences \subseteq 0 .. 100

VARIABLES
    authorised,    \* the list, read once for the burst
    used,          \* frames taken from the burst
    observations,  \* the answers of the OCR service
    decision       \* the last MatchDecision

matchingVars == <<authorised, used, observations, decision>>

MinExactConfidence == 90
MinFuzzyConfidence == 90

Confusions == {{"0", "O"}, {"1", "I", "L"}, {"2", "Z"}, {"5", "S"}, {"8", "B"}}
Kept == UNION Confusions
Upper(c) == CASE c = "o" -> <<"O">>
              [] c = "sharp s" -> <<"S", "S">>
              [] OTHER -> <<c>>

\* normalise_plate: upper case first, then only ASCII letters and digits are kept.
NormalisePlate(plate) ==
    SelectSeq(FlattenSeq([i \in DOMAIN plate |-> Upper(plate[i])]), LAMBDA c : c \in Kept)

Observation == [plate : Readings \cup {<<>>}, confidence : Confidences]
Denied(reason) == [allowed |-> FALSE, reason |-> reason, plate |-> <<>>]
Allowed(reason, plate) == [allowed |-> TRUE, reason |-> reason, plate |-> plate]
Lists == {L \in SUBSET Readings : IsFiniteSet(L) /\ Cardinality(L) <= ListSize}

MatchingTypeOK ==
    /\ authorised \in Lists
    /\ used \in 0 .. MaxFrames
    /\ observations \in Seq(Observation) /\ Len(observations) <= used
    /\ decision.allowed \in BOOLEAN
    /\ decision.reason \in {"none", "exact_match", "two_frame_ocr_confusion",
                            "ambiguous_fuzzy_match", "no_match"}
-----------------------------------------------------------------------------
(* decide_access *)

KnownPlates(list) == {NormalisePlate(p) : p \in list} \ {<<>>}

\* A reading that is not empty, normalised, and sure enough.
Sure(o, least) == NormalisePlate(o.plate) # <<>> /\ o.confidence >= least

\* Mutant of OneKnownConfusion: any number of confusable characters.
AnyKnownConfusion(observed, plate) ==
    /\ Len(observed) = Len(plate) /\ observed # plate
    /\ \A i \in DOMAIN plate : observed[i] = plate[i]
                               \/ \E g \in Confusions : {observed[i], plate[i]} \subseteq g

\* _is_one_known_confusion
OneKnownConfusion(observed, plate) ==
    /\ Len(observed) = Len(plate)
    /\ \E i \in DOMAIN plate :
          /\ observed[i] # plate[i]
          /\ \E g \in Confusions : {observed[i], plate[i]} \subseteq g
          /\ \A j \in DOMAIN plate \ {i} : observed[j] = plate[j]

\* Mutant of ExactMatches: only the newest frame is looked at.
ExactMatchesNewest(frames, plates) ==
    {i \in DOMAIN frames : /\ i = Len(frames) /\ Sure(frames[i], MinExactConfidence)
                           /\ NormalisePlate(frames[i].plate) \in plates}

\* The frames that read an authorised plate.
ExactMatches(frames, plates) ==
    {i \in DOMAIN frames : /\ Sure(frames[i], MinExactConfidence)
                           /\ NormalisePlate(frames[i].plate) \in plates}

\* How many frames read this plate.
FrameCount(frames, plate) ==
    Cardinality({i \in DOMAIN frames : /\ Sure(frames[i], MinFuzzyConfidence)
                                       /\ NormalisePlate(frames[i].plate) = plate})

Candidates(plate, plates) == {p \in plates : OneKnownConfusion(plate, p)}

\* The frames whose plate was read twice and has a candidate.
Consensus(frames, plates) ==
    {i \in DOMAIN frames :
        LET plate == NormalisePlate(frames[i].plate) IN
        /\ Sure(frames[i], MinFuzzyConfidence)
        /\ FrameCount(frames, plate) >= 2 /\ Candidates(plate, plates) # {}}

\* The first exact match decides, then the first plate with a consensus.
DecideAccess(frames, list) ==
    LET plates == KnownPlates(list)
        exact == ExactMatches(frames, plates)
        consensus == Consensus(frames, plates)
        Plate(i) == NormalisePlate(frames[i].plate)
    IN  IF exact # {} THEN Allowed("exact_match", Plate(Min(exact)))
        ELSE IF consensus = {} THEN Denied("no_match")
        ELSE LET matched == Candidates(Plate(Min(consensus)), plates)
             IN  IF Cardinality(matched) = 1
                 THEN Allowed("two_frame_ocr_confusion", CHOOSE p \in matched : TRUE)
                 ELSE Denied("ambiguous_fuzzy_match")
-----------------------------------------------------------------------------
(* The frame loop of GateProcessor.process *)

MatchingInit ==
    /\ authorised \in Lists
    /\ used = 0 /\ observations = <<>> /\ decision = Denied("none")

\* Mutant of Running: one frame too many.
RunningOn == used <= MaxFrames /\ ~decision.allowed

\* for ... in enumerate(paths[:MAX_OCR_FRAMES]), left by break when a decision allows.
Running == used < MaxFrames /\ ~decision.allowed

\* A frame is read, and everything read so far is decided again.
ReadFrame(o) ==
    /\ Running /\ used' = used + 1
    /\ observations' = Append(observations, o)
    /\ decision' = DecideAccess(observations', authorised)
    /\ UNCHANGED authorised

\* Recognition raises: the loop goes on with the next frame.
LoseFrame ==
    /\ Running /\ used' = used + 1
    /\ UNCHANGED <<authorised, observations, decision>>

MatchingNext == (\E o \in Observation : ReadFrame(o)) \/ LoseFrame

MatchingSpec == MatchingInit /\ [][MatchingNext]_matchingVars
-----------------------------------------------------------------------------
(* Properties *)

\* A sure frame that spells p.
Spells(o, p) == o.confidence >= 90 /\ NormalisePlate(o.plate) = p

\* p and q differ in one character, and it is one the service mistakes for the other.
Confusable(p, q) ==
    /\ Len(p) = Len(q)
    /\ \E i \in DOMAIN q : /\ {j \in DOMAIN q : p[j] # q[j]} = {i}
                         /\ \E g \in Confusions : p[i] \in g /\ q[i] \in g

\* What the rules say of a burst, without any order of frames: p was read, or one other plate
\* was read twice that can be mistaken for p and for no other plate of the list.
Due(p, frames) ==
    LET known == {NormalisePlate(a) : a \in authorised} \ {<<>>}
    IN  /\ p \in known
        /\ \/ \E i \in DOMAIN frames : Spells(frames[i], p)
           \/ \E i, j \in DOMAIN frames :
                 LET seen == NormalisePlate(frames[i].plate) IN
                 /\ i # j /\ seen # <<>> /\ Spells(frames[i], seen) /\ Spells(frames[j], seen)
                 /\ {q \in known : Confusable(seen, q)} = {p}

\* The loop opens for a plate of the list exactly when the rules of the README ("Exact
\* normalised authorised plates may open the gate; fuzzy matches require two high-confidence
\* frames and one recognised OCR-confusion substitution") are met by the frames read so far,
\* in whatever order they came and whatever frames were lost between them, and the plate it
\* names is one the rules are met for; an ambiguous reading never opens.
OpensWhenDue ==
    LET due == {p \in {NormalisePlate(a) : a \in authorised} : Due(p, observations)}
    IN  IF decision.allowed THEN decision.plate \in due ELSE due = {}

\* The verdict after every frame is the one the rules give.
VerdictDue == MatchingTypeOK /\ OpensWhenDue

\* The frames left in the burst.
Rest == UNION {[1 .. n -> Observation] : n \in 1 .. MaxFrames - used}

\* Stopping at the first frame that allows loses nothing: no frames that are still to come
\* could turn the verdict of decide_access back, so the early break of the loop and a decision
\* over the whole burst agree.
EarlyStopAgrees ==
    decision.allowed => \A rest \in Rest : DecideAccess(observations \o rest, authorised).allowed
=============================================================================
