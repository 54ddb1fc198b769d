------------------------------ MODULE Question -------------------------------
(***************************************************************************)
(* What a question asks for: its intent and its dates, the capability the  *)
(* keyword rules choose, and the plan.                                     *)
(*                                                                         *)
(* A question is a sequence of words, each standing for the words no rule  *)
(* tells apart from it ("flood" for every flood word, "radar" for          *)
(* "Sentinel-1" too, "other" for what no rule looks for).  A phrase that a *)
(* rule looks for is one word, beside those of its words that other rules  *)
(* look for.  With them come the dates found, which are not among the      *)
(* words; the years stated apart from the dates, each a word "year"; if    *)
(* "since" or "before" precedes the first date; and if a place was found.  *)
(***************************************************************************)
EXTENDS ExecutionPlan, SequencesExt, FiniteSetsExt

NoYear == 0
NoDate == 0

Has(words, of) == ToSet(words) \cap of # {}
HasPhrase(words, a, b) ==
  \E i \in 1 .. Len(words) - 1 : words[i] \in a /\ words[i + 1] \in b
Starts(words, of) == words # <<>> /\ Head(words) \in of

-----------------------------------------------------------------------------
(* The predicates the planner's keyword rules share with the parse.        *)

SarWords == {"sar", "radar"}
OpticalWords == {"optical", "sentinel 2"}
Joint == {"and", "both", "compare", "versus", "use"}

\* "Cross modal" and "multi sensor" need no sensor named.
OpticalSarIntent(w) ==
  \/ Has(w, {"cross modal"})
  \/ /\ Has(w, SarWords) /\ Has(w, OpticalWords)
     /\ \/ Has(w, Joint)
        \/ HasPhrase(w, {"sar"}, {"optical"}) \/ HasPhrase(w, {"optical"}, {"sar"})

\* "Since" and an ISO date of 19xx or 20xx right after it is one word: the
\* date begins with its year.
Since == {"since", "since iso"}
TemporalVerbs == {"change", "increase"}
TemporalCues == Since \cup {"has", "did", "where", "between", "from"}

\* The numbers of four digits, among the words and in the dates.
FourDigits(q) ==
  Cardinality({i \in DOMAIN q.words : q.words[i] \in {"year", "number"}})
  + Cardinality({i \in DOMAIN q.dates : q.dates[i].year # NoYear})

ChangeIntent(q) ==
  \/ Has(q.words, {"over time"}) \/ HasPhrase(q.words, {"what"}, {"change"})
  \/ Has(q.words, TemporalVerbs) /\ Has(q.words, TemporalCues)
  \/ {"from", "to"} \subseteq ToSet(q.words) /\ FourDigits(q) >= 2

GroundingIntent(w) == \/ HasPhrase(w, {"where"}, {"is"}) \/ Has(w, {"locate"})
                      \/ Starts(w, {"mark"})

-----------------------------------------------------------------------------
(* The parse's own predicates.                                             *)

YesNoStarters == {"is", "was", "has", "did", "could", "can you"}

Flood(w) == Has(w, {"flood"})
InHand(w) == HasPhrase(w, {"this"}, {"image", "area"})
AsksWhichArea(w) == Has(w, {"which", "what"}) /\ Has(w, {"area"})
Comparison(w) == \/ Has(w, {"compare", "versus", "reduced", "since iso"})
                 \/ HasPhrase(w, {"since"}, {"year"})

Temporal(q) ==
  q.dates # <<>> \/ ChangeIntent(q) \/ Has(q.words, Since \cup {"between", "still"})

FloodEvent(q) ==
  /\ Flood(q.words) /\ ~InHand(q.words)
  /\ \/ q.place \/ Has(q.words, {"year"}) \/ Starts(q.words, {"did"})
     \/ Temporal(q) \/ Comparison(q.words) \/ AsksWhichArea(q.words)

NamesBothSensors(w) == Has(w, SarWords) /\ Has(w, OpticalWords)

JoinsSensors(w) ==
  /\ NamesBothSensors(w)
  /\ \/ Has(w, {"both", "fuse"})
     \/ \E i \in 2 .. Len(w) - 1 :
          /\ w[i] \in {"and", "with", "versus"}
          /\ \/ w[i - 1] \in SarWords /\ w[i + 1] \in OpticalWords
             \/ w[i - 1] \in OpticalWords /\ w[i + 1] \in SarWords

\* The verb and its objects, without "please" or "can you" before them.
Request(w) == IF Starts(w, {"please", "can you"}) THEN Tail(w) ELSE w

ImperativeLocate(w) ==
  \/ Has(w, {"bounding box"}) /\ ~Starts(w, YesNoStarters)
  \/ LET r == Request(w) IN
     \/ Starts(r, {"identify"}) /\ \E i \in 2 .. Len(r) : i <= 3 /\ r[i] = "each"
     \/ Starts(r, {"show", "mark", "locate"}) /\ \E i \in 2 .. Len(r) : r[i] # "me"

Describe(w) == \/ Starts(w, YesNoStarters \cup {"describe"})
               \/ Starts(w, {"what"}) /\ Starts(Tail(w), {"is", "was"})

\* The first of the rules whose condition holds.
FirstOf(rules) ==
  rules[CHOOSE i \in DOMAIN rules : rules[i][1] /\ \A j \in 1 .. i - 1 : ~rules[j][1]][2]

\* Mutant: space is asked before time.
MutRules(q) ==
  << <<JoinsSensors(q.words), "optical_sar">>,
     <<FloodEvent(q) /\ q.dates # <<>>, "flood_change">>,
     <<OpticalSarIntent(q.words) \/ NamesBothSensors(q.words), "optical_sar">>,
     <<FloodEvent(q), "flood_change">>,
     <<GroundingIntent(q.words) \/ ImperativeLocate(q.words), "locate">>,
     <<ChangeIntent(q) \/ Len(q.dates) >= 2 \/ Comparison(q.words), "change">>,
     <<Describe(q.words), "describe">>,
     <<TRUE, "unknown">> >>

\* Joined sensors, dated floods, two sensors, other floods, time, space.
Rules(q) ==
  << <<JoinsSensors(q.words), "optical_sar">>,
     <<FloodEvent(q) /\ q.dates # <<>>, "flood_change">>,
     <<OpticalSarIntent(q.words) \/ NamesBothSensors(q.words), "optical_sar">>,
     <<FloodEvent(q), "flood_change">>,
     <<ChangeIntent(q) \/ Len(q.dates) >= 2 \/ Comparison(q.words), "change">>,
     <<GroundingIntent(q.words) \/ ImperativeLocate(q.words), "locate">>,
     <<Describe(q.words), "describe">>,
     <<TRUE, "unknown">> >>

Intent(q) == FirstOf(Rules(q))

-----------------------------------------------------------------------------
(* The dates: a day, in a year or in none.  A day is its number in a leap  *)
(* year; 0 stands for one that no month has, and for any day of year 0.    *)

\* The years the rules see: 19xx and 20xx, with a date or apart.  A date may
\* have any year; one of another century is not among them.
YearsSeen == 1900 .. 2099
Years(q) == ({d.year : d \in ToSet(q.dates)} \cup q.years) \cap YearsSeen

\* 29 February is a day of leap years only.
LeapDay == 60
Leap(year) == year % 4 = 0 /\ (year % 100 = 0 => year % 400 = 0)
HasDay(year, day) == day # 0 /\ (day = LeapDay => Leap(year))

\* Days of different years are apart.
DateOf(year, day) == 400 * year + day

\* A date without a year takes the only year seen in the question, or none.
Resolve(d, years) ==
  LET year == IF d.year # NoYear THEN d.year
              ELSE IF Cardinality(years) = 1 THEN Max(years) ELSE NoYear
  IN IF year # NoYear /\ HasDay(year, d.day) THEN DateOf(year, d.day) ELSE NoDate

YearMissing(q) ==
  \E d \in ToSet(q.dates) : d.year = NoYear /\ Cardinality(Years(q)) # 1

\* Before and after: the earliest and the latest of two or more, all known.
Dates(q) ==
  LET values == {Resolve(d, Years(q)) : d \in ToSet(q.dates)}
  IN IF values = {} \/ NoDate \in values THEN <<NoDate, NoDate>>
     ELSE IF Cardinality(values) > 1 THEN <<Min(values), Max(values)>>
     ELSE IF q.since THEN <<Max(values), NoDate>>
     ELSE <<NoDate, Max(values)>>

Missing(intent, dates, q) ==
  LET needs == intent = "flood_change"
  IN {f \in {"place", "before_date", "after_date", "year"} :
        \/ f = "place" /\ needs /\ ~q.place
        \/ f = "before_date" /\ needs /\ dates[1] = NoDate
        \/ f = "after_date" /\ needs /\ dates[2] = NoDate
        \/ f = "year" /\ YearMissing(q)}

\* parse_question.
Parse(q) ==
  LET intent == Intent(q)
      dates == Dates(q)
  IN [intent |-> intent, dates |-> dates, missing |-> Missing(intent, dates, q)]

-----------------------------------------------------------------------------
(* The planner.                                                            *)

CapabilityOf == [flood_change |-> "change_vqa", change |-> "change_vqa",
                 locate |-> "grounding", describe |-> "single_image_vqa",
                 optical_sar |-> "optical_sar"]

Combined == "temporal_change_then_grounding"

CombinedIntent(w) == Has(w, TemporalVerbs) /\ (Has(w, {"where"}) \/ GroundingIntent(w))

\* The capability and the rule the keywords choose.
KeywordSelection(q) ==
  LET to(capability, rule) == [capability |-> capability, rule |-> rule]
  IN FirstOf(<< <<OpticalSarIntent(q.words), to("optical_sar", "optical_sar_cross_modal")>>,
                <<CombinedIntent(q.words), to("change_vqa", Combined)>>,
                <<ChangeIntent(q), to("change_vqa", "change_temporal_compare")>>,
                <<GroundingIntent(q.words), to("grounding", "grounding_spatial_localization")>>,
                <<TRUE, to("single_image_vqa", "default_single_image_vqa")>> >>)

\* The parse routes when it picks another capability; a combined request
\* gives way only to a flood over a pair of SAR scenes.
Overrides(intent, keyword, sarPair) ==
  IF keyword.rule = Combined THEN intent = "flood_change" /\ sarPair
  ELSE intent # "unknown" /\ CapabilityOf[intent] # keyword.capability

ParsedSelection(intent, keyword, sarPair) ==
  IF Overrides(intent, keyword, sarPair)
  THEN [capability |-> CapabilityOf[intent], rule |-> "parsed"] ELSE keyword

\* A second scene that is blank is none.
SceneIds(r) == IF r.second = "scene" THEN 2 ELSE 1

\* An explicit capability wins; one nobody knows is refused.
Selection(r, intent) ==
  IF r.requested # "none" THEN [capability |-> r.requested, rule |-> "explicit"]
  ELSE ParsedSelection(intent, KeywordSelection(r.question),
                       SceneIds(r) = 2 /\ r.sar)

Refused(r) == r.question.words = <<>>
              \/ r.requested \notin Capabilities \cup {"none"}

ScenesNeeded(capability) == IF capability \in PairCapabilities THEN 2 ELSE 1

Plan(r, ready) ==
  LET parsed == Parse(r.question)
      s == Selection(r, parsed.intent)
      missing == SceneIds(r) < ScenesNeeded(s.capability)
      unavailable == \/ ~ready
                     \/ s.rule = Combined
                     \/ s.capability = "single_image_vqa" /\ r.sar
  IN [capability |-> s.capability, rule |-> s.rule, missing |-> missing,
      executable |-> ~unavailable /\ ~missing,
      steps |-> PlanSteps(Chain(s.capability, s.rule = Combined)),
      dates |-> parsed.dates, lacks |-> parsed.missing]
=============================================================================
