----------------------- MODULE CapacityDriversProofs -----------------------
(***************************************************************************)
(* For every listing, loop bound, bench of faults and number of repeated   *)
(* drivers: what others committed survives, a history carries at most one  *)
(* send, a batch goes forward only, and a driver that ended in "delivered" *)
(* has left the proof of it: HistoryInvariant.  For every capacity and     *)
(* size of objects, the counter of a process's cache is the sum of what    *)
(* the cache holds, and that is what git would answer: CacheIsFresh.       *)
(***************************************************************************)
EXTENDS CapacityDrivers, FiniteSetTheorems, SequenceTheorems, TLAPS

Commits == [tree : Tree, at : Nat]
Batches == {"none", "pending", "uncertain", "confirmed"}

-----------------------------------------------------------------------------
(* Reports and their order. *)

\* The rank tells the four states of a batch apart.
LEMMA RankValues ==
    ASSUME NEW b \in Batches
    PROVE  /\ Rank[b] \in 0..3
           /\ Rank[b] = 0 <=> b = "none"
           /\ Rank[b] = 1 <=> b = "pending"
           /\ Rank[b] = 2 <=> b = "uncertain"
           /\ Rank[b] = 3 <=> b = "confirmed"
<1>1. CASE b = "none"
  BY <1>1 DEF Rank
<1>2. CASE b = "pending"
  BY <1>2 DEF Rank
<1>3. CASE b = "uncertain"
  BY <1>3 DEF Rank
<1>4. CASE b = "confirmed"
  BY <1>4 DEF Rank
<1>5. QED
  BY <1>1, <1>2, <1>3, <1>4 DEF Batches

\* The fields of a report that are compared.
LEMMA ReportFields ==
    ASSUME NEW r \in Report
    PROVE  r.batch \in Batches /\ r.auth \in Nat /\ Rank[r.batch] \in 0..3
<1>1. r.batch \in Batches /\ r.auth \in Nat
  BY DEF Report, Batches
<1>2. QED
  BY <1>1, RankValues

\* A report may stay as it is.
LEMMA ForwardReflexive ==
    ASSUME NEW r \in Report
    PROVE  Forward(r, r)
<1>1. r = [r EXCEPT !.batch = r.batch, !.auth = r.auth]
  BY DEF Report
<1>2. QED
  BY <1>1, ReportFields DEF Forward

\* Steps forward add up.
LEMMA ForwardTransitive ==
    ASSUME NEW a \in Report, NEW b \in Report, NEW c \in Report,
           Forward(a, b), Forward(b, c)
    PROVE  Forward(a, c)
<1>1. /\ Rank[a.batch] \in 0..3 /\ Rank[b.batch] \in 0..3 /\ Rank[c.batch] \in 0..3
      /\ a.auth \in Nat /\ b.auth \in Nat /\ c.auth \in Nat
  BY ReportFields
<1>2. Rank[a.batch] <= Rank[c.batch] /\ a.auth <= c.auth
  <2>1. Rank[a.batch] <= Rank[b.batch] /\ Rank[b.batch] <= Rank[c.batch]
    BY DEF Forward
  <2>2. a.auth <= b.auth /\ b.auth <= c.auth
    BY DEF Forward
  <2>3. QED
    BY <1>1, <2>1, <2>2
<1>3. ASSUME a.batch # "none"
      PROVE  c = [a EXCEPT !.batch = c.batch, !.auth = c.auth]
  <2>1. b.batch # "none"
    <3>1. Rank[a.batch] <= Rank[b.batch]
      BY DEF Forward
    <3>2. QED
      BY <1>1, <1>3, <3>1, RankValues, ReportFields
  <2>2. b = [a EXCEPT !.batch = b.batch, !.auth = b.auth]
    BY <1>3 DEF Forward
  <2>3. c = [b EXCEPT !.batch = c.batch, !.auth = c.auth]
    BY <2>1 DEF Forward
  <2>4. QED
    BY <2>2, <2>3 DEF Report
<1>4. QED
  BY <1>2, <1>3 DEF Forward

-----------------------------------------------------------------------------
(* Histories. *)

\* The last commit of a history, and the reports of its trees.
LEMMA HistoryShape ==
    ASSUME NEW h \in Seq(Commits), h # <<>>
    PROVE  /\ Len(h) \in Nat \ {0} /\ DOMAIN h = 1..Len(h)
           /\ Last(h) = h[Len(h)] /\ Len(h) \in DOMAIN h
           /\ \A i \in DOMAIN h : /\ h[i] \in Commits
                                  /\ h[i].at \in Nat /\ h[i].tree \in Tree
                                  /\ h[i].tree["report"] \in Report
<1>1. Len(h) \in Nat \ {0} /\ DOMAIN h = 1..Len(h)
  OBVIOUS
<1>2. Last(h) = h[Len(h)] /\ Len(h) \in DOMAIN h
  BY <1>1 DEF Last
<1>3. ASSUME NEW i \in DOMAIN h
      PROVE  h[i] \in Commits /\ h[i].at \in Nat /\ h[i].tree \in Tree
  <2>1. h[i] \in Commits
    BY <1>1
  <2>2. QED
    BY <2>1 DEF Commits
<1>4. ASSUME NEW i \in DOMAIN h
      PROVE  h[i].tree["report"] \in Report
  BY <1>3 DEF Tree
<1>5. QED
  BY <1>1, <1>2, <1>3, <1>4

\* Sound with the shape of its history.
LEMMA SoundShape ==
    ASSUME NEW h, NEW now, NEW others, NEW sent, Sound(h, now, others, sent)
    PROVE  /\ h \in Seq(Commits) /\ h # <<>>
           /\ Len(h) \in Nat \ {0} /\ DOMAIN h = 1..Len(h)
           /\ Last(h) = h[Len(h)] /\ Len(h) \in DOMAIN h
           /\ \A i \in DOMAIN h : /\ h[i] \in Commits
                                  /\ h[i].at \in Nat /\ h[i].tree \in Tree
                                  /\ h[i].tree["report"] \in Report
           /\ Last(h).tree["report"] \in Report
<1>1. h \in Seq(Commits) /\ h # <<>>
  BY DEF Sound, Commits
<1>2. QED
  BY <1>1, HistoryShape

\* A history stays sound while time goes on and others commit elsewhere, or
\* fewer of their commits count.
LEMMA LaterIsSound ==
    ASSUME NEW h, NEW now \in Nat, NEW others, NEW sent, Sound(h, now, others, sent),
           NEW later \in Nat, later >= now, NEW more,
           \A t \in more : t \in others \/ t = now
    PROVE  Sound(h, later, more, sent)
<1>1. \A i \in DOMAIN h : h[i].at \in Nat
  BY SoundShape
<1>2. \A i \in DOMAIN h : h[i].at < later /\ (h[i].at \in more => h[i].at \in others)
  BY <1>1 DEF Sound
<1>3. QED
  BY <1>2 DEF Sound

\* A send on a commit that announces it.
LEMMA SendIsSound ==
    ASSUME NEW h, NEW now, NEW others, NEW sent, Sound(h, now, others, sent), NEW t,
           \A i \in DOMAIN h : h[i].at = t => Announced(h, i)
    PROVE  Sound(h, now, others, sent \cup {t})
  BY DEF Sound

\* A prefix of a sound history is one.
LEMMA PrefixIsSound ==
    ASSUME NEW h, NEW now, NEW others, NEW sent, Sound(h, now, others, sent),
           NEW n \in DOMAIN h
    PROVE  /\ Sound(SubSeq(h, 1, n), now, others, sent)
           /\ Last(SubSeq(h, 1, n)) = h[n]
           /\ Times(SubSeq(h, 1, n)) \subseteq Times(h)
<1> DEFINE p == SubSeq(h, 1, n)
<1>1. h \in Seq(Commits) /\ Len(h) \in Nat /\ DOMAIN h = 1..Len(h)
  BY SoundShape
<1>2. p \in Seq(Commits) /\ Len(p) = n /\ DOMAIN p = 1..n /\ \A i \in 1..n : p[i] = h[i]
  <2>1. \A i \in 1..n : h[i] \in Commits
    BY <1>1
  <2>2. n \in Nat /\ 1 <= n /\ n <= Len(h)
    BY <1>1
  <2>3. QED
    BY <1>1, <2>1, <2>2
<1>3. p # <<>> /\ Last(p) = h[n] /\ DOMAIN p \subseteq DOMAIN h
  BY <1>1, <1>2 DEF Last
<1>4. ASSUME NEW i \in DOMAIN p
      PROVE  /\ p[i] = h[i] /\ i \in DOMAIN h
             /\ Announced(h, i) => Announced(p, i)
  <2>1. i > 1 => i - 1 \in 1..n
    BY <1>1, <1>2
  <2>2. p[i] = h[i] /\ i \in DOMAIN h
    BY <1>2, <1>3
  <2>3. QED
    BY <1>2, <2>1, <2>2 DEF Announced
<1>5. Sound(p, now, others, sent)
  <2>1. \A i \in DOMAIN p :
          /\ p[i].at < now
          /\ p[i].tree["report"].auth < i
          /\ Prepared(p[i].tree["report"])
          /\ p[i].at \in others => p[i].tree["race"] = RaceFile
          /\ p[i].at \in sent => Announced(p, i)
    BY <1>4 DEF Sound
  <2>2. \A i, j \in DOMAIN p : i < j =>
          /\ p[i].at < p[j].at
          /\ Forward(p[i].tree["report"], p[j].tree["report"])
          /\ p[i].tree["race"] = RaceFile => p[j].tree["race"] = RaceFile
    BY <1>4 DEF Sound
  <2>3. QED
    BY <1>2, <1>3, <2>1, <2>2 DEF Sound, Commits
<1>6. Times(p) \subseteq Times(h)
  BY <1>4 DEF Times
<1>7. QED
  BY <1>3, <1>5, <1>6

\* Every ancestor's commits are in the history.
LEMMA AncestorTimes ==
    ASSUME NEW b \in Seq(Commits), NEW h \in Seq(Commits), IsAncestor(b, h)
    PROVE  Times(b) \subseteq Times(h)
<1>1. \A i \in DOMAIN b : i \in DOMAIN h /\ b[i] = h[i]
  BY DEF IsAncestor
<1>2. QED
  BY <1>1 DEF Times

\* The ends of a history with a new commit.
LEMMA AppendShape ==
    ASSUME NEW h \in Seq(Commits), h # <<>>, NEW c \in Commits
    PROVE  /\ Len(Append(h, c)) = Len(h) + 1
           /\ Append(h, c)[Len(h) + 1] = c /\ Append(h, c)[Len(h)] = Last(h)
<1>1. Len(h) \in 1..Len(h) /\ Last(h) = h[Len(h)]
  BY HistoryShape
<1>2. QED
  BY <1>1

\* A new commit on a sound history.
LEMMA AppendIsSound ==
    ASSUME NEW h, NEW now \in Nat, NEW others, NEW sent, Sound(h, now, others, sent),
           NEW c \in Commits, c.at = now, now \notin sent,
           c.tree["report"].auth <= Len(h), Prepared(c.tree["report"]),
           Forward(Last(h).tree["report"], c.tree["report"]),
           Last(h).tree["race"] = RaceFile => c.tree["race"] = RaceFile,
           NEW more, \A t \in more : t \in others \/ t = now,
           now \in more => c.tree["race"] = RaceFile
    PROVE  /\ Sound(Append(h, c), now + 1, more, sent)
           /\ Last(Append(h, c)) = c
           /\ Times(Append(h, c)) = Times(h) \cup {now}
<1> DEFINE g == Append(h, c)
           n == Len(h)
<1>1. /\ h \in Seq(Commits) /\ n \in Nat \ {0} /\ DOMAIN h = 1..n
      /\ Last(h) = h[n]
      /\ \A i \in DOMAIN h : h[i].at \in Nat /\ h[i].tree["report"] \in Report
  BY SoundShape
<1>2. /\ g \in Seq(Commits) /\ g # <<>> /\ Len(g) = n + 1 /\ DOMAIN g = 1..(n + 1)
      /\ g[n + 1] = c /\ \A i \in 1..n : g[i] = h[i]
  BY <1>1
<1>3. c.tree["report"] \in Report /\ c.tree["report"].auth \in Nat
  <2>1. c.tree["report"] \in Report
    BY DEF Commits, Tree
  <2>2. QED
    BY <2>1, ReportFields
<1>4. ASSUME NEW i \in DOMAIN g
      PROVE  /\ g[i].at < now + 1
             /\ g[i].tree["report"].auth < i
             /\ Prepared(g[i].tree["report"])
             /\ g[i].at \in more => g[i].tree["race"] = RaceFile
             /\ g[i].at \in sent => Announced(g, i)
  <2>1. CASE i = n + 1
    <3>1. g[i] = c /\ c.tree["report"].auth < i
      BY <1>1, <1>2, <1>3, <2>1
    <3>2. QED
      BY <3>1
  <2>2. CASE i \in 1..n
    <3>1. i \in DOMAIN h /\ g[i] = h[i] /\ h[i].at \in Nat /\ h[i].at < now
      BY <1>1, <1>2, <2>2 DEF Sound
    <3>2. g[i].at < now + 1 /\ (g[i].at \in more => g[i].at \in others)
      BY <3>1
    <3>3. Announced(h, i) => Announced(g, i)
      <4>1. i > 1 => i - 1 \in 1..n
        BY <1>1, <2>2
      <4>2. QED
        BY <1>2, <3>1, <4>1 DEF Announced
    <3>4. QED
      BY <3>1, <3>2, <3>3 DEF Sound
  <2>3. QED
    BY <1>1, <1>2, <2>1, <2>2
<1>5. ASSUME NEW i \in DOMAIN g, NEW j \in DOMAIN g, i < j
      PROVE  /\ g[i].at < g[j].at
             /\ Forward(g[i].tree["report"], g[j].tree["report"])
             /\ g[i].tree["race"] = RaceFile => g[j].tree["race"] = RaceFile
  <2>1. i \in 1..n /\ i \in DOMAIN h /\ g[i] = h[i]
    BY <1>1, <1>2, <1>5
  <2>2. CASE j \in 1..n
    BY <1>1, <1>2, <1>5, <2>1, <2>2 DEF Sound
  <2>3. CASE j = n + 1
    <3>1. g[j] = c /\ h[i].at < now
      BY <1>2, <2>1, <2>3 DEF Sound
    <3>2. CASE i = n
      BY <1>1, <2>1, <3>1, <3>2
    <3>3. CASE i < n
      <4>1. /\ n \in DOMAIN h
            /\ Forward(h[i].tree["report"], h[n].tree["report"])
            /\ h[i].tree["race"] = RaceFile => h[n].tree["race"] = RaceFile
        BY <1>1, <2>1, <3>3 DEF Sound
      <4>2. Forward(h[i].tree["report"], c.tree["report"])
        BY <1>1, <1>3, <2>1, <4>1, ForwardTransitive
      <4>3. QED
        BY <1>1, <2>1, <3>1, <4>1, <4>2
    <3>4. QED
      BY <1>1, <2>1, <3>2, <3>3
  <2>4. QED
    BY <1>1, <1>2, <2>2, <2>3
<1>6. Sound(g, now + 1, more, sent)
  BY <1>2, <1>4, <1>5 DEF Sound, Commits
<1>7. Last(g) = c
  BY <1>1, <1>2 DEF Last
<1>8. Times(g) = Times(h) \cup {now}
  BY <1>1, <1>2 DEF Times
<1>9. QED
  BY <1>6, <1>7, <1>8

-----------------------------------------------------------------------------
(* The drivers. *)

\* What tells the eight drivers apart.
LEMMA DriverKinds ==
    ASSUME NEW t \in DOMAIN Chain
    PROVE  /\ t \in 1..8 /\ Chain[t] \in DOMAIN Scenario /\ Bound[Chain[t]] \in Nat \ {0}
           /\ Chain[t] = "resume" <=> t = 1
           /\ Chain[t] = "reader" <=> t = 2
           /\ Chain[t] = "single" <=> t = 7
           /\ "git" \in Scenario[Chain[t]].keeps <=> t # 2
           /\ Scenario[Chain[t]].cached => t > 4
           /\ t > 4 => "receipt" \in Scenario[Chain[t]].keeps
           /\ Scenario[Chain[t]].ends = {"delivered"} => t > 2
           /\ Scenario[Chain[t]].keeps \subseteq {"git", "report", "receipt"}
<1>1. t \in 1..8
  BY DEF Chain
<1>2. DOMAIN Scenario = {"resume", "reader", "public", "measurement", "compare", "corrected",
                         "single", "quiet"}
  BY DEF Scenario
<1>3. CASE t = 1
  <2>1. Chain[t] = "resume" /\ Scenario["resume"] = FullPrefixResume
    BY <1>3 DEF Chain, Scenario
  <2>2. /\ "git" \in FullPrefixResume.keeps
        /\ FullPrefixResume.cached = FALSE /\ FullPrefixResume.ends # {"delivered"}
        /\ FullPrefixResume.keeps \subseteq {"git", "report", "receipt"}
    BY DEF FullPrefixResume
  <2>3. QED
    BY <1>3, <1>2, <2>1, <2>2, DriversAssumption
<1>4. CASE t = 2
  <2>1. Chain[t] = "reader" /\ Scenario["reader"] = MeasurementReader
    BY <1>4 DEF Chain, Scenario
  <2>2. /\ "git" \notin MeasurementReader.keeps
        /\ MeasurementReader.cached = FALSE /\ MeasurementReader.ends # {"delivered"}
        /\ MeasurementReader.keeps \subseteq {"git", "report", "receipt"}
    BY DEF MeasurementReader
  <2>3. QED
    BY <1>4, <1>2, <2>1, <2>2, DriversAssumption
<1>5. CASE t = 3
  <2>1. Chain[t] = "public" /\ Scenario["public"] = PublicTail
    BY <1>5 DEF Chain, Scenario
  <2>2. /\ "git" \in PublicTail.keeps
        /\ PublicTail.cached = FALSE
        /\ PublicTail.keeps \subseteq {"git", "report", "receipt"}
    BY DEF PublicTail
  <2>3. QED
    BY <1>5, <1>2, <2>1, <2>2, DriversAssumption
<1>6. CASE t = 4
  <2>1. Chain[t] = "measurement" /\ Scenario["measurement"] = FinalMeasurement
    BY <1>6 DEF Chain, Scenario
  <2>2. /\ "git" \in FinalMeasurement.keeps
        /\ FinalMeasurement.cached = FALSE
        /\ FinalMeasurement.keeps \subseteq {"git", "report", "receipt"}
    BY DEF FinalMeasurement
  <2>3. QED
    BY <1>6, <1>2, <2>1, <2>2, DriversAssumption
<1>7. CASE t = 5
  <2>1. Chain[t] = "compare" /\ Scenario["compare"] = CompareCache
    BY <1>7 DEF Chain, Scenario
  <2>2. /\ "git" \in CompareCache.keeps
        /\ "receipt" \in CompareCache.keeps
        /\ CompareCache.keeps \subseteq {"git", "report", "receipt"}
    BY DEF CompareCache
  <2>3. QED
    BY <1>7, <1>2, <2>1, <2>2, DriversAssumption
<1>8. CASE t = 6
  <2>1. Chain[t] = "corrected" /\ Scenario["corrected"] = MetadataCorrected
    BY <1>8 DEF Chain, Scenario
  <2>2. /\ "git" \in MetadataCorrected.keeps
        /\ "receipt" \in MetadataCorrected.keeps
        /\ MetadataCorrected.keeps \subseteq {"git", "report", "receipt"}
    BY DEF MetadataCorrected
  <2>3. QED
    BY <1>8, <1>2, <2>1, <2>2, DriversAssumption
<1>9. CASE t = 7
  <2>1. Chain[t] = "single" /\ Scenario["single"] = SingleFinalTail
    BY <1>9 DEF Chain, Scenario
  <2>2. /\ "git" \in SingleFinalTail.keeps
        /\ "receipt" \in SingleFinalTail.keeps
        /\ SingleFinalTail.keeps \subseteq {"git", "report", "receipt"}
    BY DEF SingleFinalTail
  <2>3. QED
    BY <1>9, <1>2, <2>1, <2>2, DriversAssumption
<1>10. CASE t = 8
  <2>1. Chain[t] = "quiet" /\ Scenario["quiet"] = Quiet
    BY <1>10 DEF Chain, Scenario
  <2>2. /\ "git" \in Quiet.keeps
        /\ "receipt" \in Quiet.keeps
        /\ Quiet.keeps \subseteq {"git", "report", "receipt"}
    BY DEF Quiet
  <2>3. QED
    BY <1>10, <1>2, <2>1, <2>2, DriversAssumption
<1>11. QED
  BY <1>1, <1>3, <1>4, <1>5, <1>6, <1>7, <1>8, <1>9, <1>10

\* Each driver's listing is one of the two.
LEMMA Listings ==
    ASSUME NEW d \in DOMAIN Scenario
    PROVE  Scenario[d].listing \in {"workflow sha", "pr head"}
<1>1. Scenario["resume"].listing \in {"workflow sha", "pr head"}
  <2>1. Scenario["resume"] = FullPrefixResume
    BY DEF Scenario
  <2>2. FullPrefixResume.listing \in {"workflow sha", "pr head"}
    BY DEF FullPrefixResume
  <2>3. QED
    BY <2>1, <2>2
<1>2. Scenario["reader"].listing \in {"workflow sha", "pr head"}
  <2>1. Scenario["reader"] = MeasurementReader
    BY DEF Scenario
  <2>2. MeasurementReader.listing \in {"workflow sha", "pr head"}
    BY DEF MeasurementReader
  <2>3. QED
    BY <2>1, <2>2
<1>3. Scenario["public"].listing \in {"workflow sha", "pr head"}
  <2>1. Scenario["public"] = PublicTail
    BY DEF Scenario
  <2>2. PublicTail.listing \in {"workflow sha", "pr head"}
    BY DEF PublicTail
  <2>3. QED
    BY <2>1, <2>2
<1>4. Scenario["measurement"].listing \in {"workflow sha", "pr head"}
  <2>1. Scenario["measurement"] = FinalMeasurement
    BY DEF Scenario
  <2>2. FinalMeasurement.listing \in {"workflow sha", "pr head"}
    BY DEF FinalMeasurement
  <2>3. QED
    BY <2>1, <2>2
<1>5. Scenario["compare"].listing \in {"workflow sha", "pr head"}
  <2>1. Scenario["compare"] = CompareCache
    BY DEF Scenario
  <2>2. CompareCache.listing \in {"workflow sha", "pr head"}
    BY DEF CompareCache
  <2>3. QED
    BY <2>1, <2>2
<1>6. Scenario["corrected"].listing \in {"workflow sha", "pr head"}
  <2>1. Scenario["corrected"] = MetadataCorrected
    BY DEF Scenario
  <2>2. MetadataCorrected.listing \in {"workflow sha", "pr head"}
    BY DEF MetadataCorrected
  <2>3. QED
    BY <2>1, <2>2
<1>7. Scenario["single"].listing \in {"workflow sha", "pr head"}
  <2>1. Scenario["single"] = SingleFinalTail
    BY DEF Scenario
  <2>2. SingleFinalTail.listing \in {"workflow sha", "pr head"}
    BY DEF SingleFinalTail
  <2>3. QED
    BY <2>1, <2>2
<1>8. Scenario["quiet"].listing \in {"workflow sha", "pr head"}
  <2>1. Scenario["quiet"] = Quiet
    BY DEF Scenario
  <2>2. Quiet.listing \in {"workflow sha", "pr head"}
    BY DEF Quiet
  <2>3. QED
    BY <2>1, <2>2
<1>9. DOMAIN Scenario = {"resume", "reader", "public", "measurement", "compare", "corrected",
                         "single", "quiet"}
  BY DEF Scenario
<1>10. QED
  BY <1>1, <1>2, <1>3, <1>4, <1>5, <1>6, <1>7, <1>8, <1>9

LEMMA InitInvariant == Init => HistoryInvariant
<1> SUFFICES ASSUME Init PROVE HistoryInvariant
  OBVIOUS
<1> DEFINE c == Captured[1]
<1>1. c \in Commits /\ c.at = 0 /\ c.tree["report"].batch = "none" /\ c.tree["report"].auth = 0
  BY FixtureAssumption, DriversAssumption DEF Captured, Commits, Tree, Report
<1>2. /\ Captured = <<c>> /\ Captured \in Seq(Commits) /\ Captured # <<>>
      /\ DOMAIN Captured = {1} /\ Last(Captured) = c /\ Len(Captured) = 1
  BY <1>1 DEF Captured, Last
<1>3. Sent = {}
  BY DEF Init, Sent
<1>4. Sound(Captured, 1, {}, {})
  <2>1. \A i \in DOMAIN Captured : i = 1 /\ Captured[i] = c
    BY <1>2
  <2>2. Prepared(c.tree["report"])
    BY <1>1 DEF Prepared
  <2>3. QED
    BY <1>1, <1>2, <2>1, <2>2 DEF Sound, Commits
<1>5. TypeOK
  <2>1. 1 \in DOMAIN Chain
    BY DEF Chain
  <2>2. 0 \in 0..Bound[Chain[1]]
    BY <2>1, DriverKinds
  <2>3. 0 \in 0..MaxFaults /\ 0 \in 0..MaxRepeats
    BY DriversAssumption
  <2>4. QED
    BY <2>1, <2>2, <2>3 DEF Init, TypeOK, FixtureTypeOK, Switches, Off, NoResult
<1>6. Tip = Captured /\ ref = Captured /\ saved = Captured
  BY DEF Init, Tip
<1>7. HistoriesAreSound
  BY <1>3, <1>4, <1>6 DEF Init, HistoriesAreSound
<1>8. NothingIsLost
  BY <1>3 DEF Init, NothingIsLost
<1>9. EarlyDriversPrepareNothing
  BY <1>1, <1>2, <1>6 DEF EarlyDriversPrepareNothing, Batch
<1>10. ProcessIsCurrent /\ AnnouncementIsFresh /\ ReceiptIsOfASend /\ PassedIsDelivered
  BY DEF Init, ProcessIsCurrent, AnnouncementIsFresh, ReceiptIsOfASend, PassedIsDelivered
<1>11. ReaderWritesNothing
  BY DEF Init, ReaderWritesNothing
<1>12. QED
  BY <1>5, <1>7, <1>8, <1>9, <1>10, <1>11 DEF HistoryInvariant

-----------------------------------------------------------------------------
(* What the child's steps have in common. *)

\* A commit is posted: it becomes the tip of the process.
LEMMA PostKeepsInvariant ==
    ASSUME HistoryInvariant, NEW r, NEW next, NEW answer, Post(r, next, answer),
           pc \in {"plan", "confirm"}, Chain[turn] # "reader",
           files' \in {files, files \cup {"report"}},
           r \in Report, r.auth <= Len(loaded), Prepared(r), Forward(Loaded, r),
           turn <= 4 => r.batch = "none",
           next \in {"plan", "done", "send"},
           next = "send" => Loaded.batch = "pending" /\ r.batch = "uncertain",
           answer.status \in {"none", "incomplete", "staged", "delivered", "not-due"},
           answer.status = "delivered" <=> pc = "confirm",
           pc = "confirm" => r.batch = "confirmed" /\ next = "done"
    PROVE  HistoryInvariant'
<1> DEFINE c == [tree |-> PostTree(Last(ref).tree, "report", r), at |-> clock]
<1>1. loaded = ref /\ phase = "loop"
  BY DEF HistoryInvariant, ProcessIsCurrent
<1>2. /\ posted' = Append(ref, c) /\ clock' = clock + 1
      /\ pc' = "patch" /\ then' = next /\ result' = answer
      /\ UNCHANGED <<ref, foreign, switches, cache, loaded, reads, sends, faults>>
      /\ UNCHANGED <<turn, phase, before, index, outcome, saved, kept, repeats>>
  BY <1>1 DEF Post, PostCommit, driver
<1>3. Sent' = Sent /\ Tip' = Append(ref, c) /\ Tip = ref
  BY <1>2 DEF Sent, Tip
<1>4. clock \in Nat /\ Sound(ref, clock, foreign, Sent) /\ Sound(saved, clock, foreign, Sent)
  BY DEF HistoryInvariant, TypeOK, FixtureTypeOK, HistoriesAreSound
<1>5. /\ ref \in Seq(Commits) /\ ref # <<>> /\ Len(ref) \in Nat \ {0} /\ DOMAIN ref = 1..Len(ref)
      /\ Last(ref) = ref[Len(ref)] /\ Last(ref).tree \in Tree
  BY <1>4, SoundShape
<1>6. /\ c \in Commits /\ c.at = clock /\ c.tree["report"] = r
      /\ c.tree["race"] = Last(ref).tree["race"]
  <2>1. /\ PostTree(Last(ref).tree, "report", r) \in Tree
        /\ PostTree(Last(ref).tree, "report", r)["report"] = r
        /\ PostTree(Last(ref).tree, "report", r)["race"] = Last(ref).tree["race"]
    BY <1>5 DEF PostTree, Tree
  <2>2. QED
    BY <1>4, <2>1 DEF Commits
<1> HIDE DEF c
<1>7. \A t \in foreign \cup Sent : t < clock
  BY DEF HistoryInvariant, NothingIsLost
<1>8. clock \notin Sent /\ clock \notin foreign
  BY <1>4, <1>7
<1>9. Forward(Last(ref).tree["report"], r)
  BY <1>1 DEF Loaded
<1>10. /\ Sound(Append(ref, c), clock + 1, foreign, Sent)
       /\ Last(Append(ref, c)) = c
       /\ Times(Append(ref, c)) = Times(ref) \cup {clock}
  BY <1>1, <1>4, <1>6, <1>8, <1>9, AppendIsSound
<1>11. TypeOK'
  BY <1>2, <1>4 DEF HistoryInvariant, TypeOK, FixtureTypeOK
<1>12. HistoriesAreSound'
  <2>1. Sound(ref, clock + 1, foreign, Sent) /\ Sound(saved, clock + 1, foreign, Sent)
    BY <1>4, LaterIsSound
  <2>2. QED
    BY <1>2, <1>3, <1>10, <2>1 DEF HistoriesAreSound
<1>13. NothingIsLost'
  <2>1. \A t \in foreign \cup Sent : t < clock + 1
    <3>1. foreign \subseteq Nat /\ sends \in Seq(Nat)
      BY DEF HistoryInvariant, TypeOK, FixtureTypeOK
    <3>2. Sent \subseteq Nat
      BY <3>1 DEF Sent
    <3>3. \A t \in Nat : t < clock => t < clock + 1
      BY <1>4
    <3>4. QED
      BY <1>7, <3>1, <3>2, <3>3
  <2>2. QED
    BY <1>1, <1>2, <1>3, <2>1 DEF HistoryInvariant, NothingIsLost
<1>14. ProcessIsCurrent'
  BY <1>1, <1>2 DEF HistoryInvariant, ProcessIsCurrent
<1>15. ReaderWritesNothing'
  BY <1>2 DEF ReaderWritesNothing
<1>16. AnnouncementIsFresh'
  <2> SUFFICES ASSUME next = "send"
               PROVE  Announced(Append(ref, c), Len(Append(ref, c))) /\ clock \notin Sent \cup Times(saved)
    BY <1>2, <1>3, <1>6, <1>10 DEF AnnouncementIsFresh
  <2> DEFINE h == Append(ref, c)
             n == Len(ref)
  <2>1. Len(h) = n + 1 /\ h[n + 1] = c /\ h[n] = Last(ref)
    BY <1>5, <1>6, AppendShape
  <2>2. Announced(Append(ref, c), Len(Append(ref, c)))
    <3>1. Len(h) > 1 /\ Len(h) - 1 = n
      <4> HIDE DEF h
      <4>1. QED
        BY <1>5, <2>1
    <3>2. h[Len(h)].tree["report"].batch = "uncertain"
      BY <1>6, <2>1
    <3>3. h[Len(h) - 1].tree["report"].batch = "pending"
      BY <1>1, <2>1, <3>1 DEF Loaded
    <3>4. QED
      BY <3>1, <3>2, <3>3 DEF Announced
  <2>3. \A i \in DOMAIN saved : saved[i].at \in Nat /\ saved[i].at < clock
    BY <1>4, SoundShape DEF Sound
  <2>4. clock \notin Times(saved)
    BY <1>4, <2>3 DEF Times
  <2>5. QED
    BY <1>8, <2>2, <2>4
<1>17. ReceiptIsOfASend'
  <2>1. pc = "plan" => "receipt" \notin files
    BY <1>1 DEF HistoryInvariant, ReceiptIsOfASend
  <2>2. "receipt" \in files' <=> "receipt" \in files
    OBVIOUS
  <2>3. pc = "confirm" => "receipt" \in files /\ Last(ref).at \in Sent /\ Last(ref).at \in Times(ref)
    BY <1>5 DEF HistoryInvariant, ReceiptIsOfASend, Times
  <2>4. pc = "confirm" => Delivered(Tip)'
    BY <1>3, <1>6, <1>10, <2>3 DEF Delivered, Batch
  <2>5. QED
    BY <1>2, <2>1, <2>2, <2>3, <2>4 DEF ReceiptIsOfASend
<1>18. EarlyDriversPrepareNothing'
  BY <1>2, <1>3, <1>6, <1>10 DEF HistoryInvariant, EarlyDriversPrepareNothing, Batch
<1>19. PassedIsDelivered'
  BY <1>1, <1>2 DEF PassedIsDelivered
<1>20. QED
  BY <1>11, <1>12, <1>13, <1>14, <1>15, <1>16, <1>17, <1>18, <1>19 DEF HistoryInvariant

\* A process answers: nothing but its own state changes.
LEMMA AnswerKeepsInvariant ==
    ASSUME HistoryInvariant, NEW r, Answer(r), pc # "off",
           UNCHANGED <<ref, clock, foreign, switches, turn, phase, index, outcome, saved,
                       kept, repeats, sends>>,
           faults' \in 0..MaxFaults,
           files' \in {files, files \cup {"report"}},
           r.status \in {"error", "already-staged", "projected"},
           "receipt" \in files => r.status = "error"
    PROVE  HistoryInvariant'
<1>1. /\ pc' = "done" /\ result' = r /\ reads' = 0
      /\ UNCHANGED <<then, loaded, posted>>
  BY DEF Answer
<1>2. Sent' = Sent /\ Tip' = ref
  BY <1>1 DEF Sent, Tip
<1>3. TypeOK'
  BY <1>1 DEF HistoryInvariant, TypeOK, FixtureTypeOK
<1>4. HistoriesAreSound' /\ NothingIsLost'
  BY <1>2 DEF HistoryInvariant, HistoriesAreSound, NothingIsLost
<1>5. ProcessIsCurrent'
  BY <1>1 DEF HistoryInvariant, ProcessIsCurrent
<1>6. ReaderWritesNothing' /\ AnnouncementIsFresh'
  BY <1>1 DEF HistoryInvariant, ReaderWritesNothing, AnnouncementIsFresh
<1>7. ReceiptIsOfASend'
  BY <1>1 DEF HistoryInvariant, ReceiptIsOfASend
<1>8. EarlyDriversPrepareNothing'
  BY <1>2 DEF HistoryInvariant, EarlyDriversPrepareNothing
<1>9. PassedIsDelivered'
  BY <1>1, <1>2 DEF HistoryInvariant, ProcessIsCurrent, PassedIsDelivered
<1>10. QED
  BY <1>3, <1>4, <1>5, <1>6, <1>7, <1>8, <1>9 DEF HistoryInvariant

-----------------------------------------------------------------------------
(* The steps of the driver. *)

LEMMA SpawnKeepsInvariant == HistoryInvariant /\ Spawn => HistoryInvariant'
<1> SUFFICES ASSUME HistoryInvariant, Spawn PROVE HistoryInvariant'
  OBVIOUS
<1>1. /\ phase = "loop" /\ pc = "off" /\ pc' = "load" /\ then' = "plan"
      /\ index < Bound[Chain[turn]]
      /\ UNCHANGED <<ref, clock, foreign, turn, phase, before, index, outcome, saved, kept,
                     repeats, loaded, reads, posted, result, files, sends>>
  BY DEF Spawn, driver
<1>2. Sent' = Sent /\ Tip' = ref /\ Tip = ref
  BY <1>1 DEF Sent, Tip
<1>3. TypeOK'
  <2>1. switches' \in Switches
    BY DriversAssumption DEF Spawn
  <2>2. faults' \in 0..MaxFaults
    BY DriversAssumption DEF Spawn, HistoryInvariant, TypeOK
  <2>3. QED
    BY <1>1, <2>1, <2>2 DEF HistoryInvariant, TypeOK, FixtureTypeOK
<1>4. HistoriesAreSound' /\ NothingIsLost'
  BY <1>1, <1>2 DEF HistoryInvariant, HistoriesAreSound, NothingIsLost
<1>5. ProcessIsCurrent' /\ ReaderWritesNothing' /\ AnnouncementIsFresh'
  BY <1>1 DEF HistoryInvariant, ProcessIsCurrent, ReaderWritesNothing, AnnouncementIsFresh
<1>6. ReceiptIsOfASend'
  BY <1>1 DEF HistoryInvariant, ReceiptIsOfASend
<1>7. EarlyDriversPrepareNothing' /\ PassedIsDelivered'
  BY <1>1, <1>2 DEF HistoryInvariant, EarlyDriversPrepareNothing, PassedIsDelivered
<1>8. QED
  BY <1>3, <1>4, <1>5, <1>6, <1>7 DEF HistoryInvariant

LEMMA LoopExhaustedKeepsInvariant == HistoryInvariant /\ LoopExhausted => HistoryInvariant'
<1> SUFFICES ASSUME HistoryInvariant, LoopExhausted PROVE HistoryInvariant'
  OBVIOUS
<1>1. /\ pc = "off" /\ phase' = "finally" /\ outcome' = "failed"
      /\ UNCHANGED <<fixture, turn, before, index, saved, kept, repeats, child, files, sends, faults>>
  BY DEF LoopExhausted, Stop
<1>2. Sent' = Sent /\ Tip' = Tip
  BY <1>1 DEF Sent, Tip, fixture, child
<1>3. TypeOK'
  BY <1>1 DEF HistoryInvariant, TypeOK, FixtureTypeOK, fixture, child
<1>4. HistoriesAreSound' /\ NothingIsLost'
  BY <1>1, <1>2 DEF HistoryInvariant, HistoriesAreSound, NothingIsLost, fixture
<1>5. ProcessIsCurrent' /\ ReaderWritesNothing' /\ AnnouncementIsFresh'
  BY <1>1 DEF HistoryInvariant, ProcessIsCurrent, ReaderWritesNothing, AnnouncementIsFresh,
              fixture, child
<1>6. ReceiptIsOfASend' /\ PassedIsDelivered'
  BY <1>1 DEF HistoryInvariant, ReceiptIsOfASend, PassedIsDelivered, child
<1>7. EarlyDriversPrepareNothing'
  BY <1>1, <1>2 DEF HistoryInvariant, EarlyDriversPrepareNothing, fixture
<1>8. QED
  BY <1>3, <1>4, <1>5, <1>6, <1>7 DEF HistoryInvariant

LEMMA JudgeKeepsInvariant == HistoryInvariant /\ Judge => HistoryInvariant'
<1> SUFFICES ASSUME HistoryInvariant, Judge PROVE HistoryInvariant'
  OBVIOUS
<1>1. /\ pc = "done" /\ pc' = "off" /\ then' = "done" /\ reads' = 0
      /\ result' = NoResult /\ switches' = Off
      /\ UNCHANGED <<ref, clock, foreign, turn, before, saved, kept, repeats, files, sends, faults>>
  BY DEF Judge
<1>2. \/ /\ result.status \in Running.ends
         /\ phase' = "finally" /\ outcome' \in {"passed", "failed"} /\ index' = index
      \/ /\ result.status = "incomplete"
         /\ index' = index + 1 /\ UNCHANGED <<phase, outcome>>
      \/ phase' = "finally" /\ outcome' = "failed" /\ index' = index
  BY DEF Judge, Stop
<1>3. Sent' = Sent /\ Tip' = ref /\ Tip = ref
  BY <1>1 DEF Sent, Tip
<1>4. phase = "loop" /\ index < Bound[Chain[turn]]
  BY <1>1 DEF HistoryInvariant, ProcessIsCurrent
<1>5. TypeOK'
  <2>1. turn \in DOMAIN Chain /\ index \in 0..Bound[Chain[turn]] /\ Bound[Chain[turn]] \in Nat
    BY DriverKinds DEF HistoryInvariant, TypeOK
  <2>2. index' \in 0..Bound[Chain[turn]]
    BY <1>2, <1>4, <2>1
  <2>3. phase' \in {"loop", "finally"} /\ outcome' \in {"none", "passed", "failed"}
    BY <1>2, <1>4 DEF HistoryInvariant, TypeOK
  <2>4. Off \in Switches /\ NoResult.status = "none"
    BY DEF Off, Switches, NoResult
  <2>5. QED
    BY <1>1, <2>2, <2>3, <2>4 DEF HistoryInvariant, TypeOK, FixtureTypeOK
<1>6. HistoriesAreSound' /\ NothingIsLost'
  BY <1>1, <1>2, <1>3, <1>4 DEF HistoryInvariant, HistoriesAreSound, NothingIsLost
<1>7. ProcessIsCurrent' /\ ReaderWritesNothing' /\ AnnouncementIsFresh'
  BY <1>1 DEF HistoryInvariant, ProcessIsCurrent, ReaderWritesNothing, AnnouncementIsFresh
<1>8. ReceiptIsOfASend'
  BY <1>1, <1>2, <1>4 DEF HistoryInvariant, ReceiptIsOfASend
<1>9. EarlyDriversPrepareNothing'
  BY <1>1, <1>3 DEF HistoryInvariant, EarlyDriversPrepareNothing
<1>10. PassedIsDelivered'
  <2> SUFFICES ASSUME phase' # "loop", outcome' = "passed", Running.ends = {"delivered"}
               PROVE  "receipt" \in files /\ Delivered(ref)
    BY <1>1, <1>2, <1>3, <1>4 DEF PassedIsDelivered, Delivered, Running
  <2>1. result.status = "delivered"
    BY <1>2, <1>4
  <2>2. QED
    BY <1>1, <1>3, <2>1 DEF HistoryInvariant, ReceiptIsOfASend
<1>11. QED
  BY <1>5, <1>6, <1>7, <1>8, <1>9, <1>10 DEF HistoryInvariant

LEMMA FinallyKeepsInvariant == HistoryInvariant /\ Finally => HistoryInvariant'
<1> SUFFICES ASSUME HistoryInvariant, Finally PROVE HistoryInvariant'
  OBVIOUS
<1>1. /\ phase = "finally" /\ phase' = "idle"
      /\ saved' = (IF "git" \in Running.keeps THEN ref ELSE saved)
      /\ kept' = Running.keeps \cap ({"git"} \cup files)
      /\ UNCHANGED <<fixture, turn, before, index, outcome, repeats, child, files, sends, faults>>
  BY DEF Finally
<1>2. Sent' = Sent /\ Tip' = Tip
  BY <1>1 DEF Sent, Tip, fixture, child
<1>3. turn \in DOMAIN Chain /\ pc = "off" /\ Tip = ref
  BY <1>1 DEF HistoryInvariant, TypeOK, ProcessIsCurrent, Tip
<1>4. saved' = ref
  <2>1. CASE turn = 2
    BY <1>1, <1>3, <2>1, DriverKinds DEF HistoryInvariant, ReaderWritesNothing
  <2>2. CASE turn # 2
    BY <1>1, <1>3, <2>2, DriverKinds DEF Running
  <2>3. QED
    BY <2>1, <2>2
<1>5. TypeOK'
  BY <1>1 DEF HistoryInvariant, TypeOK, FixtureTypeOK, fixture, child
<1>6. HistoriesAreSound' /\ NothingIsLost'
  BY <1>1, <1>2, <1>4 DEF HistoryInvariant, HistoriesAreSound, NothingIsLost, fixture, Times
<1>7. ProcessIsCurrent' /\ ReaderWritesNothing' /\ AnnouncementIsFresh' /\ ReceiptIsOfASend'
  BY <1>1, <1>3, <1>4 DEF HistoryInvariant, ProcessIsCurrent, ReaderWritesNothing,
                          AnnouncementIsFresh, ReceiptIsOfASend, fixture, child
<1>8. EarlyDriversPrepareNothing'
  BY <1>1, <1>2, <1>4 DEF HistoryInvariant, EarlyDriversPrepareNothing, fixture
<1>9. PassedIsDelivered'
  <2> SUFFICES ASSUME outcome = "passed", Running.ends = {"delivered"}
               PROVE  "receipt" \in kept' /\ Delivered(ref)
    BY <1>1, <1>2, <1>4 DEF PassedIsDelivered, Delivered, Running
  <2>1. "receipt" \in files /\ Delivered(ref)
    BY <1>1 DEF HistoryInvariant, PassedIsDelivered
  <2>2. turn > 4
    BY <1>3, <2>1, DriverKinds DEF HistoryInvariant, EarlyDriversPrepareNothing, Delivered
  <2>3. QED
    BY <1>1, <1>3, <2>1, <2>2, DriverKinds DEF Running
<1>10. QED
  BY <1>5, <1>6, <1>7, <1>8, <1>9 DEF HistoryInvariant

LEMMA DriverLostKeepsInvariant == HistoryInvariant /\ DriverLost => HistoryInvariant'
<1> SUFFICES ASSUME HistoryInvariant, DriverLost PROVE HistoryInvariant'
  OBVIOUS
<1>1. /\ phase' = "idle" /\ outcome' = "failed" /\ ref' = saved
      /\ foreign' = foreign \cap Times(saved)
      /\ pc' = "off" /\ then' = "done" /\ reads' = 0 /\ result' = NoResult /\ switches' = Off
      /\ UNCHANGED <<clock, turn, before, index, saved, kept, repeats, files, sends>>
  BY DEF DriverLost
<1>2. Sent' = Sent /\ Tip' = saved
  BY <1>1 DEF Sent, Tip
<1>3. TypeOK'
  <2>1. faults' \in 0..MaxFaults
    BY DriversAssumption DEF DriverLost, HistoryInvariant, TypeOK
  <2>2. Off \in Switches /\ NoResult.status = "none"
    BY DEF Off, Switches, NoResult
  <2>3. foreign' \subseteq Nat
    BY <1>1 DEF HistoryInvariant, TypeOK, FixtureTypeOK
  <2>4. QED
    BY <1>1, <2>1, <2>2, <2>3 DEF HistoryInvariant, TypeOK, FixtureTypeOK
<1>4. HistoriesAreSound'
  <2>1. clock \in Nat /\ Sound(saved, clock, foreign, Sent)
    BY DEF HistoryInvariant, TypeOK, FixtureTypeOK, HistoriesAreSound
  <2>2. \A t \in foreign \cap Times(saved) : t \in foreign \/ t = clock
    OBVIOUS
  <2>3. Sound(saved, clock, foreign \cap Times(saved), Sent)
    BY <2>1, <2>2, LaterIsSound
  <2>4. QED
    BY <1>1, <1>2, <2>3 DEF HistoriesAreSound
<1>5. NothingIsLost'
  BY <1>1, <1>2 DEF HistoryInvariant, NothingIsLost, Times
<1>6. ProcessIsCurrent' /\ ReaderWritesNothing' /\ AnnouncementIsFresh'
  BY <1>1 DEF ProcessIsCurrent, ReaderWritesNothing, AnnouncementIsFresh
<1>7. ReceiptIsOfASend' /\ PassedIsDelivered'
  BY <1>1 DEF ReceiptIsOfASend, PassedIsDelivered
<1>8. EarlyDriversPrepareNothing'
  BY <1>1, <1>2 DEF HistoryInvariant, EarlyDriversPrepareNothing
<1>9. QED
  BY <1>3, <1>4, <1>5, <1>6, <1>7, <1>8 DEF HistoryInvariant

\* What the next driver restores is what was saved, or (single) a prefix of it
\* with the commits of others that are in it.
LEMMA StartKeepsInvariant ==
    ASSUME HistoryInvariant, NEW t \in DOMAIN Chain, Start(t)
    PROVE  HistoryInvariant'
<1>1. PICK history \in (IF Chain[t] = "single" THEN Restorable ELSE {saved}) :
         /\ Restore(history)
         /\ foreign' = IF Chain[t] = "single" THEN foreign \cap Times(history) ELSE foreign
  BY DEF Start
<1>2. /\ phase = "idle" /\ turn' = t /\ ref' = history /\ files' = {} /\ index' = 0
      /\ outcome' = "none" /\ phase' = "loop"
      /\ t = turn \/ t = turn + 1
      /\ UNCHANGED <<clock, switches, cache, saved, kept, child, sends, faults>>
  BY <1>1 DEF Start, Restore
<1>3. Sent' = Sent /\ pc = "off" /\ pc' = "off" /\ Tip' = history
  BY <1>1, <1>2 DEF HistoryInvariant, ProcessIsCurrent, Sent, Tip, child
<1>4. clock \in Nat /\ Sound(saved, clock, foreign, Sent)
  BY DEF HistoryInvariant, TypeOK, FixtureTypeOK, HistoriesAreSound
<1>5. /\ Sound(history, clock, foreign, Sent)
      /\ foreign' \subseteq foreign /\ foreign' \subseteq Times(history)
      /\ Chain[t] # "single" => history = saved
  <2>1. CASE Chain[t] = "single"
    <3>1. PICK n \in DOMAIN saved : history = SubSeq(saved, 1, n)
      BY <1>1, <2>1 DEF Restorable
    <3>2. QED
      BY <1>1, <1>4, <2>1, <3>1, PrefixIsSound
  <2>2. CASE Chain[t] # "single"
    BY <1>1, <1>2, <1>4, <2>2 DEF HistoryInvariant, NothingIsLost
  <2>3. QED
    BY <2>1, <2>2
<1>6. TypeOK'
  <2>1. 0 \in 0..Bound[Chain[t]]
    BY DriverKinds
  <2>2. repeats' \in 0..MaxRepeats
    BY DriversAssumption DEF Start, HistoryInvariant, TypeOK
  <2>3. foreign' \subseteq Nat
    BY <1>5 DEF HistoryInvariant, TypeOK, FixtureTypeOK
  <2>4. QED
    BY <1>2, <2>1, <2>2, <2>3 DEF HistoryInvariant, TypeOK, FixtureTypeOK, child
<1>7. HistoriesAreSound'
  <2>1. \A f \in foreign' : f \in foreign \/ f = clock
    BY <1>5
  <2>2. Sound(history, clock, foreign', Sent) /\ Sound(saved, clock, foreign', Sent)
    BY <1>4, <1>5, <2>1, LaterIsSound
  <2>3. QED
    BY <1>2, <1>3, <2>2 DEF HistoriesAreSound
<1>8. NothingIsLost'
  BY <1>2, <1>3, <1>5 DEF HistoryInvariant, NothingIsLost, Times
<1>9. ProcessIsCurrent' /\ ReaderWritesNothing' /\ AnnouncementIsFresh'
  <2>1. then' = "done" /\ reads' = 0
    BY <1>2, <1>3 DEF HistoryInvariant, ProcessIsCurrent, child
  <2>2. Chain[t] = "reader" => ref' = saved'
    BY <1>2, <1>5
  <2>3. QED
    BY <1>2, <1>3, <2>1, <2>2 DEF ProcessIsCurrent, ReaderWritesNothing, AnnouncementIsFresh
<1>10. ReceiptIsOfASend' /\ PassedIsDelivered'
  BY <1>2, <1>3 DEF ReceiptIsOfASend, PassedIsDelivered
<1>11. EarlyDriversPrepareNothing'
  <2> SUFFICES ASSUME t <= 4
               PROVE  Batch(saved) = "none" /\ history = saved
    BY <1>2, <1>3 DEF EarlyDriversPrepareNothing, Batch
  <2>1. turn \in DOMAIN Chain
    BY DEF HistoryInvariant, TypeOK
  <2>2. turn \in 1..8 /\ t \in 1..8 /\ Chain[t] # "single"
    BY <2>1, DriverKinds
  <2>3. turn <= 4
    BY <1>2, <2>2
  <2>4. QED
    BY <1>5, <2>2, <2>3 DEF HistoryInvariant, EarlyDriversPrepareNothing
<1>12. QED
  BY <1>6, <1>7, <1>8, <1>9, <1>10, <1>11 DEF HistoryInvariant

-----------------------------------------------------------------------------
(* The steps of the child. *)

\* Every reading starts from the branch as it is: the ref is never cached.
LEMMA LoadKeepsInvariant == HistoryInvariant /\ Load => HistoryInvariant'
<1> SUFFICES ASSUME HistoryInvariant, Load PROVE HistoryInvariant'
  OBVIOUS
<1>1. /\ pc = "load" /\ reads' = (reads + 1) % 4 /\ pc' = (IF reads = 3 THEN then ELSE "load")
      /\ loaded' = (IF reads = 0 THEN Served(<<"ref">>) ELSE loaded)
      /\ UNCHANGED <<ref, clock, foreign, switches, then, posted, result>>
      /\ UNCHANGED <<turn, phase, before, index, outcome, saved, kept, repeats, files, sends, faults>>
  BY DEF Load, parent, driver
<1>2. reads \in 0..3 /\ then \in {"plan", "send"}
  BY <1>1 DEF HistoryInvariant, TypeOK, ProcessIsCurrent
<1>3. reads' \in 0..3 /\ (reads = 3 => reads' = 0)
  BY <1>1, <1>2
<1>4. loaded' = ref
  <2>1. Served(<<"ref">>) = ref
    BY FixtureAssumption DEF Served, Immutable, Backend
  <2>2. reads # 0 => loaded = ref
    BY <1>1, <1>2 DEF HistoryInvariant, ProcessIsCurrent
  <2>3. QED
    BY <1>1, <2>1, <2>2
<1>5. Sent' = Sent /\ Tip' = ref /\ Tip = ref
  BY <1>1, <1>2 DEF Sent, Tip
<1>6. TypeOK'
  BY <1>1, <1>2, <1>3 DEF HistoryInvariant, TypeOK, FixtureTypeOK
<1>7. HistoriesAreSound' /\ NothingIsLost'
  BY <1>1, <1>5 DEF HistoryInvariant, HistoriesAreSound, NothingIsLost
<1>8. ProcessIsCurrent'
  BY <1>1, <1>2, <1>3, <1>4 DEF HistoryInvariant, ProcessIsCurrent
<1>9. ReaderWritesNothing'
  BY <1>1, <1>2 DEF HistoryInvariant, ReaderWritesNothing
<1>10. AnnouncementIsFresh'
  BY <1>1, <1>2, <1>5 DEF HistoryInvariant, AnnouncementIsFresh
<1>11. ReceiptIsOfASend' /\ PassedIsDelivered'
  BY <1>1, <1>2 DEF HistoryInvariant, ProcessIsCurrent, ReceiptIsOfASend, PassedIsDelivered
<1>12. EarlyDriversPrepareNothing'
  BY <1>1, <1>5 DEF HistoryInvariant, EarlyDriversPrepareNothing
<1>13. QED
  BY <1>6, <1>7, <1>8, <1>9, <1>10, <1>11, <1>12 DEF HistoryInvariant

\* What another writer may have made of the branch when an update arrives.
LEMMA CurrentIsSound ==
    ASSUME HistoryInvariant, NEW now, NEW others,
           now = IF Races THEN clock + 1 ELSE clock,
           others = IF Races THEN foreign \cup {clock} ELSE foreign
    PROVE  /\ clock \in Nat /\ now \in Nat /\ clock <= now /\ others \subseteq Nat
           /\ \A t \in others \cup Sent : t < now
           /\ \A t \in others : t \in foreign \/ t = clock
           /\ Sound(Current, now, others, Sent)
           /\ others \subseteq Times(Current)
           /\ Batch(Current) = Batch(ref)
<1>1. /\ clock \in Nat /\ foreign \subseteq Nat /\ sends \in Seq(Nat)
      /\ Sound(ref, clock, foreign, Sent) /\ foreign \subseteq Times(ref)
      /\ \A t \in foreign \cup Sent : t < clock
  BY DEF HistoryInvariant, TypeOK, FixtureTypeOK, HistoriesAreSound, NothingIsLost
<1>2. Sent \subseteq Nat
  BY <1>1 DEF Sent
<1>3. /\ now \in Nat /\ clock <= now /\ others \subseteq Nat
      /\ \A t \in others \cup Sent : t < now
      /\ \A t \in others : t \in foreign \/ t = clock
  BY <1>1, <1>2
<1>4. CASE ~ Races
  BY <1>1, <1>3, <1>4 DEF Current
<1>5. CASE Races
  <2> DEFINE old == Last(ref).tree
             c == [tree |-> PostTree(old, "race", RaceFile), at |-> clock]
  <2>1. /\ ref \in Seq(Commits) /\ ref # <<>> /\ Len(ref) \in DOMAIN ref
        /\ Len(ref) \in Nat /\ Last(ref) = ref[Len(ref)] /\ old \in Tree
    BY <1>1, SoundShape
  <2>2. /\ PostTree(old, "race", RaceFile) \in Tree
        /\ PostTree(old, "race", RaceFile)["report"] = old["report"]
        /\ PostTree(old, "race", RaceFile)["race"] = RaceFile
    BY <2>1 DEF PostTree, Tree
  <2>3. /\ c \in Commits /\ c.at = clock
        /\ c.tree["report"] = old["report"] /\ c.tree["race"] = RaceFile
    BY <1>1, <2>2 DEF Commits
  <2>4. Current = Append(ref, c)
    BY <1>5 DEF Current, PostCommit
  <2> HIDE DEF c
  <2>5. old["report"] \in Report
    BY <2>1 DEF Tree
  <2>6. old["report"].auth < Len(ref) /\ Prepared(old["report"])
    BY <1>1, <2>1 DEF Sound
  <2>7. c.tree["report"].auth <= Len(ref) /\ Prepared(c.tree["report"])
    BY <2>1, <2>3, <2>5, <2>6, ReportFields
  <2>8. Forward(Last(ref).tree["report"], c.tree["report"])
    BY <2>3, <2>5, ForwardReflexive
  <2>9. clock \notin Sent /\ now = clock + 1
    BY <1>1, <1>5
  <2>10. /\ Sound(Append(ref, c), clock + 1, others, Sent)
         /\ Last(Append(ref, c)) = c
         /\ Times(Append(ref, c)) = Times(ref) \cup {clock}
    <3>1. clock \in Nat /\ Sound(ref, clock, foreign, Sent)
      BY <1>1
    <3>2. \A t \in others : t \in foreign \/ t = clock
      BY <1>3
    <3>3. clock \notin Sent /\ c \in Commits /\ c.at = clock /\ c.tree["race"] = RaceFile
      BY <2>3, <2>9
    <3>4. QED
      BY <2>7, <2>8, <3>1, <3>2, <3>3, AppendIsSound
  <2>11. QED
    BY <1>1, <1>3, <1>5, <2>3, <2>4, <2>9, <2>10 DEF Batch
<1>6. QED
  BY <1>4, <1>5

\* A refused update leaves the branch to the other writer and ends the process.
LEMMA PatchRefusedKeepsInvariant ==
    ASSUME HistoryInvariant, pc = "patch", PatchRefused(posted), Answer(Result("error")),
           UNCHANGED <<cache, parent>>
    PROVE  HistoryInvariant'
<1>1. /\ ref' = Current
      /\ clock' = (IF Races THEN clock + 1 ELSE clock)
      /\ foreign' = (IF Races THEN foreign \cup {clock} ELSE foreign)
      /\ switches' = [switches EXCEPT !.conflict = AfterRace]
      /\ pc' = "done" /\ result'.status = "error" /\ reads' = 0 /\ then' = then
      /\ UNCHANGED <<turn, phase, before, index, outcome, saved, kept, repeats, files, sends, faults>>
  BY DEF PatchRefused, Arrive, Answer, Result, parent, driver
<1>2. Sent' = Sent /\ Tip' = ref'
  BY <1>1 DEF Sent, Tip
<1>3. /\ clock \in Nat /\ clock' \in Nat /\ clock <= clock' /\ foreign' \subseteq Nat
      /\ \A t \in foreign' \cup Sent : t < clock'
      /\ \A t \in foreign' : t \in foreign \/ t = clock
      /\ Sound(Current, clock', foreign', Sent) /\ foreign' \subseteq Times(Current)
      /\ Batch(Current) = Batch(ref)
  BY <1>1, CurrentIsSound
<1>4. TypeOK'
  <2>1. switches' \in Switches
    BY <1>1 DEF HistoryInvariant, TypeOK, FixtureTypeOK, Switches, AfterRace
  <2>2. QED
    BY <1>1, <1>3, <2>1 DEF HistoryInvariant, TypeOK, FixtureTypeOK
<1>5. HistoriesAreSound'
  <2>1. Sound(saved, clock, foreign, Sent)
    BY DEF HistoryInvariant, HistoriesAreSound
  <2>2. Sound(saved, clock', foreign', Sent)
    BY <1>3, <2>1, LaterIsSound
  <2>3. QED
    BY <1>1, <1>2, <1>3, <2>2 DEF HistoriesAreSound
<1>6. phase = "loop"
  BY DEF HistoryInvariant, ProcessIsCurrent
<1>7. NothingIsLost'
  BY <1>1, <1>2, <1>3, <1>6 DEF HistoryInvariant, NothingIsLost, Times
<1>8. ProcessIsCurrent' /\ ReaderWritesNothing' /\ AnnouncementIsFresh'
  BY <1>1 DEF HistoryInvariant, ProcessIsCurrent, ReaderWritesNothing, AnnouncementIsFresh
<1>9. ReceiptIsOfASend' /\ PassedIsDelivered'
  BY <1>1, <1>6 DEF ReceiptIsOfASend, PassedIsDelivered
<1>10. EarlyDriversPrepareNothing'
  BY <1>1, <1>2, <1>3 DEF HistoryInvariant, EarlyDriversPrepareNothing, Batch
<1>11. QED
  BY <1>4, <1>5, <1>7, <1>8, <1>9, <1>10 DEF HistoryInvariant

\* An applied update is the branch, acknowledged or not.
LEMMA PatchAppliedKeepsInvariant ==
    ASSUME HistoryInvariant, pc = "patch", PatchApplied(posted),
           UNCHANGED <<then, loaded, reads, posted, result, cache, parent>>,
           pc' \in {"reconcile", IF then = "done" THEN "done" ELSE "load"}
    PROVE  HistoryInvariant'
<1>1. /\ ref' = posted
      /\ clock' = (IF Races THEN clock + 1 ELSE clock)
      /\ foreign' = (IF Races THEN foreign \cup {clock} ELSE foreign)
      /\ IsAncestor(Current, posted)
      /\ UNCHANGED <<turn, phase, before, index, outcome, saved, kept, repeats, files, sends, faults>>
  BY DEF PatchApplied, FastForward, Arrive, parent, driver
<1>2. Sent' = Sent /\ Tip = posted /\ Tip' = posted
  BY <1>1 DEF Sent, Tip
<1>3. /\ clock \in Nat /\ clock' \in Nat /\ clock <= clock' /\ foreign' \subseteq Nat
      /\ \A t \in foreign' \cup Sent : t < clock'
      /\ \A t \in foreign' : t \in foreign \/ t = clock
      /\ Sound(Current, clock', foreign', Sent) /\ foreign' \subseteq Times(Current)
  BY <1>1, CurrentIsSound
<1>4. TypeOK'
  <2>1. switches' \in Switches
    <3> DEFINE answers == IF switches.lost THEN switches.fail_after_ack ELSE switches.failed
    <3>1. switches \in Switches
      BY DEF HistoryInvariant, TypeOK, FixtureTypeOK
    <3>2. switches' = [switches EXCEPT !.conflict = AfterRace, !.lost = FALSE, !.failed = answers]
      BY DEF PatchApplied
    <3>3. AfterRace \in {"off", "once", "always"}
      BY <3>1 DEF AfterRace, Switches
    <3>4. answers \in BOOLEAN
      BY <3>1 DEF Switches
    <3> HIDE DEF answers
    <3>5. QED
      BY <3>1, <3>2, <3>3, <3>4 DEF Switches
  <2>2. QED
    BY <1>1, <1>3, <2>1 DEF HistoryInvariant, TypeOK, FixtureTypeOK
<1>5. Sound(saved, clock, foreign, Sent) /\ Sound(posted, clock, foreign, Sent)
  BY <1>2 DEF HistoryInvariant, HistoriesAreSound
<1>6. HistoriesAreSound'
  <2>1. Sound(saved, clock', foreign', Sent) /\ Sound(posted, clock', foreign', Sent)
    BY <1>3, <1>5, LaterIsSound
  <2>2. QED
    BY <1>1, <1>2, <2>1 DEF HistoriesAreSound
<1>7. phase = "loop" /\ reads = 0
  BY DEF HistoryInvariant, ProcessIsCurrent
<1>8. NothingIsLost'
  <2>1. Current \in Seq(Commits) /\ posted \in Seq(Commits)
    BY <1>3, <1>5, SoundShape
  <2>2. foreign' \subseteq Times(posted)
    BY <1>1, <1>3, <2>1, AncestorTimes
  <2>3. QED
    BY <1>1, <1>2, <1>3, <1>7, <2>2 DEF HistoryInvariant, NothingIsLost, Times
<1>9. ProcessIsCurrent' /\ ReaderWritesNothing'
  BY <1>1, <1>7 DEF HistoryInvariant, ProcessIsCurrent, ReaderWritesNothing
<1>10. AnnouncementIsFresh'
  BY <1>1, <1>2 DEF HistoryInvariant, AnnouncementIsFresh, Times
<1>11. ReceiptIsOfASend' /\ PassedIsDelivered'
  BY <1>1, <1>2, <1>7 DEF HistoryInvariant, ReceiptIsOfASend, PassedIsDelivered, Delivered,
                          Batch, Times
<1>12. EarlyDriversPrepareNothing'
  BY <1>1, <1>2 DEF HistoryInvariant, EarlyDriversPrepareNothing, Batch
<1>13. QED
  BY <1>4, <1>6, <1>8, <1>9, <1>10, <1>11, <1>12 DEF HistoryInvariant

LEMMA PatchKeepsInvariant == HistoryInvariant /\ Patch => HistoryInvariant'
<1> SUFFICES ASSUME HistoryInvariant, Patch PROVE HistoryInvariant'
  OBVIOUS
<1>1. CASE PatchRefused(posted) /\ Answer(Result("error"))
  BY <1>1, PatchRefusedKeepsInvariant DEF Patch
<1>2. CASE PatchApplied(posted) /\ GoOn
  BY <1>2, PatchAppliedKeepsInvariant DEF Patch, GoOn
<1>3. CASE /\ PatchApplied(posted)
           /\ pc' = "reconcile" /\ UNCHANGED <<then, loaded, reads, posted, result>>
  BY <1>3, PatchAppliedKeepsInvariant DEF Patch
<1>4. QED
  BY <1>1, <1>2, <1>3 DEF Patch

\* A lost acknowledgement is reconciled: the branch is what was posted.
LEMMA ReconcileKeepsInvariant == HistoryInvariant /\ Reconcile => HistoryInvariant'
<1> SUFFICES ASSUME HistoryInvariant, Reconcile PROVE HistoryInvariant'
  OBVIOUS
<1>1. /\ pc = "reconcile" /\ ref = posted /\ GoOn
      /\ UNCHANGED <<ref, clock, foreign, switches, cache>>
      /\ UNCHANGED <<turn, phase, before, index, outcome, saved, kept, repeats, files, sends, faults>>
  BY DEF Reconcile, HistoryInvariant, ProcessIsCurrent, fixture, parent, driver
<1>2. /\ pc' = (IF then = "done" THEN "done" ELSE "load")
      /\ UNCHANGED <<then, loaded, reads, posted, result>>
  BY <1>1 DEF GoOn
<1>3. Sent' = Sent /\ Tip = ref /\ Tip' = ref
  BY <1>1, <1>2 DEF Sent, Tip
<1>4. TypeOK'
  BY <1>1, <1>2 DEF HistoryInvariant, TypeOK, FixtureTypeOK
<1>5. HistoriesAreSound' /\ NothingIsLost'
  BY <1>1, <1>3 DEF HistoryInvariant, HistoriesAreSound, NothingIsLost
<1>6. ProcessIsCurrent' /\ ReaderWritesNothing'
  BY <1>1, <1>2 DEF HistoryInvariant, ProcessIsCurrent, ReaderWritesNothing
<1>7. AnnouncementIsFresh'
  BY <1>1, <1>2, <1>3 DEF HistoryInvariant, AnnouncementIsFresh
<1>8. ReceiptIsOfASend'
  BY <1>1, <1>2, <1>3 DEF HistoryInvariant, ReceiptIsOfASend, Delivered, Batch
<1>9. EarlyDriversPrepareNothing' /\ PassedIsDelivered'
  BY <1>1, <1>3 DEF HistoryInvariant, ProcessIsCurrent, EarlyDriversPrepareNothing, PassedIsDelivered
<1>10. QED
  BY <1>4, <1>5, <1>6, <1>7, <1>8, <1>9 DEF HistoryInvariant

LEMMA UnavailableKeepsInvariant == HistoryInvariant /\ Unavailable => HistoryInvariant'
<1> SUFFICES ASSUME HistoryInvariant, Unavailable PROVE HistoryInvariant'
  OBVIOUS
<1>1. /\ pc # "off" /\ Answer(Result("error")) /\ Result("error").status = "error"
      /\ UNCHANGED <<ref, clock, foreign, switches, turn, phase, index, outcome, saved,
                     kept, repeats, sends, files>>
      /\ faults' \in 0..MaxFaults
  BY DEF Unavailable, Result, fixture, parent, driver, HistoryInvariant, TypeOK
<1>2. QED
  BY <1>1, AnswerKeepsInvariant

LEMMA ChildFailsKeepsInvariant == HistoryInvariant /\ ChildFails => HistoryInvariant'
<1> SUFFICES ASSUME HistoryInvariant, ChildFails PROVE HistoryInvariant'
  OBVIOUS
<1>1. /\ pc # "off" /\ Answer(Result("error")) /\ Result("error").status = "error"
      /\ UNCHANGED <<ref, clock, foreign, switches, turn, phase, index, outcome, saved,
                     kept, repeats, sends, files>>
  BY DEF ChildFails, Result, fixture, driver
<1>2. faults' \in 0..MaxFaults
  BY DriversAssumption DEF ChildFails, HistoryInvariant, TypeOK
<1>3. QED
  BY <1>1, <1>2, AnswerKeepsInvariant

\* A report is sent on an announcement that nobody has saved or sent on before.
LEMMA SendKeepsInvariant == HistoryInvariant /\ Send => HistoryInvariant'
<1> SUFFICES ASSUME HistoryInvariant, Send PROVE HistoryInvariant'
  OBVIOUS
<1> DEFINE t == Last(ref).at
<1>1. /\ pc = "send" /\ loaded = ref /\ then = "send" /\ reads = 0 /\ phase = "loop"
      /\ index < Bound[Chain[turn]]
      /\ UNCHANGED <<ref, clock, foreign, switches, cache>>
      /\ UNCHANGED <<turn, phase, before, index, outcome, saved, kept, repeats, faults>>
  BY DEF Send, HistoryInvariant, ProcessIsCurrent, fixture, driver
<1>2. CASE Answer(Result("error")) /\ UNCHANGED <<files, sends>>
  <2>1. Result("error").status = "error" /\ faults' \in 0..MaxFaults
    BY <1>1 DEF Result, HistoryInvariant, TypeOK
  <2>2. QED
    BY <1>1, <1>2, <2>1, AnswerKeepsInvariant
<1>3. CASE /\ sends' = Append(sends, t)
           /\ files' = files \cup {"receipt"}
           /\ pc' = "confirm"
           /\ UNCHANGED <<then, loaded, reads, posted, result>>
  <2>1. /\ sends \in Seq(Nat) /\ clock \in Nat
        /\ Sound(ref, clock, foreign, Sent) /\ Sound(saved, clock, foreign, Sent)
    BY DEF HistoryInvariant, TypeOK, FixtureTypeOK, HistoriesAreSound
  <2>2. /\ Len(ref) \in DOMAIN ref /\ DOMAIN ref = 1..Len(ref) /\ Last(ref) = ref[Len(ref)]
        /\ \A i \in DOMAIN ref : ref[i].at \in Nat
        /\ Len(ref) \in Nat
    BY <2>1, SoundShape
  <2>3. t \in Nat /\ t < clock
    BY <2>1, <2>2 DEF Sound
  <2>4. Announced(ref, Len(ref)) /\ t \notin Sent /\ t \notin Times(saved)
    BY <1>1 DEF HistoryInvariant, AnnouncementIsFresh, Tip
  <2>5. /\ sends' \in Seq(Nat) /\ Len(sends') = Len(sends) + 1
        /\ DOMAIN sends = 1..Len(sends) /\ DOMAIN sends' = 1..(Len(sends) + 1)
        /\ Len(sends) \in Nat
        /\ \A k \in DOMAIN sends : sends'[k] = sends[k]
        /\ sends'[Len(sends) + 1] = t
    <3> HIDE DEF t
    <3>1. QED
      BY <1>3, <2>1, <2>3
  <2>6. Sent' = Sent \cup {t}
    BY <2>5 DEF Sent
  <2>7. Tip = ref /\ Tip' = ref
    BY <1>1, <1>3 DEF Tip
  <2>8. Sound(ref, clock, foreign, Sent \cup {t})
    <3>1. ASSUME NEW i \in DOMAIN ref, ref[i].at = t
          PROVE  Announced(ref, i)
      <4>1. i = Len(ref)
        <5>1. i < Len(ref) => ref[i].at < ref[Len(ref)].at
          BY <2>1, <2>2 DEF Sound
        <5>2. QED
          BY <2>2, <2>3, <3>1, <5>1
      <4>2. QED
        BY <2>4, <4>1
    <3>2. QED
      BY <2>1, <3>1, SendIsSound
  <2>9. Sound(saved, clock, foreign, Sent \cup {t})
    <3>1. \A i \in DOMAIN saved : saved[i].at # t
      BY <2>4 DEF Times
    <3>2. QED
      BY <2>1, <3>1, SendIsSound
  <2>10. TypeOK'
    BY <1>1, <1>3, <2>5 DEF HistoryInvariant, TypeOK, FixtureTypeOK
  <2>11. HistoriesAreSound'
    BY <1>1, <2>6, <2>7, <2>8, <2>9 DEF HistoriesAreSound
  <2>12. NothingIsLost'
    <3>1. \A i, j \in DOMAIN sends' : i # j => sends'[i] # sends'[j]
      <4>1. \A k \in DOMAIN sends : sends'[k] # t
        BY <2>4, <2>5 DEF Sent
      <4>2. \A i, j \in DOMAIN sends : i # j => sends'[i] # sends'[j]
        BY <2>5 DEF HistoryInvariant, NothingIsLost
      <4>3. \A i \in DOMAIN sends' : i \in DOMAIN sends \/ i = Len(sends) + 1
        BY <2>5
      <4>4. QED
        BY <2>5, <4>1, <4>2, <4>3
    <3>2. QED
      BY <1>1, <2>3, <2>6, <3>1 DEF HistoryInvariant, NothingIsLost, Times
  <2>13. ProcessIsCurrent' /\ ReaderWritesNothing' /\ AnnouncementIsFresh'
    BY <1>1, <1>3 DEF HistoryInvariant, ProcessIsCurrent, ReaderWritesNothing, AnnouncementIsFresh
  <2>14. ReceiptIsOfASend'
    <3>1. Batch(ref) = "uncertain"
      BY <2>2, <2>4 DEF Announced, Batch
    <3>2. QED
      BY <1>1, <1>3, <2>6, <3>1 DEF ReceiptIsOfASend, Batch
  <2>15. EarlyDriversPrepareNothing' /\ PassedIsDelivered'
    BY <1>1, <2>7 DEF HistoryInvariant, EarlyDriversPrepareNothing, PassedIsDelivered, Batch
  <2>16. QED
    BY <2>10, <2>11, <2>12, <2>13, <2>14, <2>15 DEF HistoryInvariant
<1>4. QED
  BY <1>1, <1>2, <1>3 DEF Send

-----------------------------------------------------------------------------
(* What the child plans. *)

\* The report it has read, and the same report brought up to date.
LEMMA PlanFacts ==
    ASSUME HistoryInvariant, pc \in {"plan", "confirm"}
    PROVE  /\ loaded = ref /\ phase = "loop"
           /\ Loaded \in Report /\ Prepared(Loaded)
           /\ Len(loaded) \in Nat /\ Loaded.auth \in Nat /\ Loaded.auth <= Len(loaded)
           /\ Behind = Len(loaded) - Loaded.auth
           /\ UpToDate \in Report /\ UpToDate = [Loaded EXCEPT !.auth = Len(loaded)]
           /\ turn <= 4 => Loaded.batch = "none"
           /\ Loaded.batch = Batch(ref)
<1>1. loaded = ref /\ phase = "loop" /\ Tip = ref
  BY DEF HistoryInvariant, ProcessIsCurrent, Tip
<1>2. Sound(ref, clock, foreign, Sent)
  BY DEF HistoryInvariant, HistoriesAreSound
<1>3. /\ ref \in Seq(Commits) /\ Len(ref) \in Nat \ {0} /\ Len(ref) \in DOMAIN ref
      /\ Last(ref) = ref[Len(ref)]
      /\ Loaded = ref[Len(ref)].tree["report"] /\ Loaded \in Report
  BY <1>1, <1>2, SoundShape DEF Loaded
<1>4. Loaded.auth \in Nat
  BY <1>3, ReportFields
<1>5. Loaded.auth < Len(ref) /\ Prepared(Loaded)
  BY <1>2, <1>3 DEF Sound
<1>6. Behind = Len(loaded) - Loaded.auth
  <2>1. Len(SubSeq(ref, 1, Loaded.auth)) = Loaded.auth
    BY <1>3, <1>4, <1>5
  <2>2. QED
    BY <1>1, <2>1 DEF Behind, AheadBy
<1>7. UpToDate \in Report /\ UpToDate = [Loaded EXCEPT !.auth = Len(loaded)]
  BY <1>1, <1>3 DEF UpToDate, Report
<1>8. Loaded.batch = Batch(ref)
  BY <1>3 DEF Batch
<1>9. turn <= 4 => Loaded.batch = "none"
  BY <1>8 DEF HistoryInvariant, EarlyDriversPrepareNothing
<1>10. QED
  BY <1>1, <1>3, <1>4, <1>5, <1>6, <1>7, <1>8, <1>9

\* Before a batch is prepared, anything but the origin may change.
LEMMA ForwardBeforeBatch ==
    ASSUME NEW old \in Report, NEW new \in Report, old.batch = "none", old.auth <= new.auth
    PROVE  Forward(old, new)
<1>1. Rank[old.batch] = 0 /\ Rank[new.batch] \in 0..3
  BY ReportFields, RankValues
<1>2. QED
  BY <1>1 DEF Forward

\* Afterwards the batch and the origin change.
LEMMA ForwardOfBatch ==
    ASSUME NEW old \in Report, NEW b \in Batches, NEW n \in Nat,
           Rank[old.batch] <= Rank[b], old.auth <= n
    PROVE  LET new == [old EXCEPT !.auth = n, !.batch = b]
           IN  /\ new \in Report /\ new.auth = n /\ new.batch = b
               /\ Forward(old, new)
               /\ old.batch # "none" /\ Prepared(old) => Prepared(new)
<1> DEFINE new == [old EXCEPT !.auth = n, !.batch = b]
<1>1. /\ new \in Report /\ new.auth = n /\ new.batch = b
      /\ new.staged = old.staged /\ new.scan = old.scan
  BY DEF Report, Batches
<1>2. new = [old EXCEPT !.batch = new.batch, !.auth = new.auth]
  BY <1>1 DEF Report
<1>3. Forward(old, new)
  BY <1>1, <1>2 DEF Forward
<1>4. old.batch # "none" /\ Prepared(old) => Prepared(new)
  BY <1>1 DEF Prepared
<1>5. QED
  BY <1>1, <1>3, <1>4

LEMMA StageOnceKeepsInvariant == HistoryInvariant /\ StageOnce => HistoryInvariant'
<1> SUFFICES ASSUME HistoryInvariant, StageOnce PROVE HistoryInvariant'
  OBVIOUS
<1> DEFINE r == [Loaded EXCEPT !.staged = TRUE]
<1>1. pc = "plan" /\ Chain[turn] = "resume"
  BY DEF StageOnce, Planning
<1>2. /\ Loaded \in Report /\ Prepared(Loaded) /\ Loaded.auth \in Nat
      /\ Loaded.auth <= Len(loaded) /\ phase = "loop"
      /\ turn <= 4 => Loaded.batch = "none"
  BY <1>1, PlanFacts
<1>3. "receipt" \notin files /\ turn <= 4
  <2>1. turn \in DOMAIN Chain
    BY DEF HistoryInvariant, TypeOK
  <2>2. turn = 1
    BY <1>1, <2>1, DriverKinds
  <2>3. QED
    BY <1>1, <1>2, <2>2 DEF HistoryInvariant, ReceiptIsOfASend
<1>4. CASE Loaded.staged
  <2>1. /\ Answer(Result("already-staged")) /\ Result("already-staged").status = "already-staged"
        /\ UNCHANGED <<fixture, parent>> /\ faults \in 0..MaxFaults
    BY <1>4 DEF StageOnce, Result, HistoryInvariant, TypeOK
  <2>2. QED
    BY <1>1, <1>3, <2>1, AnswerKeepsInvariant DEF fixture, parent, driver
<1>5. CASE ~ Loaded.staged
  <2>1. /\ Post(r, "done", Result("staged")) /\ Result("staged").status = "staged"
        /\ UNCHANGED files
    BY <1>5 DEF StageOnce, Publish, Result
  <2>2. Loaded.batch = "none"
    BY <1>2, <1>3
  <2>3. r \in Report /\ r.auth = Loaded.auth /\ r.batch = "none"
    BY <1>2, <2>2 DEF Report
  <2> HIDE DEF r
  <2>4. Prepared(r)
    BY <2>3 DEF Prepared
  <2>5. Forward(Loaded, r)
    BY <1>2, <2>2, <2>3, ForwardBeforeBatch
  <2>6. QED
    BY <1>1, <1>2, <2>1, <2>3, <2>4, <2>5, PostKeepsInvariant
<1>6. QED
  BY <1>4, <1>5

LEMMA ProjectKeepsInvariant == HistoryInvariant /\ Project => HistoryInvariant'
<1> SUFFICES ASSUME HistoryInvariant, Project PROVE HistoryInvariant'
  OBVIOUS
<1> DEFINE answer == Result(IF Loaded.staged THEN "projected" ELSE "error")
<1>1. pc = "plan" /\ Answer(answer) /\ answer.status \in {"projected", "error"}
      /\ UNCHANGED <<fixture, parent>> /\ faults \in 0..MaxFaults
  BY DEF Project, Planning, Result, HistoryInvariant, TypeOK
<1>2. "receipt" \notin files
  BY <1>1 DEF HistoryInvariant, ProcessIsCurrent, ReceiptIsOfASend
<1> HIDE DEF answer
<1>3. QED
  BY <1>1, <1>2, AnswerKeepsInvariant DEF fixture, parent, driver

LEMMA OriginLagsKeepsInvariant == HistoryInvariant /\ OriginLags => HistoryInvariant'
<1> SUFFICES ASSUME HistoryInvariant, OriginLags PROVE HistoryInvariant'
  OBVIOUS
<1> DEFINE n == Loaded.auth + OriginBatch
           r == [Loaded EXCEPT !.auth = n]
<1>1. /\ pc = "plan" /\ Chain[turn] # "reader" /\ Behind > OriginBatch
      /\ Post(r, "done", Incomplete("origin")) /\ Incomplete("origin").status = "incomplete"
      /\ UNCHANGED files
  BY DEF OriginLags, Planning, InTail, Publish, Incomplete
<1>2. /\ Loaded \in Report /\ Prepared(Loaded) /\ Loaded.auth \in Nat /\ Len(loaded) \in Nat
      /\ Behind = Len(loaded) - Loaded.auth
      /\ turn <= 4 => Loaded.batch = "none"
  BY <1>1, PlanFacts
<1>3. n \in Nat /\ n <= Len(loaded) /\ Loaded.auth <= n
  BY <1>1, <1>2, DriversAssumption
<1> HIDE DEF n
<1>4. /\ r \in Report /\ r.auth = n /\ r.batch = Loaded.batch
      /\ r.staged = Loaded.staged /\ r.scan = Loaded.scan
      /\ r = [Loaded EXCEPT !.batch = r.batch, !.auth = r.auth]
  BY <1>2, <1>3 DEF Report
<1>5. Rank[Loaded.batch] \in 0..3
  BY <1>2, ReportFields
<1> HIDE DEF r
<1>6. Forward(Loaded, r)
  <2>1. Rank[Loaded.batch] <= Rank[r.batch]
    BY <1>4, <1>5
  <2>2. Loaded.auth <= r.auth
    BY <1>3, <1>4
  <2>3. QED
    BY <1>4, <2>1, <2>2 DEF Forward
<1>7. Prepared(r)
  BY <1>2, <1>4 DEF Prepared
<1>8. r.auth <= Len(loaded) /\ (turn <= 4 => r.batch = "none")
  BY <1>2, <1>3, <1>4
<1>9. QED
  BY <1>1, <1>4, <1>6, <1>7, <1>8, PostKeepsInvariant

\* The scan goes on: before a batch is prepared, any report may follow.
LEMMA ScanStepKeepsInvariant ==
    ASSUME HistoryInvariant, Planned, Loaded.batch = "none", NEW r, NEW p,
           Publish(r, "done", Incomplete(p)),
           r \in Report, r.auth = Len(loaded), r.batch = "none"
    PROVE  HistoryInvariant'
<1>1. /\ pc = "plan" /\ Chain[turn] # "reader"
      /\ Post(r, "done", Incomplete(p)) /\ Incomplete(p).status = "incomplete"
      /\ UNCHANGED files
  <2>1. pc = "plan" /\ Chain[turn] # "reader"
    BY DEF Planned, Planning, InTail
  <2>2. Post(r, "done", Incomplete(p)) /\ UNCHANGED files
    BY DEF Publish
  <2>3. Incomplete(p).status = "incomplete"
    BY DEF Incomplete
  <2>4. QED
    BY <2>1, <2>2, <2>3
<1>2. Loaded \in Report /\ Loaded.auth <= Len(loaded) /\ Len(loaded) \in Nat
  BY <1>1, PlanFacts
<1>3. Forward(Loaded, r)
  BY <1>2, ForwardBeforeBatch
<1>4. Prepared(r)
  BY DEF Prepared
<1>5. QED
  BY <1>1, <1>2, <1>3, <1>4, PostKeepsInvariant

LEMMA MaintainKeepsInvariant == HistoryInvariant /\ Maintain => HistoryInvariant'
<1> SUFFICES ASSUME HistoryInvariant, Maintain PROVE HistoryInvariant'
  OBVIOUS
<1>1. pc = "plan"
  BY DEF Maintain, Planned, Planning
<1>2. UpToDate \in Report /\ UpToDate = [Loaded EXCEPT !.auth = Len(loaded)] /\ Loaded \in Report
  BY <1>1, PlanFacts
<1> DEFINE r == [UpToDate EXCEPT !.staged = TRUE]
<1>3. Loaded.batch = "none"
  BY DEF Maintain
<1>4. UpToDate.auth = Len(loaded) /\ UpToDate.batch = "none"
  BY <1>2, <1>3 DEF Report
<1>5. r \in Report /\ r.auth = Len(loaded) /\ r.batch = "none"
  BY <1>2, <1>4 DEF Report
<1>6. Publish(r, "done", Incomplete("maintenance"))
  BY DEF Maintain
<1> HIDE DEF r
<1>7. QED
  BY <1>3, <1>5, <1>6, ScanStepKeepsInvariant DEF Maintain

LEMMA ScanPageKeepsInvariant == HistoryInvariant /\ ScanPage => HistoryInvariant'
<1> SUFFICES ASSUME HistoryInvariant, ScanPage PROVE HistoryInvariant'
  OBVIOUS
<1>1. pc = "plan" /\ Planned /\ Loaded.batch = "none"
  BY DEF ScanPage, Scanning, Planned, Planning
<1>2. UpToDate \in Report /\ UpToDate = [Loaded EXCEPT !.auth = Len(loaded)] /\ Loaded \in Report
  BY <1>1, PlanFacts
<1> DEFINE r == [UpToDate EXCEPT !.scan = Append(@, Running.listing)]
<1>3. UpToDate.auth = Len(loaded) /\ UpToDate.batch = "none"
  BY <1>1, <1>2 DEF Report
<1>4. Running.listing \in {"workflow sha", "pr head"}
  <2>1. turn \in DOMAIN Chain
    BY DEF HistoryInvariant, TypeOK
  <2>2. QED
    BY <2>1, DriverKinds, Listings DEF Running
<1>5. Append(UpToDate.scan, Running.listing) \in Seq({"workflow sha", "pr head"})
  <2>1. UpToDate.scan \in Seq({"workflow sha", "pr head"})
    BY <1>2 DEF Report
  <2>2. ASSUME NEW S, NEW old \in Seq(S), NEW e \in S
        PROVE  Append(old, e) \in Seq(S)
    OBVIOUS
  <2>3. QED
    BY <1>4, <2>1, <2>2
<1>6. r \in Report /\ r.auth = Len(loaded) /\ r.batch = "none"
  BY <1>2, <1>3, <1>5 DEF Report
<1>7. Publish(r, "done", Incomplete("pull-requests"))
  BY DEF ScanPage
<1> HIDE DEF r
<1>8. QED
  BY <1>1, <1>6, <1>7, ScanStepKeepsInvariant

LEMMA MembershipShiftsKeepsInvariant == HistoryInvariant /\ MembershipShifts => HistoryInvariant'
<1> SUFFICES ASSUME HistoryInvariant, MembershipShifts PROVE HistoryInvariant'
  OBVIOUS
<1>1. pc = "plan" /\ Planned /\ Loaded.batch = "none"
  BY DEF MembershipShifts, Comparing, Scanning, Planned, Planning
<1>2. UpToDate \in Report /\ UpToDate = [Loaded EXCEPT !.auth = Len(loaded)] /\ Loaded \in Report
  BY <1>1, PlanFacts
<1> DEFINE r == [UpToDate EXCEPT !.scan = <<>>, !.compared = 0]
<1>3. UpToDate.auth = Len(loaded) /\ UpToDate.batch = "none"
  BY <1>1, <1>2 DEF Report
<1>4. <<>> \in Seq({"workflow sha", "pr head"}) /\ 0 \in 0..(Pages - 1)
  BY DriversAssumption
<1>5. r \in Report /\ r.auth = Len(loaded) /\ r.batch = "none"
  BY <1>2, <1>3, <1>4 DEF Report
<1>6. Publish(r, "done", Incomplete("pull-requests"))
  BY DEF MembershipShifts
<1> HIDE DEF r
<1>7. QED
  BY <1>1, <1>5, <1>6, ScanStepKeepsInvariant

LEMMA ComparePageKeepsInvariant == HistoryInvariant /\ ComparePage => HistoryInvariant'
<1> SUFFICES ASSUME HistoryInvariant, ComparePage PROVE HistoryInvariant'
  OBVIOUS
<1>1. pc = "plan" /\ Planned /\ Loaded.batch = "none" /\ Loaded.compared + 1 # Pages
  BY DEF ComparePage, Comparing, Scanning, Planned, Planning, LastPage
<1>2. UpToDate \in Report /\ UpToDate = [Loaded EXCEPT !.auth = Len(loaded)] /\ Loaded \in Report
  BY <1>1, PlanFacts
<1> DEFINE r == [UpToDate EXCEPT !.compared = @ + 1]
<1>3. UpToDate.auth = Len(loaded) /\ UpToDate.batch = "none" /\ UpToDate.compared = Loaded.compared
  BY <1>1, <1>2 DEF Report
<1>4. UpToDate.compared + 1 \in 0..(Pages - 1)
  <2>1. Loaded.compared \in 0..(Pages - 1)
    BY <1>2 DEF Report
  <2>2. QED
    BY <1>1, <1>3, <2>1, DriversAssumption
<1>5. r \in Report /\ r.auth = Len(loaded) /\ r.batch = "none"
  BY <1>2, <1>3, <1>4 DEF Report
<1>6. Publish(r, "done", Incomplete("pull-requests"))
  BY DEF ComparePage
<1> HIDE DEF r
<1>7. QED
  BY <1>1, <1>5, <1>6, ScanStepKeepsInvariant

LEMMA ReconstructionFailsKeepsInvariant ==
    HistoryInvariant /\ ReconstructionFails => HistoryInvariant'
<1> SUFFICES ASSUME HistoryInvariant, ReconstructionFails PROVE HistoryInvariant'
  OBVIOUS
<1>1. /\ pc = "plan" /\ Answer(Result("error")) /\ Result("error").status = "error"
      /\ files' = files \cup {"report"} /\ faults' \in 0..MaxFaults
      /\ UNCHANGED <<ref, clock, foreign, switches, turn, phase, index, outcome, saved,
                     kept, repeats, sends>>
  BY DEF ReconstructionFails, Comparing, Scanning, Planned, Planning, Result, fixture, driver,
         HistoryInvariant, TypeOK
<1>2. QED
  BY <1>1, AnswerKeepsInvariant

\* A batch is prepared over a staged projection and an agreed listing, by a
\* driver that caches comparisons.
LEMMA PrepareKeepsInvariant == HistoryInvariant /\ Prepare => HistoryInvariant'
<1> SUFFICES ASSUME HistoryInvariant, Prepare PROVE HistoryInvariant'
  OBVIOUS
<1> DEFINE n == Len(loaded)
           r == [UpToDate EXCEPT !.batch = "pending"]
<1>1. /\ pc = "plan" /\ Chain[turn] # "reader" /\ Loaded.batch = "none" /\ Loaded.staged
      /\ Running.cached /\ \A p \in 1..Pages : Loaded.scan[p] = "pr head"
      /\ Post(r, "plan", NoResult) /\ files' = files \cup {"report"}
  BY DEF Prepare, Comparing, Scanning, Planned, Planning, InTail
<1>2. /\ Loaded \in Report /\ Loaded.auth \in Nat /\ n \in Nat /\ Loaded.auth <= n
      /\ UpToDate = [Loaded EXCEPT !.auth = n]
  BY <1>1, PlanFacts
<1>3. turn > 4
  <2>1. turn \in DOMAIN Chain
    BY DEF HistoryInvariant, TypeOK
  <2>2. QED
    BY <1>1, <2>1, DriverKinds DEF Running
<1>4. /\ r \in Report /\ r.auth = n /\ r.batch = "pending"
      /\ r.staged = Loaded.staged /\ r.scan = Loaded.scan
  BY <1>2 DEF Report
<1>5. NoResult.status = "none"
  BY DEF NoResult
<1>6. turn \in 1..8
  BY DriverKinds DEF HistoryInvariant, TypeOK
<1> HIDE DEF r
<1>7. Prepared(r)
  BY <1>1, <1>4 DEF Prepared
<1>8. Forward(Loaded, r)
  BY <1>1, <1>2, <1>4, ForwardBeforeBatch
<1>9. r.auth <= Len(loaded) /\ ~ (turn <= 4)
  BY <1>2, <1>3, <1>4, <1>6
<1>10. pc = "plan" /\ files' \in {files, files \cup {"report"}}
  BY <1>1
<1>11. QED
  BY <1>1, <1>4, <1>5, <1>7, <1>8, <1>9, <1>10, PostKeepsInvariant

\* A step of a batch under way.
LEMMA BatchStepKeepsInvariant ==
    ASSUME HistoryInvariant, pc \in {"plan", "confirm"}, Chain[turn] # "reader",
           Loaded.batch # "none", NEW b \in Batches, Rank[Loaded.batch] <= Rank[b],
           NEW next \in {"done", "send"}, NEW answer,
           Publish([UpToDate EXCEPT !.batch = b], next, answer),
           next = "send" => Loaded.batch = "pending" /\ b = "uncertain",
           answer.status \in {"none", "delivered", "not-due"},
           answer.status = "delivered" <=> pc = "confirm",
           pc = "confirm" => b = "confirmed" /\ next = "done"
    PROVE  HistoryInvariant'
<1> DEFINE n == Len(loaded)
           r == [Loaded EXCEPT !.auth = n, !.batch = b]
<1>1. /\ Loaded \in Report /\ Prepared(Loaded) /\ n \in Nat /\ Loaded.auth <= n
      /\ UpToDate = [Loaded EXCEPT !.auth = n]
      /\ turn <= 4 => Loaded.batch = "none"
  BY PlanFacts
<1>2. [UpToDate EXCEPT !.batch = b] = r
  BY <1>1 DEF Report
<1>3. Post(r, next, answer) /\ UNCHANGED files
  BY <1>2 DEF Publish
<1>4. /\ r \in Report /\ r.auth = n /\ r.batch = b
      /\ Forward(Loaded, r) /\ Prepared(r)
  BY <1>1, ForwardOfBatch
<1>5. ~ (turn <= 4)
  BY <1>1
<1>6. r.auth <= Len(loaded)
  BY <1>1, <1>4
<1> HIDE DEF r
<1>7. QED
  BY <1>3, <1>4, <1>5, <1>6, PostKeepsInvariant

LEMMA AnnounceKeepsInvariant == HistoryInvariant /\ Announce => HistoryInvariant'
<1> SUFFICES ASSUME HistoryInvariant, Announce PROVE HistoryInvariant'
  OBVIOUS
<1>1. /\ pc = "plan" /\ Chain[turn] # "reader" /\ Loaded.batch = "pending"
      /\ Publish([UpToDate EXCEPT !.batch = "uncertain"], "send", NoResult)
  BY DEF Announce, Planned, Planning, InTail
<1>2. "uncertain" \in Batches /\ Rank["pending"] <= Rank["uncertain"]
  BY DEF Batches, Rank
<1>3. NoResult.status = "none"
  BY DEF NoResult
<1>4. QED
  BY <1>1, <1>2, <1>3, BatchStepKeepsInvariant

LEMMA ConfirmSentKeepsInvariant == HistoryInvariant /\ ConfirmSent => HistoryInvariant'
<1> SUFFICES ASSUME HistoryInvariant, ConfirmSent PROVE HistoryInvariant'
  OBVIOUS
<1>1. /\ pc = "confirm"
      /\ Publish([UpToDate EXCEPT !.batch = "confirmed"], "done", Result("delivered"))
  BY DEF ConfirmSent, Confirm
<1>2. Loaded.batch = "uncertain" /\ Chain[turn] # "reader"
  BY <1>1, PlanFacts DEF HistoryInvariant, ReceiptIsOfASend, ReaderWritesNothing
<1>3. "confirmed" \in Batches /\ Rank["uncertain"] <= Rank["confirmed"]
  BY DEF Batches, Rank
<1>4. Result("delivered").status = "delivered"
  BY DEF Result
<1>5. QED
  BY <1>1, <1>2, <1>3, <1>4, BatchStepKeepsInvariant

\* A batch found uncertain stays so: no receipt is in the directory of a driver
\* that plans, and its absence proves nothing.
LEMMA RecoverKeepsInvariant == HistoryInvariant /\ Recover => HistoryInvariant'
<1> SUFFICES ASSUME HistoryInvariant, Recover PROVE HistoryInvariant'
  OBVIOUS
<1>1. pc = "plan"
  BY DEF Recover, Planned, Planning
<1>2. "receipt" \notin files /\ faults \in 0..MaxFaults
  BY <1>1 DEF HistoryInvariant, ProcessIsCurrent, ReceiptIsOfASend, TypeOK
<1>3. ~ Lookup.receipt /\ ~ Lookup.authoritative_absence
  BY <1>2 DEF Lookup
<1>4. Answer(Result("error")) /\ UNCHANGED <<fixture, parent>>
  BY <1>3 DEF Recover
<1>5. Result("error").status = "error"
  BY DEF Result
<1>6. QED
  BY <1>1, <1>2, <1>4, <1>5, AnswerKeepsInvariant DEF fixture, parent, driver

LEMMA NotDueKeepsInvariant == HistoryInvariant /\ NotDue => HistoryInvariant'
<1> SUFFICES ASSUME HistoryInvariant, NotDue PROVE HistoryInvariant'
  OBVIOUS
<1>1. /\ pc = "plan" /\ Chain[turn] # "reader" /\ Loaded.batch = "confirmed"
      /\ Publish(UpToDate, "done", Result("not-due"))
  BY DEF NotDue, Planned, Planning, InTail
<1>2. UpToDate \in Report /\ UpToDate.batch = "confirmed"
  BY <1>1, PlanFacts DEF Report
<1>3. UpToDate = [UpToDate EXCEPT !.batch = "confirmed"]
  BY <1>2 DEF Report
<1>4. "confirmed" \in Batches /\ Rank["confirmed"] <= Rank["confirmed"]
  BY DEF Batches, Rank
<1>5. Result("not-due").status = "not-due"
  BY DEF Result
<1>6. QED
  BY <1>1, <1>3, <1>4, <1>5, BatchStepKeepsInvariant

-----------------------------------------------------------------------------
(* The theorems. *)

LEMMA InvariantStep == HistoryInvariant /\ [Next]_vars => HistoryInvariant'
<1> SUFFICES ASSUME HistoryInvariant, [Next]_vars PROVE HistoryInvariant'
  OBVIOUS
<1>1. ASSUME NEW t \in DOMAIN Chain, Start(t)
      PROVE  HistoryInvariant'
  BY <1>1, StartKeepsInvariant
<1>2. CASE DriverStep
  BY <1>2, SpawnKeepsInvariant, LoopExhaustedKeepsInvariant, JudgeKeepsInvariant,
     FinallyKeepsInvariant DEF DriverStep
<1>3. CASE Load \/ Unavailable \/ Patch \/ Reconcile \/ StageOnce \/ Project \/ OriginLags \/ Maintain
  BY <1>3, LoadKeepsInvariant, UnavailableKeepsInvariant, PatchKeepsInvariant,
     ReconcileKeepsInvariant, StageOnceKeepsInvariant, ProjectKeepsInvariant,
     OriginLagsKeepsInvariant, MaintainKeepsInvariant
<1>4. CASE ScanPage \/ MembershipShifts \/ ComparePage \/ ReconstructionFails \/ Prepare
  BY <1>4, ScanPageKeepsInvariant, MembershipShiftsKeepsInvariant, ComparePageKeepsInvariant,
     ReconstructionFailsKeepsInvariant, PrepareKeepsInvariant
<1>5. CASE Announce \/ Send \/ ConfirmSent \/ Recover \/ NotDue
  BY <1>5, AnnounceKeepsInvariant, SendKeepsInvariant, ConfirmSentKeepsInvariant,
     RecoverKeepsInvariant, NotDueKeepsInvariant
<1>6. CASE ChildFails
  BY <1>6, ChildFailsKeepsInvariant
<1>7. CASE DriverLost
  BY <1>7, DriverLostKeepsInvariant
<1>8. CASE UNCHANGED vars
  <2>1. UNCHANGED <<ref, clock, foreign, switches, turn, phase, index, outcome, saved, kept,
                    repeats, pc, then, loaded, reads, posted, result, files, sends, faults>>
    BY <1>8 DEF vars, fixture, driver, child
  <2>2. Sent' = Sent /\ Tip' = Tip
    BY <2>1 DEF Sent, Tip
  <2>3. TypeOK' /\ HistoriesAreSound' /\ NothingIsLost'
    BY <2>1, <2>2 DEF HistoryInvariant, TypeOK, FixtureTypeOK, HistoriesAreSound, NothingIsLost
  <2>4. ProcessIsCurrent' /\ ReaderWritesNothing' /\ AnnouncementIsFresh'
    BY <2>1, <2>2 DEF HistoryInvariant, ProcessIsCurrent, ReaderWritesNothing, AnnouncementIsFresh
  <2>5. ReceiptIsOfASend' /\ EarlyDriversPrepareNothing' /\ PassedIsDelivered'
    BY <2>1, <2>2 DEF HistoryInvariant, ReceiptIsOfASend, EarlyDriversPrepareNothing,
                      PassedIsDelivered, Delivered, Batch, Running
  <2>6. QED
    BY <2>3, <2>4, <2>5 DEF HistoryInvariant
<1>9. QED
  BY <1>1, <1>2, <1>3, <1>4, <1>5, <1>6, <1>7, <1>8 DEF Next, ChildStep

\* The inductive invariant holds, for every listing, bound, bench and number of
\* faults and repeats: see HistoryInvariant.
THEOREM HistoryInvariantHolds == Spec => []HistoryInvariant
<1>1. QED
  BY InitInvariant, InvariantStep, PTL DEF Spec

\* Types, and the bound of the loop: no process runs past it.
THEOREM TypeOKHolds == Spec => []TypeOK
<1>1. HistoryInvariant => TypeOK
  BY DEF HistoryInvariant
<1>2. QED
  BY <1>1, HistoryInvariantHolds, PTL

\* No driver, crash or conflict removes what another worker committed.
THEOREM OthersSurviveHolds == Spec => []OthersSurvive
<1>1. HistoryInvariant => OthersSurvive
  <2> SUFFICES ASSUME HistoryInvariant PROVE OthersSurvive
    OBVIOUS
  <2>1. Sound(ref, clock, foreign, Sent) /\ foreign \subseteq Times(ref)
    BY DEF HistoryInvariant, HistoriesAreSound, NothingIsLost
  <2>2. Len(ref) \in Nat /\ DOMAIN ref = 1..Len(ref) /\ \A i \in DOMAIN ref : ref[i].tree \in Tree
    BY <2>1, SoundShape
  <2>3. \A i \in DOMAIN ref : ref[i].tree["envelope"] = Envelope
    BY <2>2 DEF Tree
  <2>4. ASSUME NEW f \in foreign
        PROVE  \E i \in DOMAIN ref :
                  /\ ref[i].at = f
                  /\ \A j \in i..Len(ref) : ref[j].tree["race"] = RaceFile
    <3>1. PICK i \in DOMAIN ref : ref[i].at = f
      BY <2>1 DEF Times
    <3>2. ref[i].tree["race"] = RaceFile
      BY <2>1, <3>1 DEF Sound
    <3>3. \A j \in i..Len(ref) : j \in DOMAIN ref /\ (i = j \/ i < j)
      BY <2>2
    <3>4. \A j \in i..Len(ref) : ref[j].tree["race"] = RaceFile
      BY <2>1, <3>2, <3>3 DEF Sound
    <3>5. QED
      BY <3>1, <3>4
  <2>5. QED
    BY <2>3, <2>4 DEF OthersSurvive
<1>2. QED
  BY <1>1, HistoryInvariantHolds, PTL

\* A batch never goes back, and what it reports never changes.
THEOREM BatchGoesForwardHolds == Spec => []BatchGoesForward
<1>1. HistoryInvariant => BatchGoesForward
  BY DEF HistoryInvariant, HistoriesAreSound, Sound, BatchGoesForward
<1>2. QED
  BY <1>1, HistoryInvariantHolds, PTL

\* A history of the branch carries at most one send: each is on the commit that
\* made a pending batch uncertain, and a batch is pending but once.
THEOREM OneSendPerHistoryHolds == Spec => []OneSendPerHistory
<1>1. HistoryInvariant => OneSendPerHistory
  <2> SUFFICES ASSUME HistoryInvariant,
                      NEW k \in DOMAIN sends, NEW l \in DOMAIN sends, k # l,
                      {sends[k], sends[l]} \subseteq Times(ref)
               PROVE  FALSE
    BY DEF OneSendPerHistory
  <2>1. Sound(ref, clock, foreign, Sent) /\ sends[k] # sends[l]
    BY DEF HistoryInvariant, HistoriesAreSound, NothingIsLost
  <2>2. PICK a \in DOMAIN ref, b \in DOMAIN ref : ref[a].at = sends[k] /\ ref[b].at = sends[l]
    BY DEF Times
  <2>3. Announced(ref, a) /\ Announced(ref, b) /\ a # b
    BY <2>1, <2>2 DEF Sound, Sent
  <2>4. ASSUME NEW i \in DOMAIN ref, NEW j \in DOMAIN ref, i < j,
               Announced(ref, i), Announced(ref, j)
        PROVE  FALSE
    <3>1. /\ DOMAIN ref = 1..Len(ref) /\ Len(ref) \in Nat
          /\ \A m \in DOMAIN ref : ref[m].tree["report"] \in Report
      BY <2>1, SoundShape
    <3>2. j - 1 \in DOMAIN ref /\ (i = j - 1 \/ i < j - 1)
      BY <2>4, <3>1
    <3>3. /\ ref[i].tree["report"].batch = "uncertain"
          /\ ref[j - 1].tree["report"].batch = "pending"
      BY <2>4 DEF Announced
    <3>4. i < j - 1
      BY <3>2, <3>3
    <3>5. Rank[ref[i].tree["report"].batch] <= Rank[ref[j - 1].tree["report"].batch]
      BY <2>1, <3>2, <3>4 DEF Sound, Forward
    <3>6. QED
      BY <3>3, <3>5 DEF Rank
  <2>5. a \in Nat /\ b \in Nat
    BY <2>1, SoundShape
  <2>6. QED
    BY <2>3, <2>4, <2>5
<1>2. QED
  BY <1>1, HistoryInvariantHolds, PTL

\* A driver that ended in "delivered" has left the proof of the delivery.
THEOREM PassedIsBackedHolds == Spec => []PassedIsBacked
<1>1. HistoryInvariant => PassedIsBacked
  <2> SUFFICES ASSUME HistoryInvariant, phase = "idle", outcome = "passed",
                      Running.ends = {"delivered"}
               PROVE  LET r == Last(saved).tree["report"]
                      IN  /\ r.batch = "confirmed"
                          /\ \E i \in DOMAIN sends : sends[i] \in Times(saved)
                          /\ \A p \in 1..Pages : r.scan[p] = "pr head"
                          /\ "receipt" \in kept
    BY DEF PassedIsBacked
  <2>1. "receipt" \in kept /\ Delivered(saved)
    BY DEF HistoryInvariant, PassedIsDelivered
  <2>2. Sound(saved, clock, foreign, Sent)
    BY DEF HistoryInvariant, HistoriesAreSound
  <2>3. Last(saved) = saved[Len(saved)] /\ Len(saved) \in DOMAIN saved
    BY <2>2, SoundShape
  <2>4. Prepared(Last(saved).tree["report"])
    BY <2>2, <2>3 DEF Sound
  <2>5. Last(saved).tree["report"].batch = "confirmed" /\ Sent \cap Times(saved) # {}
    BY <2>1 DEF Delivered, Batch
  <2>6. \E i \in DOMAIN sends : sends[i] \in Times(saved)
    BY <2>5 DEF Sent
  <2>7. \A p \in 1..Pages : Last(saved).tree["report"].scan[p] = "pr head"
    BY <2>4, <2>5 DEF Prepared
  <2>8. QED
    BY <2>1, <2>5, <2>6, <2>7
<1>2. QED
  BY <1>1, HistoryInvariantHolds, PTL

-----------------------------------------------------------------------------
(* Sets of positions. *)

\* A nonempty family of subsets of a finite set has a member that contains no other.
LEMMA MinimalSubset ==
    ASSUME NEW D, IsFiniteSet(D), NEW F, F # {}, \A s \in F : s \subseteq D
    PROVE  \E s \in F : \A t \in F : t \subseteq s => t = s
<1>1. IsWellFoundedOn(StrictSubsetOrdering(D), FiniteSubsetsOf(D))
  BY FS_StrictSubsetOrderingWellFounded
<1>2. FiniteSubsetsOf(D) = SUBSET D
  BY FS_FiniteSubsetsOfFinite
<1>3. PICK s \in F : \A t \in F : ~ (<<t, s>> \in StrictSubsetOrdering(D))
  BY <1>1, <1>2, WFMin
<1>4. \A t \in F : t \subseteq s => t = s
  BY <1>3 DEF StrictSubsetOrdering
<1>5. QED
  BY <1>4

\* A nonempty set of positions has a last one, and only one.
Greatest(s) == CHOOSE x \in s : \A y \in s : x >= y
LEMMA LastPosition ==
    ASSUME NEW n \in Nat, NEW s \in SUBSET (1..n), s # {}
    PROVE  Greatest(s) \in s /\ \A j \in s : Greatest(s) >= j
<1> DEFINE After(x) == {j \in s : j > x}
           F == {After(x) : x \in s}
<1>1. IsFiniteSet(1..n)
  BY FS_Interval
<1>2. F # {} /\ \A S \in F : S \subseteq 1..n
  OBVIOUS
<1>3. PICK S \in F : \A t \in F : t \subseteq S => t = S
  <2> HIDE DEF F
  <2> QED
    BY <1>1, <1>2, MinimalSubset
<1>4. PICK x \in s : S = After(x)
  OBVIOUS
<1>5. \A y \in s : x >= y
  <2> SUFFICES ASSUME NEW y \in s, y > x
               PROVE  FALSE
    OBVIOUS
  <2>1. After(y) \in F
    OBVIOUS
  <2>2. After(y) \subseteq After(x) /\ y \in After(x) /\ y \notin After(y)
    <3> HIDE DEF F
    <3>1. x \in Int /\ y \in Int /\ \A j \in s : j \in Int
      OBVIOUS
    <3>2. \A j \in s : j > y => j > x
      BY <3>1
    <3>3. ~ (y > y)
      BY <3>1
    <3>4. QED
      BY <3>2, <3>3
  <2>3. After(y) = After(x)
    BY <1>3, <1>4, <2>1, <2>2
  <2>4. QED
    BY <2>2, <2>3
<1>6. QED
  BY <1>5 DEF Greatest

-----------------------------------------------------------------------------
(* The total of a cache: what the fold over its entries computes.  The
   units of an entry are as many as its bytes; the fold counts the units
   at a set of positions. *)

Sizes(e) == \A i \in DOMAIN e : e[i].size \in Nat
Units(e, s) == UNION {{i} \X (1..e[i].size) : i \in s}
SizeOf(e, s) == Cardinality(Units(e, s))

\* A unit is a position and a byte of its entry.
LEMMA UnitOf ==
    ASSUME NEW e, NEW s, NEW u
    PROVE  u \in Units(e, s) <=> \E i \in s : \E b \in 1..e[i].size : u = <<i, b>>
  BY DEF Units

\* One entry has as many units as bytes.
LEMMA UnitsOfOne ==
    ASSUME NEW e, NEW m, e[m].size \in Nat
    PROVE  IsFiniteSet(Units(e, {m})) /\ SizeOf(e, {m}) = e[m].size
<1> DEFINE n == e[m].size
<1>1. Units(e, {m}) = {m} \X (1..n)
  BY DEF Units
<1>2. IsFiniteSet(1..n) /\ Cardinality(1..n) = n
  <2>1. \A k \in Nat : IsFiniteSet(1..k) /\ Cardinality(1..k) = k
    BY FS_Interval
  <2>2. QED
    BY <2>1
<1>3. IsFiniteSet({m}) /\ Cardinality({m}) = 1
  BY FS_Singleton
<1>4. IsFiniteSet({m} \X (1..n)) /\ Cardinality({m} \X (1..n)) = 1 * n
  <2> DEFINE a == {m}
             b == 1..n
  <2>1. IsFiniteSet(a) /\ IsFiniteSet(b) /\ Cardinality(a) = 1 /\ Cardinality(b) = n
    BY <1>2, <1>3
  <2> HIDE DEF a, b, n
  <2>2. IsFiniteSet(a \X b) /\ Cardinality(a \X b) = 1 * n
    BY <2>1, FS_Product
  <2>3. QED
    BY <2>2 DEF a, b
<1>5. 1 * n = n
  OBVIOUS
<1>6. QED
  <2> HIDE DEF n
  <2> QED
    BY <1>1, <1>4, <1>5 DEF SizeOf, n

\* Sizes of disjoint sets of positions add up.
LEMMA UnitsAddUp ==
    ASSUME NEW e, NEW s, NEW t, s \cap t = {},
           IsFiniteSet(Units(e, s)), IsFiniteSet(Units(e, t))
    PROVE  /\ IsFiniteSet(Units(e, s \cup t))
           /\ SizeOf(e, s \cup t) = SizeOf(e, s) + SizeOf(e, t)
<1>1. Units(e, s \cup t) = Units(e, s) \cup Units(e, t)
  BY UnitOf
<1>2. Units(e, s) \cap Units(e, t) = {}
  BY UnitOf
<1>3. Cardinality({}) = 0
  BY FS_EmptySet
<1>4. Cardinality(Units(e, s)) \in Nat /\ Cardinality(Units(e, t)) \in Nat
  BY FS_CardinalityType
<1>5. IsFiniteSet(Units(e, s) \cup Units(e, t))
      /\ Cardinality(Units(e, s) \cup Units(e, t)) =
            Cardinality(Units(e, s)) + Cardinality(Units(e, t))
               - Cardinality(Units(e, s) \cap Units(e, t))
  BY FS_Union
<1>6. Cardinality(Units(e, s \cup t)) = Cardinality(Units(e, s)) + Cardinality(Units(e, t))
  <2>1. Cardinality(Units(e, s) \cap Units(e, t)) = 0
    BY <1>2, <1>3
  <2>2. \A a, b \in Nat : a + b - 0 = a + b
    OBVIOUS
  <2>3. QED
    BY <1>1, <1>4, <1>5, <2>1, <2>2
<1>7. QED
  BY <1>1, <1>5, <1>6 DEF SizeOf

\* The entries at finitely many positions have finitely many units.
LEMMA UnitsAreFinite ==
    ASSUME NEW e, Sizes(e), NEW s \in SUBSET DOMAIN e, IsFiniteSet(DOMAIN e)
    PROVE  IsFiniteSet(Units(e, s)) /\ SizeOf(e, s) \in Nat
<1> DEFINE D == DOMAIN e
           F == {t \in SUBSET D : ~ IsFiniteSet(Units(e, t))}
<1>1. F = {}
  <2> SUFFICES ASSUME F # {}
               PROVE  FALSE
    OBVIOUS
  <2>1. PICK t \in F : \A r \in F : r \subseteq t => r = t
    <3>1. \A r \in F : r \subseteq D
      OBVIOUS
    <3> HIDE DEF F
    <3> QED
      BY <3>1, MinimalSubset
  <2>2. Units(e, {}) = {}
    BY DEF Units
  <2>3. t # {}
    BY <2>2, FS_EmptySet
  <2>4. PICK m \in t : TRUE
    BY <2>3
  <2>5. IsFiniteSet(Units(e, t \ {m}))
    BY <2>1
  <2>6. IsFiniteSet(Units(e, {m}))
    BY UnitsOfOne DEF Sizes
  <2>7. (t \ {m}) \cup {m} = t
    OBVIOUS
  <2>8. QED
    BY <2>5, <2>6, <2>7, UnitsAddUp
<1>2. QED
  BY <1>1, FS_CardinalityType DEF SizeOf

\* What FoldLeft chooses for the total: a function on the sets of positions.
TotalFolds(g, e) ==
    g = [s \in SUBSET DOMAIN e |->
           IF s = {} THEN 0 ELSE g[s \ {Greatest(s)}] + e[Greatest(s)].size]

\* The fold is the value of such a function at all the positions.
LEMMA TotalIsChosen ==
    ASSUME NEW e
    PROVE  BytesOf(e) = (CHOOSE g : TotalFolds(g, e))[DOMAIN e]
  BY DEF BytesOf, FoldLeft, MapThenFoldSet, TotalFolds, Greatest, Max

\* There is but one: a smallest set on which two differ would have a smaller one.
LEMMA TotalIsUnique ==
    ASSUME NEW S, NEW e \in Seq(S), NEW g, NEW h, TotalFolds(g, e), TotalFolds(h, e)
    PROVE  g = h
<1> DEFINE D == DOMAIN e
           F == {s \in SUBSET D : g[s] # h[s]}
<1>1. Len(e) \in Nat /\ D = 1..Len(e) /\ IsFiniteSet(D)
  <2>1. Len(e) \in Nat /\ D = 1..Len(e)
    OBVIOUS
  <2>2. IsFiniteSet(1..Len(e))
    BY <2>1, FS_Interval
  <2>3. QED
    BY <2>1, <2>2
<1>2. F = {}
  <2> SUFFICES ASSUME F # {}
               PROVE  FALSE
    OBVIOUS
  <2>1. PICK s \in F : \A t \in F : t \subseteq s => t = s
    <3>1. \A s \in F : s \subseteq D
      OBVIOUS
    <3> HIDE DEF F
    <3> QED
      BY <1>1, <3>1, MinimalSubset
  <2>2. s # {}
    BY DEF TotalFolds
  <2>3. Greatest(s) \in s
    BY <1>1, <2>2, LastPosition
  <2>4. g[s \ {Greatest(s)}] = h[s \ {Greatest(s)}]
    BY <2>1, <2>3
  <2>5. g[s] = h[s]
    BY <2>2, <2>4 DEF TotalFolds
  <2>6. QED
    BY <2>5
<1>3. QED
  BY <1>2 DEF TotalFolds

\* The total is the number of units.
LEMMA TotalIsSize ==
    ASSUME NEW S, NEW e \in Seq(S), Sizes(e)
    PROVE  BytesOf(e) = SizeOf(e, DOMAIN e) /\ BytesOf(e) \in Nat
<1> DEFINE w == [s \in SUBSET DOMAIN e |-> SizeOf(e, s)]
           g == CHOOSE h : TotalFolds(h, e)
<1>0. Len(e) \in Nat /\ DOMAIN e = 1..Len(e) /\ IsFiniteSet(DOMAIN e)
  <2>1. Len(e) \in Nat /\ DOMAIN e = 1..Len(e)
    OBVIOUS
  <2>2. IsFiniteSet(1..Len(e))
    BY <2>1, FS_Interval
  <2>3. QED
    BY <2>1, <2>2
<1>1. SizeOf(e, {}) = 0
  <2>1. Units(e, {}) = {}
    BY DEF Units
  <2>2. QED
    BY <2>1, FS_EmptySet DEF SizeOf
<1>2. ASSUME NEW s \in SUBSET DOMAIN e, s # {}
      PROVE  SizeOf(e, s) = SizeOf(e, s \ {Greatest(s)}) + e[Greatest(s)].size
  <2> DEFINE m == Greatest(s)
             t == s \ {m}
  <2>1. m \in s
    BY <1>0, <1>2, LastPosition
  <2> HIDE DEF m
  <2>2. s = t \cup {m} /\ t \cap {m} = {} /\ t \in SUBSET DOMAIN e /\ e[m].size \in Nat
    BY <2>1 DEF Sizes
  <2>3. IsFiniteSet(Units(e, t)) /\ IsFiniteSet(Units(e, {m})) /\ SizeOf(e, {m}) = e[m].size
    BY <1>0, <2>2, UnitsAreFinite, UnitsOfOne
  <2>4. SizeOf(e, t \cup {m}) = SizeOf(e, t) + SizeOf(e, {m})
    BY <2>2, <2>3, UnitsAddUp
  <2>5. QED
    BY <2>2, <2>3, <2>4 DEF m
<1>3. TotalFolds(w, e)
  <2>1. ASSUME NEW s \in SUBSET DOMAIN e, s # {}
        PROVE  w[s] = w[s \ {Greatest(s)}] + e[Greatest(s)].size
    BY <1>2, <2>1
  <2>2. w[{}] = 0
    BY <1>1
  <2>3. QED
    BY <2>1, <2>2 DEF TotalFolds
<1>4. TotalFolds(g, e)
  BY <1>3
<1>5. g = w
  <2> HIDE DEF g, w
  <2> QED
    BY <1>3, <1>4, TotalIsUnique
<1>6. w[DOMAIN e] = SizeOf(e, DOMAIN e)
  OBVIOUS
<1>7. SizeOf(e, DOMAIN e) \in Nat
  BY <1>0, UnitsAreFinite
<1>8. QED
  BY <1>5, <1>6, <1>7, TotalIsChosen

\* p finds each entry of f, or one as large, at the positions s of e.
Finds(p, f, e, s) ==
    /\ p \in [DOMAIN f -> s]
    /\ \A i, j \in DOMAIN f : p[i] = p[j] => i = j
    /\ \A k \in s : \E i \in DOMAIN f : p[i] = k
    /\ \A i \in DOMAIN f : f[i].size = e[p[i]].size

\* The total depends on the sizes, not on the positions.
LEMMA TotalIsTransported ==
    ASSUME NEW S, NEW e \in Seq(S), NEW f \in Seq(S), Sizes(e), Sizes(f),
           NEW s \in SUBSET DOMAIN e, NEW p, Finds(p, f, e, s)
    PROVE  BytesOf(f) = SizeOf(e, s)
<1> DEFINE U == Units(f, DOMAIN f)
           V == Units(e, s)
           q == [u \in U |-> <<p[u[1]], u[2]>>]
<1>0. /\ p \in [DOMAIN f -> s]
      /\ \A i, j \in DOMAIN f : p[i] = p[j] => i = j
      /\ \A k \in s : \E i \in DOMAIN f : p[i] = k
      /\ \A i \in DOMAIN f : f[i].size = e[p[i]].size
  BY DEF Finds
<1>1. /\ Len(f) \in Nat /\ DOMAIN f = 1..Len(f) /\ IsFiniteSet(DOMAIN f)
  <2>1. Len(f) \in Nat /\ DOMAIN f = 1..Len(f)
    OBVIOUS
  <2>2. IsFiniteSet(1..Len(f))
    BY <2>1, FS_Interval
  <2>3. QED
    BY <2>1, <2>2
<1>2. IsFiniteSet(U)
  BY <1>1, UnitsAreFinite
<1>3. ASSUME NEW u \in U
      PROVE  /\ u = <<u[1], u[2]>> /\ u[1] \in DOMAIN f
             /\ u[2] \in 1..f[u[1]].size /\ q[u] \in V
  <2>1. PICK i \in DOMAIN f : \E b \in 1..f[i].size : u = <<i, b>>
    BY UnitOf
  <2>2. PICK b \in 1..f[i].size : u = <<i, b>>
    BY <2>1
  <2>3. u[1] = i /\ u[2] = b
    BY <2>2
  <2>4. p[i] \in s /\ b \in 1..e[p[i]].size /\ q[u] = <<p[i], b>>
    BY <1>0, <2>3
  <2>5. q[u] \in V
    BY <2>4, UnitOf
  <2>6. QED
    BY <2>2, <2>3, <2>5
<1>4. ASSUME NEW u \in U, NEW v \in U, q[u] = q[v]
      PROVE  u = v
  <2>1. p[u[1]] = p[v[1]] /\ u[2] = v[2]
    BY <1>4
  <2>2. /\ u[1] \in DOMAIN f /\ u = <<u[1], u[2]>>
        /\ v[1] \in DOMAIN f /\ v = <<v[1], v[2]>>
    <3> HIDE DEF U, V, q
    <3> QED
      BY <1>3
  <2> HIDE DEF U, V, q
  <2>3. u[1] = v[1]
    BY <1>0, <2>1, <2>2
  <2>4. QED
    BY <2>1, <2>2, <2>3
<1>5. ASSUME NEW v \in V
      PROVE  \E u \in U : q[u] = v
  <2>1. PICK k \in s : \E b \in 1..e[k].size : v = <<k, b>>
    BY UnitOf
  <2>2. PICK b \in 1..e[k].size : v = <<k, b>>
    BY <2>1
  <2>3. PICK i \in DOMAIN f : p[i] = k
    BY <1>0
  <2>4. b \in 1..f[i].size
    BY <1>0, <2>3
  <2>5. <<i, b>> \in U
    BY <2>4, UnitOf
  <2>6. q[<<i, b>>] = <<k, b>>
    BY <2>3, <2>5
  <2>7. QED
    BY <2>2, <2>5, <2>6
<1>6. ExistsBijection(U, V)
  <2>1. q \in [U -> V]
    BY <1>3
  <2> HIDE DEF q, U, V
  <2>2. q \in Bijection(U, V)
    BY <1>4, <1>5, <2>1 DEF Bijection, Injection, Surjection, IsInjective
  <2>3. QED
    BY <2>2 DEF ExistsBijection
<1>7. Cardinality(V) = Cardinality(U)
  <2> HIDE DEF U, V
  <2> QED
    BY <1>2, <1>6, FS_Bijection
<1>8. QED
  BY <1>7, TotalIsSize DEF SizeOf


\* A new entry adds its size.
LEMMA TotalOfAppend ==
    ASSUME NEW S, NEW e \in Seq(S), Sizes(e), NEW x \in S, x.size \in Nat
    PROVE  BytesOf(Append(e, x)) = BytesOf(e) + x.size
<1> DEFINE n == Len(e)
           f == Append(e, x)
           p == [i \in DOMAIN e |-> i]
<1>1. /\ n \in Nat /\ DOMAIN e = 1..n
      /\ f \in Seq(S) /\ DOMAIN f = (1..n) \cup {n + 1} /\ n + 1 \notin 1..n
      /\ f[n + 1] = x /\ \A i \in 1..n : f[i] = e[i]
  OBVIOUS
<1>2. Sizes(f) /\ IsFiniteSet(DOMAIN f)
  <2>1. Sizes(f)
    BY <1>1 DEF Sizes
  <2> HIDE DEF n, f
  <2>2. IsFiniteSet(1..n)
    BY <1>1, FS_Interval
  <2>3. IsFiniteSet((1..n) \cup {n + 1})
    BY <2>2, FS_AddElement
  <2>4. QED
    BY <1>1, <2>1, <2>3
<1> HIDE DEF n, f
<1>3. BytesOf(e) = SizeOf(f, 1..n)
  <2> DEFINE s == 1..n
  <2>1. Finds(p, e, f, s)
    BY <1>1 DEF Finds
  <2>2. f \in Seq(S) /\ s \in SUBSET DOMAIN f
    BY <1>1
  <2> HIDE DEF p, s
  <2>3. BytesOf(e) = SizeOf(f, s)
    BY <1>2, <2>1, <2>2, TotalIsTransported
  <2>4. QED
    BY <2>3 DEF s
<1>4. SizeOf(f, {n + 1}) = x.size /\ IsFiniteSet(Units(f, {n + 1}))
  BY <1>1, UnitsOfOne
<1>5. IsFiniteSet(Units(f, 1..n))
  BY <1>1, <1>2, UnitsAreFinite
<1>6. SizeOf(f, (1..n) \cup {n + 1}) = SizeOf(f, 1..n) + SizeOf(f, {n + 1})
  <2>1. (1..n) \cap {n + 1} = {}
    BY <1>1
  <2>2. QED
    BY <1>4, <1>5, <2>1, UnitsAddUp
<1>7. BytesOf(f) = SizeOf(f, (1..n) \cup {n + 1})
  BY <1>1, <1>2, TotalIsSize
<1>8. QED
  BY <1>3, <1>4, <1>6, <1>7 DEF f

\* The oldest k entries and the others make the total.
LEMMA TotalOfParts ==
    ASSUME NEW S, NEW e \in Seq(S), Sizes(e), NEW k \in 0..Len(e)
    PROVE  LET old == SubSeq(e, 1, k)
               new == SubSeq(e, k + 1, Len(e))
           IN  /\ old \in Seq(S) /\ Sizes(old)
               /\ new \in Seq(S) /\ Sizes(new) /\ Len(new) = Len(e) - k
               /\ DOMAIN new = 1..(Len(e) - k)
               /\ \A i \in DOMAIN new : i + k \in DOMAIN e /\ new[i] = e[i + k]
               /\ BytesOf(old) \in Nat /\ BytesOf(new) \in Nat
               /\ BytesOf(e) = BytesOf(old) + BytesOf(new)
<1> DEFINE n == Len(e)
           old == SubSeq(e, 1, k)
           new == SubSeq(e, k + 1, n)
           L == 1..k
           R == (k + 1)..n
           p == [i \in DOMAIN old |-> i]
           q == [i \in DOMAIN new |-> i + k]
<1>1. n \in Nat /\ k \in Nat /\ k <= n /\ DOMAIN e = 1..n /\ \A i \in 1..n : e[i] \in S
  OBVIOUS
<1>2. old \in Seq(S) /\ DOMAIN old = L /\ \A i \in L : old[i] = e[i]
  <2>1. \A i \in 1..k : e[i] \in S
    BY <1>1
  <2>2. Len(old) = k /\ old \in Seq(S) /\ \A i \in 1..k : old[i] = e[i]
    BY <1>1, <2>1, SubSeqProperties
  <2>3. QED
    BY <2>2
<1>3. /\ new \in Seq(S) /\ Len(new) = n - k /\ DOMAIN new = 1..(n - k)
      /\ \A i \in 1..(n - k) : i + k \in 1..n /\ i + k \in R /\ new[i] = e[i + k]
  <2>1. \A i \in (k + 1)..n : e[i] \in S
    BY <1>1
  <2>2. /\ new \in Seq(S)
        /\ Len(new) = IF k + 1 <= n THEN n - (k + 1) + 1 ELSE 0
        /\ \A i \in 1..(n - (k + 1) + 1) : new[i] = e[(k + 1) + i - 1]
    BY <1>1, <2>1, SubSeqProperties
  <2> HIDE DEF n, new
  <2>3. n - (k + 1) + 1 = n - k /\ (k + 1 <= n \/ n - k = 0)
    BY <1>1
  <2>4. Len(new) = n - k
    BY <1>1, <2>2, <2>3
  <2>5. \A i \in 1..(n - k) : i + k \in R /\ i + k \in 1..n /\ (k + 1) + i - 1 = i + k
    BY <1>1
  <2>6. DOMAIN new = 1..(n - k)
    BY <2>2, <2>4
  <2>7. ASSUME NEW i \in 1..(n - k)
        PROVE  new[i] = e[i + k]
    BY <2>2, <2>3, <2>5, <2>7
  <2>8. QED
    BY <2>2, <2>4, <2>5, <2>6, <2>7
<1> HIDE DEF n
<1>4. /\ L \cap R = {} /\ L \cup R = DOMAIN e
      /\ L \in SUBSET DOMAIN e /\ R \in SUBSET DOMAIN e /\ IsFiniteSet(DOMAIN e)
  <2>1. L \cap R = {} /\ L \cup R = 1..n
    BY <1>1
  <2>2. IsFiniteSet(1..n)
    BY <1>1, FS_Interval
  <2>3. QED
    BY <1>1, <2>1, <2>2
<1>5. Sizes(old) /\ Sizes(new)
  BY <1>1, <1>2, <1>3 DEF Sizes
<1> HIDE DEF old, new
<1>6. BytesOf(old) = SizeOf(e, L)
  <2>1. Finds(p, old, e, L)
    BY <1>2 DEF Finds
  <2>2. old \in Seq(S) /\ Sizes(old) /\ L \in SUBSET DOMAIN e
    BY <1>2, <1>4, <1>5
  <2> HIDE DEF p, L
  <2>3. QED
    BY <2>1, <2>2, TotalIsTransported
<1>7. BytesOf(new) = SizeOf(e, R)
  <2>1. q \in [DOMAIN new -> R]
    BY <1>3
  <2>2. \A i, j \in DOMAIN new : q[i] = q[j] => i = j
    BY <1>1, <1>3
  <2>3. \A m \in R : \E i \in DOMAIN new : q[i] = m
    <3>1. \A m \in R : m - k \in 1..(n - k) /\ (m - k) + k = m
      BY <1>1
    <3>2. QED
      BY <1>3, <3>1
  <2>4. \A i \in DOMAIN new : new[i].size = e[q[i]].size
    BY <1>3
  <2>5. Finds(q, new, e, R)
    BY <2>1, <2>2, <2>3, <2>4 DEF Finds
  <2>6. new \in Seq(S) /\ Sizes(new) /\ R \in SUBSET DOMAIN e
    BY <1>3, <1>4, <1>5
  <2> HIDE DEF q, R
  <2>7. QED
    BY <2>5, <2>6, TotalIsTransported
<1>8. IsFiniteSet(Units(e, L)) /\ IsFiniteSet(Units(e, R))
  BY <1>4, UnitsAreFinite
<1>9. SizeOf(e, L \cup R) = SizeOf(e, L) + SizeOf(e, R)
  BY <1>4, <1>8, UnitsAddUp
<1>10. BytesOf(e) = SizeOf(e, L \cup R)
  BY <1>4, TotalIsSize
<1>11. BytesOf(old) \in Nat /\ BytesOf(new) \in Nat
  BY <1>2, <1>3, <1>5, TotalIsSize
<1>12. QED
  BY <1>1, <1>2, <1>3, <1>5, <1>6, <1>7, <1>9, <1>10, <1>11 DEF old, new

\* A hit makes an entry the youngest; the total stays.
LEMMA TotalOfYoungest ==
    ASSUME NEW S, NEW e \in Seq(S), Sizes(e), NEW i \in DOMAIN e
    PROVE  LET f == Append(RemoveAt(e, i), e[i])
           IN  /\ f \in Seq(S) /\ BytesOf(f) = BytesOf(e)
               /\ \E p \in [DOMAIN f -> DOMAIN e] :
                     /\ \A j, k \in DOMAIN f : p[j] = p[k] => j = k
                     /\ \A j \in DOMAIN f : f[j] = e[p[j]]
<1> DEFINE n == Len(e)
           l == SubSeq(e, 1, i - 1)
           r == SubSeq(e, i + 1, n)
           f == Append(RemoveAt(e, i), e[i])
           p == [j \in 1..n |-> IF j < i THEN j ELSE IF j < n THEN j + 1 ELSE i]
<1>1. n \in Nat /\ i \in Nat /\ 1 <= i /\ i <= n /\ DOMAIN e = 1..n /\ \A j \in 1..n : e[j] \in S
  OBVIOUS
<1>2. l \in Seq(S) /\ Len(l) = i - 1 /\ \A j \in 1..(i - 1) : l[j] = e[j]
  <2>1. i - 1 \in 0..Len(e)
    BY <1>1
  <2>2. \A j \in 1..(i - 1) : e[j] \in S
    BY <1>1
  <2>3. QED
    BY <1>1, <2>1, <2>2, SubSeqProperties
<1>3. r \in Seq(S) /\ Len(r) = n - i /\ \A j \in 1..(n - i) : r[j] = e[j + i]
  <2>1. /\ r \in Seq(S) /\ Len(r) = n - i /\ DOMAIN r = 1..(n - i)
        /\ \A j \in DOMAIN r : r[j] = e[j + i]
    <3>1. i \in 0..Len(e)
      BY <1>1
    <3>2. QED
      BY <3>1, TotalOfParts
  <2>2. QED
    BY <2>1
<1>4. RemoveAt(e, i) = l \o r
  BY DEF RemoveAt
<1> HIDE DEF l, r
<1>5. /\ l \o r \in Seq(S) /\ Len(l \o r) = n - 1
      /\ \A j \in 1..(i - 1) : (l \o r)[j] = e[j]
      /\ \A j \in i..(n - 1) : (l \o r)[j] = e[j + 1]
  <2> HIDE DEF n
  <2>1. /\ l \o r \in Seq(S) /\ Len(l \o r) = Len(l) + Len(r)
        /\ \A j \in 1..(Len(l) + Len(r)) :
              (l \o r)[j] = IF j <= Len(l) THEN l[j] ELSE r[j - Len(l)]
    BY <1>2, <1>3, ConcatProperties
  <2>2. Len(l) + Len(r) = n - 1
    BY <1>1, <1>2, <1>3
  <2>3. ASSUME NEW j \in 1..(i - 1)
        PROVE  (l \o r)[j] = e[j]
    BY <1>1, <1>2, <2>1, <2>2
  <2>4. ASSUME NEW j \in i..(n - 1)
        PROVE  (l \o r)[j] = e[j + 1]
    <3>1. /\ j \in 1..(n - 1) /\ ~ (j <= i - 1)
          /\ j - (i - 1) \in 1..(n - i) /\ (j - (i - 1)) + i = j + 1
      BY <1>1
    <3>2. QED
      BY <1>2, <1>3, <2>1, <2>2, <3>1
  <2>5. QED
    BY <2>1, <2>2, <2>3, <2>4
<1>6. /\ f \in Seq(S) /\ DOMAIN f = 1..n /\ f[n] = e[i]
      /\ \A j \in 1..(n - 1) : f[j] = (l \o r)[j]
  <2>1. f = Append(l \o r, e[i]) /\ e[i] \in S
    BY <1>1, <1>4
  <2> HIDE DEF f, n
  <2>2. (n - 1) + 1 = n
    BY <1>1
  <2>3. QED
    BY <1>5, <2>1, <2>2
<1> HIDE DEF f, n
<1>7. ASSUME NEW j \in 1..n
      PROVE  p[j] \in 1..n /\ f[j] = e[p[j]]
  <2>1. CASE j < i
    <3>1. p[j] = j /\ j \in 1..(n - 1) /\ j \in 1..(i - 1)
      BY <1>1, <2>1
    <3>2. QED
      BY <1>5, <1>6, <3>1
  <2>2. CASE ~ (j < i) /\ j < n
    <3>1. p[j] = j + 1 /\ j + 1 \in 1..n /\ j \in 1..(n - 1) /\ j \in i..(n - 1)
      BY <1>1, <2>2
    <3>2. QED
      BY <1>5, <1>6, <3>1
  <2>3. CASE j = n
    <3>1. p[j] = i
      BY <1>1, <2>3
    <3>2. QED
      BY <1>1, <1>6, <2>3, <3>1
  <2>4. QED
    BY <1>1, <2>1, <2>2, <2>3
<1>8. ASSUME NEW j \in 1..n, NEW k \in 1..n, p[j] = p[k]
      PROVE  j = k
  <2>1. /\ p[j] = IF j < i THEN j ELSE IF j < n THEN j + 1 ELSE i
        /\ p[k] = IF k < i THEN k ELSE IF k < n THEN k + 1 ELSE i
    OBVIOUS
  <2> HIDE DEF p
  <2>2. (IF j < i THEN j ELSE IF j < n THEN j + 1 ELSE i)
           = IF k < i THEN k ELSE IF k < n THEN k + 1 ELSE i
    BY <1>8, <2>1
  <2>3. n \in Nat /\ i \in 1..n
    BY <1>1
  <2>4. CASE j < i
    BY <2>2, <2>3, <2>4
  <2>5. CASE ~ (j < i) /\ j < n
    <3>1. j + 1 = IF k < i THEN k ELSE IF k < n THEN k + 1 ELSE i
      BY <2>2, <2>5
    <3>2. j \in Int /\ k \in Int /\ i \in Int /\ j >= i
      BY <2>3, <2>5
    <3>3. CASE k < i
      BY <3>1, <3>2, <3>3
    <3>4. CASE ~ (k < i) /\ k < n
      <4>1. j + 1 = k + 1
        BY <3>1, <3>4
      <4>2. QED
        BY <3>2, <4>1
    <3>5. CASE ~ (k < i) /\ ~ (k < n)
      <4>1. j + 1 = i
        BY <3>1, <3>5
      <4>2. QED
        BY <3>2, <4>1
    <3>6. QED
      BY <3>3, <3>4, <3>5
  <2>6. CASE ~ (j < i) /\ ~ (j < n)
    BY <2>2, <2>3, <2>6
  <2>7. QED
    BY <2>4, <2>5, <2>6
<1>9. \A k \in 1..n : \E j \in 1..n : p[j] = k
  <2> SUFFICES ASSUME NEW k \in 1..n
               PROVE  \E j \in 1..n : p[j] = k
    OBVIOUS
  <2>1. CASE k < i
    <3>1. p[k] = k
      BY <2>1
    <3>2. QED
      BY <3>1
  <2>2. CASE k = i
    <3>1. n \in 1..n /\ p[n] = i
      BY <1>1
    <3>2. QED
      BY <2>2, <3>1
  <2>3. CASE k > i
    <3>1. k - 1 \in 1..n /\ p[k - 1] = k
      BY <1>1, <2>3
    <3>2. QED
      BY <3>1
  <2>4. QED
    BY <1>1, <2>1, <2>2, <2>3
<1>10. BytesOf(f) = SizeOf(e, DOMAIN e)
  <2>1. Finds(p, f, e, DOMAIN e)
    <3>1. p \in [DOMAIN f -> DOMAIN e]
      BY <1>1, <1>6, <1>7
    <3> HIDE DEF p
    <3>2. QED
      BY <1>1, <1>6, <1>7, <1>8, <1>9, <3>1 DEF Finds
  <2>2. Sizes(f)
    <3> HIDE DEF p
    <3> QED
      BY <1>1, <1>6, <1>7 DEF Sizes
  <2> HIDE DEF p
  <2>3. QED
    BY <1>6, <2>1, <2>2, TotalIsTransported
<1>11. p \in [DOMAIN f -> DOMAIN e]
  BY <1>1, <1>6, <1>7
<1>12. QED
  <2> HIDE DEF p
  <2>1. BytesOf(f) = BytesOf(e)
    BY <1>10, TotalIsSize
  <2>2. \E w \in [DOMAIN f -> DOMAIN e] :
           /\ \A j, k \in DOMAIN f : w[j] = w[k] => j = k
           /\ \A j \in DOMAIN f : f[j] = e[w[j]]
    <3>1. \A j, k \in DOMAIN f : p[j] = p[k] => j = k
      BY <1>6, <1>8
    <3>2. \A j \in DOMAIN f : f[j] = e[p[j]]
      BY <1>6, <1>7
    <3> HIDE DEF p
    <3>3. QED
      BY <1>11, <3>1, <3>2
  <2>3. QED
    BY <1>6, <2>1, <2>2 DEF f

-----------------------------------------------------------------------------
(* The cache of a process. *)

\* The cache of a process that is as CacheIsFresh says.
Fresh(store) ==
    /\ store \in [entries : Seq(CacheEntry), bytes : Nat]
    /\ store.bytes = BytesOf(store.entries) /\ store.bytes <= CacheCapacity
    /\ \A i, j \in DOMAIN store.entries :
          store.entries[i].target = store.entries[j].target => i = j
    /\ \A i \in DOMAIN store.entries : EntryIsFresh(store.entries[i])

Targets == ({"commits"} \X Nat) \cup ({"trees"} \X Tree) \cup ({"blobs"} \X Report)

\* CacheIsFresh is Fresh of the cache, and an empty one between processes.
LEMMA FreshCache == CacheIsFresh <=> Fresh(cache) /\ (pc = "off" => cache = EmptyCache)
<1>1. \A entry : EntryIsFresh(entry) => entry.raw = Backend(entry.target)
  BY DEF EntryIsFresh
<1>2. QED
  BY <1>1 DEF CacheIsFresh, CacheIsExact, Fresh

\* Entries have sizes.
LEMMA FreshSizes ==
    ASSUME NEW e \in Seq(CacheEntry)
    PROVE  Sizes(e)
<1>1. \A i \in DOMAIN e : e[i] \in CacheEntry
  OBVIOUS
<1>2. QED
  BY <1>1 DEF Sizes, CacheEntry

\* Nothing is cached in a new process.
LEMMA EmptyIsFresh == Fresh(EmptyCache)
<1> DEFINE e == <<>>
<1>1. e \in Seq(CacheEntry) /\ DOMAIN e = {}
  OBVIOUS
<1>2. BytesOf(e) = 0
  <2>1. Units(e, {}) = {}
    BY DEF Units
  <2>2. BytesOf(e) = SizeOf(e, {})
    <3>1. Sizes(e)
      BY <1>1 DEF Sizes
    <3>2. QED
      <4> HIDE DEF e
      <4>1. QED
        BY <1>1, <3>1, TotalIsSize
  <2>3. QED
    BY <2>1, <2>2, FS_EmptySet DEF SizeOf
<1>3. 0 \in Nat /\ 0 <= CacheCapacity
  BY FixtureAssumption
<1>4. QED
  BY <1>1, <1>2, <1>3 DEF Fresh, EmptyCache

\* An entry of a fresh cache.
LEMMA FreshEntry ==
    ASSUME NEW store, Fresh(store)
    PROVE  /\ store.entries \in Seq(CacheEntry) /\ store.bytes \in Nat
           /\ Len(store.entries) \in Nat /\ DOMAIN store.entries = 1..Len(store.entries)
           /\ store = [entries |-> store.entries, bytes |-> store.bytes]
           /\ Sizes(store.entries)
<1>1. store \in [entries : Seq(CacheEntry), bytes : Nat]
  BY DEF Fresh
<1>2. /\ store.entries \in Seq(CacheEntry) /\ store.bytes \in Nat
      /\ store = [entries |-> store.entries, bytes |-> store.bytes]
  BY <1>1
<1>3. QED
  BY <1>2, FreshSizes

\* The oldest entries go, as many as must.
LEMMA RoomIsFresh ==
    ASSUME NEW store, Fresh(store), NEW size \in Nat
    PROVE  LET room == MakeRoom(store, size)
           IN  /\ Fresh(room)
               /\ size <= CacheCapacity => room.bytes + size <= CacheCapacity
               /\ \A i \in DOMAIN room.entries :
                     \E j \in DOMAIN store.entries :
                        room.entries[i].target = store.entries[j].target
<1> DEFINE e == store.entries
           n == Len(e)
           fits(k) == store.bytes - BytesOf(SubSeq(e, 1, k)) + size <= CacheCapacity
           IsGone(k) == /\ fits(k) \/ k = n
                        /\ \A j \in 0..(k - 1) : ~ fits(j)
           gone == CHOOSE k \in 0..n : IsGone(k)
           old == SubSeq(e, 1, gone)
           new == SubSeq(e, gone + 1, n)
           room == [entries |-> new, bytes |-> store.bytes - BytesOf(old)]
<1>1. /\ e \in Seq(CacheEntry) /\ n \in Nat /\ DOMAIN e = 1..n /\ Sizes(e)
      /\ store.bytes = BytesOf(e) /\ store.bytes <= CacheCapacity /\ store.bytes \in Nat
      /\ CacheCapacity \in Nat
  BY FreshEntry, FixtureAssumption DEF Fresh
<1>2. \E k \in 0..n : IsGone(k)
  <2> DEFINE U == {k \in 1..n : \A j \in 0..(k - 1) : ~ fits(j)}
  <2> HIDE DEF fits, n
  <2>1. CASE U = {}
    <3>1. fits(0) \/ n = 0
      <4>1. CASE n >= 1
        <5>1. 1 \in 1..n
          BY <1>1, <4>1
        <5>2. \E j \in 0..(1 - 1) : fits(j)
          BY <2>1, <5>1
        <5>3. \A j \in 0..(1 - 1) : j = 0
          OBVIOUS
        <5>4. QED
          BY <5>2, <5>3
      <4>2. QED
        BY <1>1, <4>1
    <3>2. 0 \in 0..n /\ \A j \in 0..(0 - 1) : ~ fits(j)
      BY <1>1
    <3>3. QED
      BY <3>1, <3>2
  <2>2. CASE U # {}
    <3> DEFINE k == Greatest(U)
    <3>1. k \in U /\ \A j \in U : k >= j
      <4>1. U \in SUBSET (1..n)
        OBVIOUS
      <4> HIDE DEF U
      <4>2. QED
        BY <1>1, <2>2, <4>1, LastPosition
    <3> HIDE DEF k
    <3>2. k \in 1..n /\ \A j \in 0..(k - 1) : ~ fits(j)
      BY <3>1
    <3>3. fits(k) \/ k = n
      <4> SUFFICES ASSUME ~ fits(k), k # n
                   PROVE  FALSE
        OBVIOUS
      <4>1. k + 1 \in 1..n /\ \A j \in 0..((k + 1) - 1) : j \in 0..(k - 1) \/ j = k
        BY <1>1, <3>2
      <4>2. \A j \in 0..((k + 1) - 1) : ~ fits(j)
        BY <3>2, <4>1
      <4>3. k + 1 \in U
        BY <4>1, <4>2
      <4>4. ~ (k >= k + 1)
        BY <3>2
      <4>5. QED
        BY <3>1, <4>3, <4>4
    <3>4. k \in 0..n
      BY <1>1, <3>2
    <3>5. QED
      BY <3>2, <3>3, <3>4
  <2>3. QED
    BY <2>1, <2>2
<1>3. gone \in 0..n /\ (fits(gone) \/ gone = n)
  <2> HIDE DEF fits, n
  <2>1. gone \in 0..n /\ IsGone(gone)
    <3> HIDE DEF IsGone
    <3> QED
      BY <1>2
  <2>2. QED
    BY <2>1
<1>4. room = MakeRoom(store, size)
  BY DEF MakeRoom
<1> HIDE DEF gone
<1>5. /\ new \in Seq(CacheEntry) /\ Len(new) = n - gone /\ DOMAIN new = 1..(n - gone)
      /\ \A i \in DOMAIN new : i + gone \in DOMAIN e /\ new[i] = e[i + gone]
      /\ BytesOf(old) \in Nat /\ BytesOf(new) \in Nat
      /\ BytesOf(e) = BytesOf(old) + BytesOf(new)
      /\ Sizes(new)
  <2>1. gone \in 0..Len(e)
    BY <1>3
  <2> HIDE DEF e
  <2>2. QED
    BY <1>1, <2>1, TotalOfParts
<1>6. room.bytes = BytesOf(new) /\ room.bytes \in Nat /\ room.bytes <= CacheCapacity
  <2>1. room.bytes = store.bytes - BytesOf(old)
    OBVIOUS
  <2> HIDE DEF room, old, new, e
  <2>2. QED
    BY <1>1, <1>5, <2>1
<1>7. ASSUME size <= CacheCapacity
      PROVE  room.bytes + size <= CacheCapacity
  <2>1. CASE fits(gone)
    <3>1. store.bytes - BytesOf(old) + size <= CacheCapacity
      BY <2>1
    <3>2. QED
      BY <3>1
  <2>2. CASE gone = n
    <3>1. DOMAIN new = {}
      <4> HIDE DEF n
      <4> QED
        BY <1>1, <1>5, <2>2
    <3>2. BytesOf(new) = 0
      <4>1. Units(new, {}) = {}
        BY DEF Units
      <4> HIDE DEF new
      <4>2. BytesOf(new) = SizeOf(new, {})
        BY <1>5, <3>1, TotalIsSize
      <4>3. QED
        BY <4>1, <4>2, FS_EmptySet DEF SizeOf
    <3>3. room.bytes = 0
      BY <1>6, <3>2
    <3> HIDE DEF room
    <3>4. QED
      BY <1>7, <3>3
  <2>3. QED
    BY <1>3, <2>1, <2>2
<1>8. room.entries = new /\ \A i \in DOMAIN new : new[i] = e[i + gone] /\ i + gone \in DOMAIN e
  BY <1>5
<1>9. Fresh(room)
  <2>1. room \in [entries : Seq(CacheEntry), bytes : Nat]
    BY <1>5, <1>6
  <2>2. \A i \in DOMAIN new : EntryIsFresh(new[i])
    BY <1>5 DEF Fresh
  <2>3. ASSUME NEW i \in DOMAIN new, NEW j \in DOMAIN new, new[i].target = new[j].target
        PROVE  i = j
    <3>1. i + gone = j + gone
      BY <1>5, <2>3 DEF Fresh
    <3>2. i \in Int /\ j \in Int /\ gone \in Int
      BY <1>3, <1>5
    <3>3. QED
      BY <3>1, <3>2
  <2> HIDE DEF room, new
  <2>4. QED
    BY <1>6, <1>8, <2>1, <2>2, <2>3 DEF Fresh
<1>10. \A i \in DOMAIN room.entries :
          \E j \in DOMAIN store.entries : room.entries[i].target = store.entries[j].target
  BY <1>5
<1>11. QED
  <2> HIDE DEF room, e, new
  <2> QED
    BY <1>4, <1>7, <1>9, <1>10

\* A GET keeps the cache fresh, whatever is asked and whatever must go.
LEMMA FetchIsFresh ==
    ASSUME NEW store, Fresh(store), NEW target,
           \/ target = <<"ref">>
           \/ /\ target \in Targets
              /\ target[1] = "commits" => target[2] \in Times(ref)
              /\ Backend(target) \in Tree \cup Report
    PROVE  Fresh(Fetch(store, target))
<1> DEFINE e == store.entries
           n == Len(e)
           hit == Cached(store, target)
           size == Bytes[target[1]]
           room == MakeRoom(store, size)
           x == [target |-> target, raw |-> Backend(target), size |-> size]
<1>1. DOMAIN Bytes = {"commits", "trees", "blobs"}
  BY FixtureAssumption
<1>2. CASE ~ Immutable(target)
  <2>1. Fetch(store, target) = store
    BY <1>2 DEF Fetch
  <2>2. QED
    BY <2>1
<1>3. ASSUME Immutable(target)
      PROVE  /\ target \in Targets /\ size \in Nat
             /\ target[1] = "commits" => target[2] \in Times(ref)
             /\ x \in CacheEntry /\ EntryIsFresh(x) /\ x.target = target /\ x.size = size
  <2>1. target[1] \in {"commits", "trees", "blobs"}
    BY <1>1, <1>3 DEF Immutable
  <2>2. target # <<"ref">>
    BY <2>1
  <2>3. size \in Nat
    BY <2>1, FixtureAssumption
  <2>4. /\ x.target = target /\ x.raw = Backend(target) /\ x.size = size
    OBVIOUS
  <2>5. x \in CacheEntry
    BY <2>2, <2>3 DEF CacheEntry, Targets
  <2> HIDE DEF x
  <2>6. EntryIsFresh(x)
    BY <2>2, <2>4 DEF EntryIsFresh
  <2>7. QED
    BY <2>2, <2>3, <2>4, <2>5, <2>6
<1>4. CASE Immutable(target) /\ hit # {}
  <2> DEFINE i == CHOOSE k \in hit : TRUE
             f == Append(RemoveAt(e, i), e[i])
             s == [store EXCEPT !.entries = f]
  <2>1. Fetch(store, target) = s
    BY <1>4 DEF Fetch
  <2>2. i \in DOMAIN e
    <3>1. i \in hit
      <4> HIDE DEF hit
      <4> QED
        BY <1>4
    <3>2. QED
      BY <3>1 DEF Cached
  <2> HIDE DEF i
  <2>3. e \in Seq(CacheEntry) /\ Sizes(e) /\ store = [entries |-> e, bytes |-> store.bytes]
    BY FreshEntry
  <2>4. s.entries = f /\ s.bytes = store.bytes /\ s = [entries |-> f, bytes |-> store.bytes]
    <3>1. store \in [entries : Seq(CacheEntry), bytes : Nat]
      BY DEF Fresh
    <3> HIDE DEF f
    <3>2. QED
      BY <3>1
  <2>5. /\ f \in Seq(CacheEntry) /\ BytesOf(f) = BytesOf(e)
        /\ \E p \in [DOMAIN f -> DOMAIN e] :
              /\ \A j, k \in DOMAIN f : p[j] = p[k] => j = k
              /\ \A j \in DOMAIN f : f[j] = e[p[j]]
    <3> HIDE DEF e
    <3> QED
      BY <2>2, <2>3, TotalOfYoungest
  <2>6. PICK p \in [DOMAIN f -> DOMAIN e] :
           /\ \A j, k \in DOMAIN f : p[j] = p[k] => j = k
           /\ \A j \in DOMAIN f : f[j] = e[p[j]]
    <3> HIDE DEF f, e
    <3> QED
      BY <2>5
  <2> HIDE DEF f, s
  <2>7. \A j, k \in DOMAIN f : f[j].target = f[k].target => j = k
    BY <2>6 DEF Fresh
  <2>8. \A j \in DOMAIN f : EntryIsFresh(f[j])
    BY <2>6 DEF Fresh
  <2>9. Fresh(s)
    <3>1. /\ store.bytes \in Nat /\ store.bytes = BytesOf(e) /\ store.bytes <= CacheCapacity
      BY FreshEntry DEF Fresh
    <3> HIDE DEF e
    <3>2. s \in [entries : Seq(CacheEntry), bytes : Nat]
      BY <2>4, <2>5, <3>1
    <3>3. QED
      BY <2>4, <2>5, <2>7, <2>8, <3>1, <3>2 DEF Fresh
  <2>10. QED
    BY <2>1, <2>9
<1>5. CASE Immutable(target) /\ hit = {} /\ size > CacheCapacity
  <2>1. Fetch(store, target) = room
    BY <1>5 DEF Fetch
  <2>2. Fresh(room)
    BY <1>3, <1>5, RoomIsFresh
  <2>3. QED
    BY <2>1, <2>2
<1>6. CASE Immutable(target) /\ hit = {} /\ ~ (size > CacheCapacity)
  <2> DEFINE g == room.entries
             m == Len(g)
             f == Append(g, x)
             s == [entries |-> f, bytes |-> room.bytes + size]
  <2>1. Fetch(store, target) = s
    BY <1>6 DEF Fetch, Put
  <2>2. size \in Nat /\ size <= CacheCapacity /\ CacheCapacity \in Nat
    BY <1>3, <1>6, FixtureAssumption
  <2>3. /\ Fresh(room) /\ room.bytes + size <= CacheCapacity
        /\ \A i \in DOMAIN g : \E j \in DOMAIN e : g[i].target = e[j].target
    <3> HIDE DEF size
    <3> QED
      BY <2>2, RoomIsFresh
  <2> HIDE DEF room
  <2>4. \A i \in DOMAIN g : g[i].target # target
    BY <1>6, <2>3 DEF Cached
  <2>5. /\ g \in Seq(CacheEntry) /\ room.bytes \in Nat /\ m \in Nat /\ DOMAIN g = 1..m /\ Sizes(g)
        /\ room.bytes = BytesOf(g)
    BY <2>3, FreshEntry DEF Fresh
  <2>6. x \in CacheEntry /\ EntryIsFresh(x) /\ x.target = target /\ x.size = size
    BY <1>3, <1>6
  <2> HIDE DEF x, g, size
  <2>7. BytesOf(f) = BytesOf(g) + size
    <3>1. x.size \in Nat
      BY <2>2, <2>6
    <3>2. BytesOf(f) = BytesOf(g) + x.size
      BY <2>5, <2>6, <3>1, TotalOfAppend
    <3>3. QED
      BY <2>6, <3>2
  <2>8. /\ f \in Seq(CacheEntry) /\ DOMAIN f = 1..(m + 1)
        /\ f[m + 1] = x /\ \A i \in 1..m : f[i] = g[i]
    BY <2>5, <2>6
  <2> HIDE DEF f, m
  <2>9. \A i \in DOMAIN f : i \in 1..m \/ i = m + 1
    BY <2>5, <2>8
  <2>10. \A i \in DOMAIN f : EntryIsFresh(f[i])
    <3>1. \A i \in 1..m : EntryIsFresh(g[i])
      BY <2>3, <2>5 DEF Fresh, g
    <3>2. QED
      BY <2>6, <2>8, <2>9, <3>1
  <2>11. \A i, j \in DOMAIN f : f[i].target = f[j].target => i = j
    <3>1. \A i, j \in 1..m : g[i].target = g[j].target => i = j
      BY <2>3, <2>5 DEF Fresh, g
    <3>2. \A i \in 1..m : g[i].target # x.target
      BY <2>4, <2>5, <2>6
    <3>3. QED
      BY <2>8, <2>9, <3>1, <3>2
  <2>12. Fresh(s)
    <3>1. s.entries = f /\ s.bytes = room.bytes + size
      OBVIOUS
    <3>2. room.bytes + size \in Nat
      BY <2>2, <2>5
    <3>3. s \in [entries : Seq(CacheEntry), bytes : Nat]
      BY <2>8, <3>2
    <3> HIDE DEF s
    <3>4. s.bytes = BytesOf(s.entries) /\ s.bytes <= CacheCapacity
      BY <2>3, <2>5, <2>7, <3>1
    <3>5. QED
      BY <2>10, <2>11, <3>1, <3>3, <3>4 DEF Fresh
  <2>13. QED
    BY <2>1, <2>12
<1>7. QED
  BY <1>2, <1>4, <1>5, <1>6

\* A history that grows keeps its commits, so what was read of them stays true.
LEMMA GrowthKeepsFresh ==
    ASSUME Fresh(cache), cache' = cache, ref \in Seq(Commits), ref' \in Seq(Commits),
           IsAncestor(ref, ref'),
           \A i, j \in DOMAIN ref' : i < j => ref'[i].at < ref'[j].at
    PROVE  Fresh(cache)'
<1>1. DOMAIN ref \subseteq DOMAIN ref' /\ \A i \in DOMAIN ref : ref[i] = ref'[i]
  BY DEF IsAncestor
<1>2. \A i \in DOMAIN ref' : i \in Nat /\ ref'[i].at \in Nat
  <2>1. \A i \in DOMAIN ref' : i \in Nat /\ ref'[i] \in Commits
    OBVIOUS
  <2>2. \A c \in Commits : c.at \in Nat
    BY DEF Commits
  <2>3. QED
    BY <2>1, <2>2
<1>3. \A i, j \in DOMAIN ref' : ref'[i].at = ref'[j].at => i = j
  <2> SUFFICES ASSUME NEW i \in DOMAIN ref', NEW j \in DOMAIN ref', ref'[i].at = ref'[j].at
               PROVE  i = j
    OBVIOUS
  <2>1. ~ (i < j) /\ ~ (j < i)
    <3>1. ref'[i].at \in Nat
      BY <1>2
    <3>2. ~ (ref'[i].at < ref'[j].at) /\ ~ (ref'[j].at < ref'[i].at)
      BY <3>1
    <3>3. QED
      BY <3>2
  <2>2. i \in Nat /\ j \in Nat
    BY <1>2
  <2>3. QED
    BY <2>1, <2>2
<1>4. ASSUME NEW entry \in CacheEntry, EntryIsFresh(entry)
      PROVE  /\ entry.raw = Backend(entry.target)'
             /\ entry.size = Bytes[entry.target[1]]
             /\ entry.target[1] = "commits" => entry.target[2] \in Times(ref')
  <2> DEFINE kind == entry.target[1]
             name == entry.target[2]
  <2>1. /\ entry.raw = Backend(entry.target) /\ entry.size = Bytes[kind]
        /\ kind = "commits" => name \in Times(ref)
    BY <1>4 DEF EntryIsFresh
  <2>2. Times(ref) \subseteq Times(ref')
    BY <1>1 DEF Times
  <2>3. Backend(entry.target)' = Backend(entry.target)
    <3>1. CASE kind = "commits"
      <4> DEFINE i == CHOOSE k \in DOMAIN ref : ref[k].at = name
                 j == CHOOSE k \in DOMAIN ref' : ref'[k].at = name
      <4>1. \E k \in DOMAIN ref : ref[k].at = name
        BY <2>1, <3>1 DEF Times
      <4>2. i \in DOMAIN ref /\ ref[i].at = name
        BY <4>1
      <4>3. i \in DOMAIN ref' /\ ref'[i] = ref[i] /\ ref'[i].at = name
        BY <1>1, <4>2
      <4>4. j \in DOMAIN ref' /\ ref'[j].at = name
        BY <4>3
      <4> HIDE DEF i, j
      <4>5. i = j
        BY <1>3, <4>3, <4>4
      <4>6. Backend(entry.target) = ref[i].tree /\ Backend(entry.target)' = ref'[j].tree
        BY <3>1 DEF Backend, i, j
      <4>7. QED
        BY <4>3, <4>5, <4>6
    <3>2. CASE kind # "commits"
      <4>1. kind # "ref"
        BY DEF CacheEntry
      <4>2. QED
        BY <3>2, <4>1 DEF Backend
    <3>3. QED
      BY <3>1, <3>2
  <2>4. QED
    BY <2>1, <2>2, <2>3
<1>5. \A i \in DOMAIN cache.entries : EntryIsFresh(cache.entries[i])'
  <2>1. cache.entries \in Seq(CacheEntry)
    BY FreshEntry
  <2>2. \A i \in DOMAIN cache.entries : cache.entries[i] \in CacheEntry
    BY <2>1
  <2>3. QED
    BY <1>4, <2>2 DEF Fresh, EntryIsFresh
<1>6. QED
  BY <1>5 DEF Fresh

\* What a process asks for is cached as git has it, or not at all.
LEMMA RequestIsFresh ==
    ASSUME Sound(ref, clock, foreign, Sent), Fresh(cache), NEW n \in 0..3
    PROVE  Fresh(Fetch(cache, ReadOrder(Last(ref))[n + 1]))
<1> DEFINE tip == Last(ref)
           target == ReadOrder(tip)[n + 1]
<1>1. /\ Len(ref) \in DOMAIN ref /\ tip = ref[Len(ref)]
      /\ tip.at \in Nat /\ tip.tree \in Tree /\ tip.tree["report"] \in Report
      /\ \A i \in DOMAIN ref : ref[i].tree \in Tree
  BY SoundShape
<1> HIDE DEF tip
<1>2. CASE n = 0
  <2>1. target = <<"ref">>
    BY <1>2 DEF ReadOrder
  <2> HIDE DEF target
  <2>2. QED
    BY <2>1, FetchIsFresh DEF target, tip
<1>3. CASE n = 1
  <2>1. target = <<"commits", tip.at>>
    BY <1>3 DEF ReadOrder
  <2> HIDE DEF target
  <2>2. target[1] = "commits" /\ target[2] = tip.at /\ target \in Targets
    BY <1>1, <2>1 DEF Targets
  <2>3. tip.at \in Times(ref)
    BY <1>1 DEF Times
  <2>4. Backend(target) \in Tree
    <3> DEFINE i == CHOOSE k \in DOMAIN ref : ref[k].at = tip.at
    <3>1. i \in DOMAIN ref
      BY <1>1
    <3>2. Backend(target) = ref[i].tree
      BY <2>2 DEF Backend
    <3> HIDE DEF i
    <3>3. QED
      BY <1>1, <3>1, <3>2
  <2>5. Fresh(Fetch(cache, target))
    BY <2>2, <2>3, <2>4, FetchIsFresh
  <2>6. QED
    BY <2>5 DEF target, tip
<1>4. CASE n = 2
  <2>1. target = <<"trees", tip.tree>>
    BY <1>4 DEF ReadOrder
  <2> HIDE DEF target
  <2>2. target[1] = "trees" /\ target \in Targets /\ Backend(target) \in Tree
    BY <1>1, <2>1 DEF Targets, Backend
  <2>3. Fresh(Fetch(cache, target))
    BY <2>2, FetchIsFresh
  <2>4. QED
    BY <2>3 DEF target, tip
<1>5. CASE n = 3
  <2>1. target = <<"blobs", tip.tree["report"]>>
    BY <1>5 DEF ReadOrder
  <2> HIDE DEF target
  <2>2. target[1] = "blobs" /\ target \in Targets /\ Backend(target) \in Report
    BY <1>1, <2>1 DEF Targets, Backend
  <2>3. Fresh(Fetch(cache, target))
    BY <2>2, FetchIsFresh
  <2>4. QED
    BY <2>3 DEF target, tip
<1>6. QED
  BY <1>2, <1>3, <1>4, <1>5

\* A cache stays fresh while the branch and the store stay as they are.
LEMMA RestKeepsFresh ==
    ASSUME NEW STATE store, Fresh(store), cache' = store, ref' = ref
    PROVE  Fresh(cache)'
<1>1. \A entry : EntryIsFresh(entry)' <=> EntryIsFresh(entry)
  BY DEF EntryIsFresh, Backend, Times
<1>2. \A i \in DOMAIN cache'.entries : EntryIsFresh(cache.entries[i])'
  <2>1. \A i \in DOMAIN store.entries : EntryIsFresh(store.entries[i])
    BY DEF Fresh
  <2>2. \A i \in DOMAIN cache'.entries : EntryIsFresh(cache'.entries[i])
    BY <2>1
  <2>3. QED
    BY <2>2 DEF EntryIsFresh, Backend, Times
<1>3. QED
  BY <1>2 DEF Fresh

\* FreshCache, of the next state.
LEMMA FreshCacheNext ==
    Fresh(cache)' /\ (pc' = "off" => cache' = EmptyCache) => CacheIsFresh'
<1>1. \A entry : EntryIsFresh(entry)' => entry.raw = Backend(entry.target)'
  BY DEF EntryIsFresh
<1>2. Fresh(cache)' => \A i \in DOMAIN cache'.entries :
                          cache'.entries[i].raw = Backend(cache.entries[i].target)'
  BY DEF Fresh, EntryIsFresh
<1>3. QED
  BY <1>2 DEF CacheIsFresh, CacheIsExact, Fresh

\* A process reads through its cache, updates only extend the branch, and every
\* process starts with an empty cache.
LEMMA CacheStep ==
    HistoryInvariant /\ CacheIsFresh /\ [Next]_vars /\ HistoryInvariant' => CacheIsFresh'
<1> SUFFICES ASSUME HistoryInvariant, CacheIsFresh, [Next]_vars, HistoryInvariant'
             PROVE  Fresh(cache)' /\ (pc' = "off" => cache' = EmptyCache)
  BY FreshCacheNext
<1>1. Fresh(cache) /\ (pc = "off" => cache = EmptyCache)
  BY FreshCache
<1>2. Sound(ref, clock, foreign, Sent) /\ (Sound(ref, clock, foreign, Sent))'
  BY DEF HistoryInvariant, HistoriesAreSound
<1>3. ASSUME cache' = EmptyCache
      PROVE  Fresh(cache)' /\ (pc' = "off" => cache' = EmptyCache)
  BY <1>3, EmptyIsFresh DEF Fresh, EmptyCache
<1>4. ASSUME UNCHANGED <<ref, cache>>, pc' = "off" => pc = "off"
      PROVE  Fresh(cache)' /\ (pc' = "off" => cache' = EmptyCache)
  BY <1>1, <1>4, RestKeepsFresh DEF EmptyCache
<1>5. ASSUME NEW t \in DOMAIN Chain, Start(t)
      PROVE  cache' = EmptyCache
  <2>1. pc = "off" /\ cache' = cache
    BY <1>5 DEF Start, HistoryInvariant, ProcessIsCurrent
  <2>2. QED
    BY <1>1, <2>1
<1>6. CASE Spawn \/ Judge \/ DriverLost
  <2>1. cache' = EmptyCache
    BY <1>6 DEF Spawn, Judge, DriverLost
  <2>2. QED
    BY <1>3, <2>1
<1>7. CASE LoopExhausted \/ Finally
  <2>1. UNCHANGED <<ref, cache, pc>>
    BY <1>7 DEF LoopExhausted, Finally, fixture, child
  <2>2. QED
    BY <1>4, <2>1
<1>8. CASE Load
  <2>1. /\ loaded' = (IF reads = 0 THEN Served(<<"ref">>) ELSE loaded)
        /\ cache' = Fetch(cache, ReadOrder(Last(IF reads = 0 THEN Served(<<"ref">>) ELSE loaded))[reads + 1])
        /\ pc' = (IF reads = 3 THEN then ELSE "load") /\ pc = "load" /\ ref' = ref
    BY <1>8 DEF Load
  <2>2. reads \in 0..3 /\ then \in {"plan", "send", "done"}
    BY DEF HistoryInvariant, TypeOK
  <2>3. (IF reads = 0 THEN Served(<<"ref">>) ELSE loaded) = ref
    <3>1. Served(<<"ref">>) = ref
      BY FixtureAssumption DEF Served, Immutable, Backend
    <3>2. reads # 0 => loaded = ref
      BY <2>1, <2>2 DEF HistoryInvariant, ProcessIsCurrent
    <3>3. QED
      BY <3>1, <3>2
  <2> DEFINE store == Fetch(cache, ReadOrder(Last(ref))[reads + 1])
  <2>4. Fresh(store)
    BY <1>1, <1>2, <2>2, RequestIsFresh
  <2>5. cache' = store
    BY <2>1, <2>3
  <2> HIDE DEF store
  <2>6. Fresh(cache)'
    BY <2>1, <2>4, <2>5, RestKeepsFresh
  <2>7. pc' # "off"
    BY <2>1, <2>2
  <2>8. QED
    BY <2>6, <2>7
<1>9. CASE Patch
  <2>1. cache' = cache /\ pc' # "off"
    BY <1>9 DEF Patch, GoOn, Answer
  <2>2. ref \in Seq(Commits) /\ ref # <<>> /\ ref' \in Seq(Commits)
    BY <1>2, SoundShape DEF Sound, Commits
  <2>3. IsAncestor(ref, Current)
    BY <2>2 DEF Current, PostCommit, IsAncestor
  <2>4. ref' = Current \/ (ref' = posted /\ IsAncestor(Current, posted))
    BY <1>9 DEF Patch, PatchRefused, PatchApplied, Arrive, FastForward
  <2>5. IsAncestor(ref, ref')
    BY <2>2, <2>3, <2>4 DEF IsAncestor
  <2>6. \A i, j \in DOMAIN ref' : i < j => ref'[i].at < ref'[j].at
    BY <1>2 DEF Sound
  <2>7. Fresh(cache)'
    BY <1>1, <2>1, <2>2, <2>5, <2>6, GrowthKeepsFresh
  <2>8. QED
    BY <2>1, <2>7
<1>10. CASE Unavailable \/ Reconcile \/ StageOnce \/ Project \/ OriginLags \/ Maintain \/ ScanPage
            \/ MembershipShifts \/ ComparePage \/ ReconstructionFails \/ Prepare \/ Announce
            \/ Send \/ ConfirmSent \/ Recover \/ NotDue \/ ChildFails
  <2>1. UNCHANGED <<ref, cache>> /\ pc' # "off"
    BY <1>10 DEF Unavailable, Reconcile, StageOnce, Project, OriginLags, Maintain, ScanPage,
           MembershipShifts, ComparePage, ReconstructionFails, Prepare, Announce, Send,
           ConfirmSent, Confirm, Recover, NotDue, ChildFails, Publish, Post, Answer, GoOn, fixture
  <2>2. QED
    BY <1>4, <2>1
<1>11. CASE UNCHANGED vars
  BY <1>4, <1>11 DEF vars, fixture, child
<1>12. QED
  BY <1>3, <1>5, <1>6, <1>7, <1>8, <1>9, <1>10, <1>11 DEF Next, DriverStep, ChildStep

\* The inductive invariant holds with its cache.
THEOREM DriversInvariantHolds == Spec => []DriversInvariant
<1>1. Init => CacheIsFresh
  <2>1. Init => cache = EmptyCache
    BY DEF Init
  <2>2. QED
    BY <2>1, EmptyIsFresh, FreshCache
<1>2. CacheIsFresh /\ HistoryInvariant /\ HistoryInvariant' /\ [Next]_vars => CacheIsFresh'
  BY CacheStep
<1>3. DriversInvariant <=> HistoryInvariant /\ CacheIsFresh
  BY DEF DriversInvariant
<1>4. QED
  BY <1>1, <1>2, <1>3, HistoryInvariantHolds, PTL DEF Spec

\* The counter of the cache is its size.
THEOREM CacheIsExactHolds == Spec => []CacheIsExact
<1>1. DriversInvariant => CacheIsExact
  BY DEF DriversInvariant, CacheIsFresh
<1>2. QED
  BY <1>1, DriversInvariantHolds, PTL
=============================================================================
