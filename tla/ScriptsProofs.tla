--------------------------- MODULE ScriptsProofs ---------------------------
(***************************************************************************)
(* The coverage readers, for annotated files and .info files of any        *)
(* length; the coverpoints, for any samples; the UVM regression, for any   *)
(* lists of tests; and the cocotb regression, for any list of modules and  *)
(* any results of theirs.                                                  *)
(***************************************************************************)
EXTENDS Scripts, FiniteSetTheorems, SequenceTheorems, WellFoundedInduction, TLAPS

-----------------------------------------------------------------------------
(* Annotated coverage.                                                     *)

\* What a reader's two numbers differ by.
Short(r) == tally[r].total - tally[r].hit

\* Lines that calc_rtl_cov does not match.
Dropped == tally["phase3"].total - tally["calc_rtl_cov"].total

\* Points of a stretch that were never hit, by kind and in always blocks.
Lost(p, k, n) == IF p.kind = k /\ p.count = 0 THEN n ELSE 0
LostAlways(p, n) == IF p.always /\ p.count = 0 THEN n ELSE 0

AnnotInv ==
  /\ annotate_min \in Nat \ {0}
  /\ missed \in [Kinds -> Nat] /\ missed_always \in Nat
  /\ tally \in [Readers -> [hit : Nat, total : Nat]]
  /\ Short("phase2") = missed["line"]
  /\ Short("phase2_annot") = missed_always
  /\ Short("phase3") = Unhit
  /\ Short("phase1") >= Unhit
  /\ Short("phase3_uvm") >= Unhit
  /\ Short("phase4") >= Unhit
  /\ Dropped >= Unhit

\* No reader makes of a point more than a hit.
LEMMA ReadIsOneOfThree ==
  ASSUME NEW r \in Readers, NEW p \in Points
  PROVE  Read(r, p) \in {Nothing, Hit, Miss}
BY DEF Readers, Read, CalcRtlCov, Phase1, Phase2, Phase2Annot, Phase3, Phase3Uvm, Phase4, ByCount

LEMMA ThreeTallies ==
  /\ Nothing.hit = 0 /\ Nothing.total = 0
  /\ Hit.hit = 1 /\ Hit.total = 1
  /\ Miss.hit = 0 /\ Miss.total = 1
BY DEF Nothing, Hit, Miss

\* What every reader makes of a point that was never hit.
LEMMA UnhitPoint ==
  ASSUME NEW p \in Points, WellMarked(p), annotate_min \in Nat \ {0}, p.count = 0
  PROVE  /\ p.mark = "%"
         /\ Read("calc_rtl_cov", p) = Nothing
         /\ Read("phase1", p) = Miss
         /\ Read("phase2", p) = IF p.kind = "line" THEN Miss ELSE Nothing
         /\ Read("phase2_annot", p) = IF p.always THEN Miss ELSE Nothing
         /\ Read("phase3", p) = Miss
         /\ Read("phase3_uvm", p) = Miss
         /\ Read("phase4", p) = Miss
<1>1. p.mark = "%"
  <2>1. p.count < annotate_min
    OBVIOUS
  <2> QED
    BY <2>1 DEF WellMarked
<1>2. ByCount(p) = Miss
  BY DEF ByCount
<1> QED
  BY <1>1, <1>2 DEF Read, CalcRtlCov, Phase1, Phase2, Phase2Annot, Phase3, Phase3Uvm, Phase4

\* The readers that count by the count alone lose nothing of a hit.
LEMMA HitPoint ==
  ASSUME NEW p \in Points, p.count # 0
  PROVE  /\ Read("phase2", p) \in {Hit, Nothing}
         /\ Read("phase2_annot", p) \in {Hit, Nothing}
         /\ Read("phase3", p) = Hit
<1>1. p.count > 0
  <2>1. p.count \in 0 .. MaxCount
    BY Zenon DEF Points
  <2> QED
    BY <2>1, AnnotateAssumption
<1>2. ByCount(p) = Hit
  BY <1>1 DEF ByCount
<1> QED
  BY <1>2 DEF Read, Phase2, Phase2Annot, Phase3

LEMMA KindOfPoint == ASSUME NEW p \in Points PROVE p.kind \in Kinds
BY Zenon DEF Points

\* What a stretch of n lines adds to a tally.
LEMMA StretchAdds ==
  ASSUME NEW x \in {Nothing, Hit, Miss}, NEW n \in Nat
  PROVE  /\ n * x.hit = IF x = Hit THEN n ELSE 0
         /\ n * x.total = IF x = Nothing THEN 0 ELSE n
<1>1. n * 0 = 0 /\ n * 1 = n
  OBVIOUS
<1>2. Nothing # Hit /\ Nothing # Miss /\ Hit # Miss
  BY ThreeTallies
<1> QED
  BY <1>1, <1>2, ThreeTallies

LEMMA AnnotStep ==
  ASSUME AnnotInv, NEW p \in Points, NEW n \in Stretches, ReadStretch(p, n)
  PROVE  AnnotInv'
<1> DEFINE line == Lost(p, "line", n)
           toggle == Lost(p, "toggle", n)
           block == LostAlways(p, n)
           hits(r) == IF Read(r, p) = Hit THEN n ELSE 0
           all(r) == IF Read(r, p) = Nothing THEN 0 ELSE n
           cost(r) == IF Read(r, p) = Miss THEN n ELSE 0
<1>0. n \in Nat
  BY AnnotateAssumption
<1>1. annotate_min' = annotate_min /\ annotate_min \in Nat \ {0} /\ WellMarked(p)
  BY DEF ReadStretch, AnnotInv
<1>2. Nothing # Hit /\ Nothing # Miss /\ Hit # Miss
  BY ThreeTallies
<1>3. /\ tally' \in [Readers -> [hit : Nat, total : Nat]]
      /\ \A r \in Readers : /\ Short(r)' = Short(r) + cost(r)
                            /\ tally'[r].total = tally[r].total + all(r)
  <2>1. \A r \in Readers : tally[r].hit \in Nat /\ tally[r].total \in Nat
    BY DEF AnnotInv
  <2>2. tally' = [r \in Readers |-> [hit   |-> tally[r].hit + n * Read(r, p).hit,
                                     total |-> tally[r].total + n * Read(r, p).total]]
    BY DEF ReadStretch
  <2>3. \A r \in Readers : Read(r, p) \in {Nothing, Hit, Miss}
    BY ReadIsOneOfThree
  <2>4. \A r \in Readers : n * Read(r, p).hit = hits(r) /\ n * Read(r, p).total = all(r)
    BY <1>0, <2>3, StretchAdds
  <2>5. tally' = [r \in Readers |-> [hit   |-> tally[r].hit + hits(r),
                                     total |-> tally[r].total + all(r)]]
    BY <2>2, <2>4
  <2>6. \A r \in Readers : hits(r) \in Nat /\ all(r) \in Nat /\ all(r) - hits(r) = cost(r)
    BY <1>0, <1>2, <2>3
  <2> HIDE DEF hits, all, cost
  <2>7. \A r \in Readers : /\ tally'[r].hit = tally[r].hit + hits(r)
                           /\ tally'[r].total = tally[r].total + all(r)
    BY <2>5
  <2>8. \A r \in Readers : Short(r)' = Short(r) + cost(r)
    BY <2>1, <2>6, <2>7 DEF Short
  <2> QED
    BY <2>1, <2>5, <2>6, <2>7, <2>8
<1>4. /\ missed' \in [Kinds -> Nat] /\ missed_always' \in Nat
      /\ missed'["line"] = missed["line"] + line
      /\ missed'["toggle"] = missed["toggle"] + toggle
      /\ missed_always' = missed_always + block
  <2>1. /\ missed' = [missed EXCEPT ![p.kind] = IF p.count = 0 THEN @ + n ELSE @]
        /\ missed_always' = IF p.count = 0 /\ p.always THEN missed_always + n ELSE missed_always
    BY DEF ReadStretch
  <2>2. missed \in [Kinds -> Nat] /\ p.kind \in {"line", "toggle"} /\ missed_always \in Nat
    BY KindOfPoint DEF AnnotInv, Kinds
  <2> QED
    BY <1>0, <2>1, <2>2 DEF Kinds, Lost, LostAlways
<1>5. /\ cost("phase2") = line
      /\ cost("phase2_annot") = block
      /\ cost("phase3") = line + toggle
      /\ cost("phase1") >= line + toggle
      /\ cost("phase3_uvm") >= line + toggle
      /\ cost("phase4") >= line + toggle
      /\ all("phase3") - all("calc_rtl_cov") >= line + toggle
  <2>1. CASE p.count = 0
    <3>1. p.kind \in {"line", "toggle"}
      BY KindOfPoint DEF Kinds
    <3>2. line + toggle = n /\ (p.kind = "line" => line = n) /\ (p.kind # "line" => line = 0)
      BY <1>0, <2>1, <3>1 DEF Lost
    <3>3. block = IF p.always THEN n ELSE 0
      BY <2>1 DEF LostAlways
    <3> HIDE DEF line, toggle, block
    <3> QED
      BY <1>0, <1>1, <1>2, <2>1, <3>2, <3>3, UnhitPoint
  <2>2. CASE p.count # 0
    <3>1. line = 0 /\ toggle = 0 /\ block = 0
      BY <2>2 DEF Lost, LostAlways
    <3>2. cost("phase2") = 0 /\ cost("phase2_annot") = 0 /\ cost("phase3") = 0 /\ all("phase3") = n
      BY <1>2, <2>2, HitPoint
    <3>3. \A r \in Readers : cost(r) >= 0 /\ n - all(r) >= 0
      BY <1>0
    <3> HIDE DEF line, toggle, block, cost, all
    <3> QED
      BY <3>1, <3>2, <3>3 DEF Readers
  <2> QED
    BY <2>1, <2>2
<1>6. \A r \in Readers : /\ Short(r) \in Int /\ cost(r) \in Int /\ all(r) \in Int
                         /\ tally[r].total \in Int
  BY <1>0 DEF AnnotInv, Short
<1>7. missed["line"] \in Nat /\ missed["toggle"] \in Nat /\ line \in Nat /\ toggle \in Nat
  BY <1>0 DEF AnnotInv, Kinds, Lost
<1>8. Unhit' = Unhit + line + toggle
  BY <1>4, <1>7 DEF Unhit
<1>9. Unhit \in Nat
  BY <1>7 DEF Unhit
<1> HIDE DEF cost, all, line, toggle, block
<1>10. /\ Short("phase2")' = missed'["line"]
       /\ Short("phase2_annot")' = missed_always'
       /\ Short("phase3")' = Unhit'
       /\ Short("phase1")' >= Unhit'
       /\ Short("phase3_uvm")' >= Unhit'
       /\ Short("phase4")' >= Unhit'
  <2>1. /\ Short("phase2") = missed["line"] /\ Short("phase2_annot") = missed_always
        /\ Short("phase3") = Unhit /\ Short("phase1") >= Unhit
        /\ Short("phase3_uvm") >= Unhit /\ Short("phase4") >= Unhit
    BY DEF AnnotInv
  <2>2. {"phase1", "phase2", "phase2_annot", "phase3", "phase3_uvm", "phase4"} \subseteq Readers
    BY DEF Readers
  <2> QED
    BY <1>3, <1>4, <1>5, <1>6, <1>7, <1>8, <1>9, <2>1, <2>2
<1>11. Dropped' >= Unhit'
  <2>1. {"phase3", "calc_rtl_cov"} \subseteq Readers /\ Dropped >= Unhit
    BY DEF Readers, AnnotInv
  <2>2. Dropped' = Dropped + (all("phase3") - all("calc_rtl_cov"))
    BY <1>3, <1>6, <2>1 DEF Dropped
  <2>3. Dropped \in Int
    BY <1>6, <2>1 DEF Dropped
  <2>4. all("phase3") - all("calc_rtl_cov") \in Int
    BY <1>6, <2>1
  <2> QED
    BY <1>5, <1>7, <1>8, <1>9, <2>1, <2>2, <2>3, <2>4
<1> QED
  BY <1>1, <1>3, <1>4, <1>10, <1>11 DEF AnnotInv

LEMMA AnnotInitInv == ScriptInit => AnnotInv
<1> SUFFICES ASSUME AnnotInit PROVE AnnotInv
  BY DEF ScriptInit
<1>1. annotate_min \in Nat \ {0}
  BY AnnotateAssumption DEF AnnotInit
<1>2. missed \in [Kinds -> Nat] /\ missed["line"] = 0 /\ missed["toggle"] = 0 /\ missed_always = 0
  BY DEF AnnotInit, Kinds
<1>3. /\ tally \in [Readers -> [hit : Nat, total : Nat]]
      /\ \A r \in Readers : tally[r].hit = 0 /\ tally[r].total = 0
  BY DEF AnnotInit, Nothing
<1>4. \A r \in Readers : Short(r) = 0
  BY <1>3 DEF Short
<1>5. Unhit = 0 /\ Dropped = 0
  BY <1>2, <1>3 DEF Unhit, Dropped, Readers
<1> QED
  BY <1>1, <1>2, <1>3, <1>4, <1>5 DEF AnnotInv, Readers

LEMMA AnnotNextInv == AnnotInv /\ [ScriptNext]_scriptVars => AnnotInv'
<1> SUFFICES ASSUME AnnotInv, [ScriptNext]_scriptVars PROVE AnnotInv'
  OBVIOUS
<1>1. CASE UNCHANGED annotVars
  BY <1>1 DEF annotVars, AnnotInv, Short, Unhit, Dropped
<1>2. CASE AnnotNext
  BY <1>2, AnnotStep DEF AnnotNext
<1> QED
  BY <1>1, <1>2 DEF ScriptNext, scriptVars

\* The invariant is enough: a reader that says 100% is short of nothing or, where
\* it rounds, of less than the part that is lost in rounding.
LEMMA AnnotFull == AnnotInv => FullMeansFull
<1> SUFFICES ASSUME AnnotInv PROVE FullMeansFull
  OBVIOUS
<1>1. missed["line"] \in Nat /\ missed_always \in Nat /\ Unhit \in Nat
  BY DEF AnnotInv, Kinds, Unhit
<1>2. \A r \in Readers : tally[r].hit \in Nat /\ tally[r].total \in Nat
  BY DEF AnnotInv
<1>3. /\ Phase2Tally.hit \in Nat /\ Phase2Tally.total \in Nat
      /\ Phase2Tally.total - Phase2Tally.hit = Phase2Unhit
      /\ Phase2Unhit \in Nat
  <2>1. CASE tally["phase2"].total = 0
    BY <1>1, <1>2, <2>1 DEF AnnotInv, Phase2Tally, Phase2Unhit, Short, Readers
  <2>2. CASE tally["phase2"].total # 0
    BY <1>1, <1>2, <2>2 DEF AnnotInv, Phase2Tally, Phase2Unhit, Short, Readers
  <2> QED
    BY <2>1, <2>2
<1>4. Phase2Passes => Phase2Unhit = 0
  BY <1>3 DEF Phase2Passes, CutsTo100
<1>5. Phase2Reports => 200 * Phase2Unhit <= Phase2Tally.total
  BY <1>3 DEF Phase2Reports, RoundsTo100Whole
<1>6. Phase1Full => Unhit = 0
  BY <1>1, <1>2 DEF AnnotInv, Phase1Full, Short, Readers
<1>7. Phase3Full => Unhit = 0
  BY <1>1, <1>2 DEF AnnotInv, Phase3Full, Short, Readers
<1>8. Phase3UvmFull => Unhit = 0
  BY <1>1, <1>2 DEF AnnotInv, Phase3UvmFull, CutsTo100, Short, Readers
<1>9. Phase3Prints => 2000 * Unhit <= tally["phase3"].total
  BY <1>1, <1>2 DEF AnnotInv, Phase3Prints, RoundsTo100, Short, Readers
<1>10. Phase4Full => 2000 * Unhit <= tally["phase4"].total
  BY <1>1, <1>2 DEF AnnotInv, Phase4Full, RoundsTo100, Short, Readers
<1>11. Unhit <= Dropped
  BY <1>1, <1>2 DEF AnnotInv, Dropped, Readers
<1> QED
  BY <1>4, <1>5, <1>6, <1>7, <1>8, <1>9, <1>10, <1>11 DEF FullMeansFull, Dropped

\* What a script's 100% says of the points never hit, however long the file and
\* whatever --annotate-min was: none, less than it rounds off, or, of
\* calc_rtl_cov, that they are among the lines it drops.
THEOREM FullIsFull == ScriptSpec => []FullMeansFull
BY AnnotInitInv, AnnotNextInv, AnnotFull, PTL DEF ScriptSpec

-----------------------------------------------------------------------------
(* The cocotb regression.                                                  *)

CaseFile(f) == f.cases \in CaseLists

CocotbInv ==
  /\ DOMAIN saved = Modules /\ DOMAIN fresh = Modules
  /\ Parsable(results_xml) => CaseFile(results_xml)
  /\ \A m \in Modules : Parsable(saved[m]) => CaseFile(saved[m])
  /\ cpc = "run" => next \in 1 .. Len(TEST_MODULES)
  /\ cpc # "idle" => \A m \in Modules : Parsable(fresh[m]) => saved[m] = fresh[m]
  /\ FailureFailsTheRun

LEMMA NoFileIsNoCase == ~Parsable(NoFile) /\ ~Parsable(Broken)
BY DEF Parsable

\* A set that some function covers from a finite one is finite.
LEMMA Covered ==
  ASSUME NEW S, IsFiniteSet(S), NEW T, NEW f \in [S -> T],
         \A t \in T : \E s \in S : f[s] = t
  PROVE  IsFiniteSet(T)
<1>1. f \in Surjection(S, T)
  BY DEF Surjection
<1> QED
  BY <1>1, FS_Surjection

LEMMA ModulesFinite == IsFiniteSet(Modules)
<1> DEFINE f == [i \in 1 .. Len(TEST_MODULES) |-> TEST_MODULES[i].module]
<1>1. IsFiniteSet(1 .. Len(TEST_MODULES))
  BY ModulesAssumption, FS_Interval
<1>2. f \in [1 .. Len(TEST_MODULES) -> Modules]
  BY DEF Modules
<1>3. \A m \in Modules : \E i \in 1 .. Len(TEST_MODULES) : f[i] = m
  BY DEF Modules
<1> HIDE DEF f
<1> QED
  BY <1>1, <1>2, <1>3, Covered

LEMMA CasesFinite ==
  ASSUME \A m \in Modules : Parsable(saved[m]) => CaseFile(saved[m])
  PROVE  IsFiniteSet(Cases)
<1> DEFINE Of(m) == {<<m, k>> : k \in 1 .. Len(saved[m].cases)}
           All == {Of(m) : m \in Merged}
           f == [m \in Merged |-> Of(m)]
<1>1. IsFiniteSet(Merged)
  BY ModulesFinite, FS_Subset DEF Merged
<1>2. IsFiniteSet(All)
  <2>1. f \in [Merged -> All]
    OBVIOUS
  <2>2. \A S \in All : \E m \in Merged : f[m] = S
    OBVIOUS
  <2> HIDE DEF f, All
  <2> QED
    BY <1>1, <2>1, <2>2, Covered
<1>3. ASSUME NEW m \in Merged PROVE IsFiniteSet(Of(m))
  <2> DEFINE g == [k \in 1 .. Len(saved[m].cases) |-> <<m, k>>]
  <2>1. Len(saved[m].cases) \in Nat
    BY ModulesAssumption DEF Merged, CaseFile
  <2>2. IsFiniteSet(1 .. Len(saved[m].cases))
    BY <2>1, FS_Interval
  <2>3. g \in [1 .. Len(saved[m].cases) -> Of(m)]
    OBVIOUS
  <2>4. \A c \in Of(m) : \E k \in 1 .. Len(saved[m].cases) : g[k] = c
    OBVIOUS
  <2> HIDE DEF g, Of
  <2> QED
    BY <2>2, <2>3, <2>4, Covered
<1>4. \A S \in All : IsFiniteSet(S)
  BY <1>3
<1>5. Cases = UNION All
  BY DEF Cases
<1> HIDE DEF All
<1> QED
  BY <1>2, <1>4, <1>5, FS_UNION

\* The merge counts a failing case that is among the copies.
LEMMA MergeSeesFailure ==
  ASSUME CocotbInv, cpc # "idle", NEW m \in Modules, Parsable(fresh[m]),
         NEW k \in 1 .. Len(fresh[m].cases), Failed(fresh[m].cases[k])
  PROVE  Count("failed") > 0
<1> DEFINE failing == {c \in Cases : Verdict(Children(c)) = "failed"}
<1>1. saved[m] = fresh[m] /\ m \in Merged
  BY DEF CocotbInv, Merged
<1>2. <<m, k>> \in Cases
  BY <1>1 DEF Cases
<1>3. Verdict(Children(<<m, k>>)) = "failed"
  BY <1>1 DEF Children, Verdict
<1>4. <<m, k>> \in failing
  BY <1>2, <1>3
<1>5. IsFiniteSet(failing)
  BY CasesFinite, FS_Subset DEF CocotbInv
<1>6. Cardinality(failing) \in Nat /\ Cardinality(failing) # 0
  BY <1>4, <1>5, FS_CardinalityType, FS_EmptySet
<1> QED
  BY <1>6 DEF Count

LEMMA CocotbInitInv == ScriptInit => CocotbInv
<1> SUFFICES ASSUME CocotbInit PROVE CocotbInv
  BY DEF ScriptInit
<1> QED
  BY NoFileIsNoCase DEF CocotbInit, CocotbInv, FailureFailsTheRun

LEMMA StartKeeps ==
  ASSUME CocotbInv, NEW skip \in BOOLEAN, CocotbStart(skip)
  PROVE  CocotbInv'
<1>1. DOMAIN saved' = Modules /\ DOMAIN fresh' = Modules
  BY DEF CocotbInv, CocotbStart
<1>2. /\ Parsable(results_xml)' => CaseFile(results_xml)'
      /\ \A m \in Modules : Parsable(saved'[m]) => CaseFile(saved'[m])
  BY DEF CocotbInv, CocotbStart, Parsable, CaseFile
<1>3. cpc' = "run" => next' \in 1 .. Len(TEST_MODULES)
  BY ModulesAssumption DEF CocotbStart
<1>4. \A m \in Modules : ~Parsable(fresh'[m])
  BY NoFileIsNoCase DEF CocotbStart
<1>5. cpc' # "done"
  BY DEF CocotbStart
<1> QED
  BY <1>1, <1>2, <1>3, <1>4, <1>5, Zenon DEF CocotbInv, FailureFailsTheRun, Parsable, CaseFile

LEMMA RunTestKeeps ==
  ASSUME CocotbInv, CocotbRunTest
  PROVE  CocotbInv'
<1> DEFINE m == TEST_MODULES[next].module
<1>1. m \in Modules /\ next \in 1 .. Len(TEST_MODULES)
  BY DEF CocotbInv, CocotbRunTest, Modules
<1>2. PICK old \in AfterClean(results_xml) : \E f \in MakeLeaves(m, old) :
        /\ results_xml' = f
        /\ saved' = Copied(m, f)
        /\ fresh' = [fresh EXCEPT ![m] = IF Parsable(f) /\ f.of = m /\ f.session = session
                                         THEN f ELSE NoFile]
  BY DEF CocotbRunTest
<1>3. PICK f \in MakeLeaves(m, old) :
        /\ results_xml' = f
        /\ saved' = Copied(m, f)
        /\ fresh' = [fresh EXCEPT ![m] = IF Parsable(f) /\ f.of = m /\ f.session = session
                                         THEN f ELSE NoFile]
  BY <1>2
<1>4. old \in {results_xml, NoFile}
  BY DEF AfterClean
<1>5. Parsable(f) => CaseFile(f)
  <2>1. CASE \E cases \in CaseLists : f = Xml(m, cases)
    BY <2>1 DEF Xml, CaseFile
  <2>2. CASE f \in {Broken, NoFile, old}
    BY <1>4, <2>2, NoFileIsNoCase DEF CocotbInv
  <2> QED
    BY <2>1, <2>2 DEF MakeLeaves
<1>6. DOMAIN saved' = Modules /\ DOMAIN fresh' = Modules
  BY <1>3 DEF CocotbInv, Copied
<1>7. \A n \in Modules : saved'[n] = IF n = m /\ f # NoFile THEN f ELSE saved[n]
  BY <1>1, <1>3 DEF CocotbInv, Copied
<1>8. \A n \in Modules : Parsable(saved'[n]) => CaseFile(saved'[n])
  BY <1>5, <1>7 DEF CocotbInv
<1>9. \A n \in Modules : Parsable(fresh'[n]) => saved'[n] = fresh'[n]
  <2>1. ASSUME NEW n \in Modules, Parsable(fresh'[n]) PROVE saved'[n] = fresh'[n]
    <3>1. CASE n # m
      BY <1>3, <1>7, <2>1, <3>1 DEF CocotbInv, CocotbRunTest
    <3>2. CASE n = m
      <4>1. m \in DOMAIN fresh
        BY <1>1 DEF CocotbInv
      <4>2. fresh'[m] = IF Parsable(f) /\ f.of = m /\ f.session = session THEN f ELSE NoFile
        BY <1>3, <4>1
      <4>3. fresh'[m] = f /\ f # NoFile
        BY <2>1, <3>2, <4>2, NoFileIsNoCase
      <4> QED
        BY <1>1, <1>7, <3>2, <4>3
    <3> QED
      BY <3>1, <3>2
  <2> QED
    BY <2>1
<1>10. cpc' = "run" => next' \in 1 .. Len(TEST_MODULES)
  BY <1>1, ModulesAssumption DEF CocotbRunTest
<1>11. cpc' # "done"
  BY DEF CocotbRunTest
<1>12. Parsable(results_xml') => CaseFile(results_xml')
  BY <1>3, <1>5
<1> QED
  BY <1>6, <1>8, <1>9, <1>10, <1>11, <1>12, Zenon
  DEF CocotbInv, FailureFailsTheRun, Parsable, CaseFile

LEMMA MergeKeeps ==
  ASSUME CocotbInv, CocotbMerge
  PROVE  CocotbInv'
<1>1. /\ UNCHANGED <<results_xml, saved, next, fresh, no_run>>
      /\ cpc = "merge" /\ cpc' = "done"
      /\ status' = IF Count("failed") > 0 THEN 1 ELSE 0
  BY DEF CocotbMerge
<1>2. ASSUME NEW m \in Modules, Parsable(fresh'[m]),
             NEW k \in 1 .. Len(fresh'[m].cases), Failed(fresh'[m].cases[k])
      PROVE  status' = 1
  BY <1>1, <1>2, MergeSeesFailure
<1>3. FailureFailsTheRun'
  BY <1>2 DEF FailureFailsTheRun, Parsable, Failed
<1> QED
  BY <1>1, <1>3, Zenon DEF CocotbInv, Parsable, CaseFile

LEMMA CocotbNextInv == CocotbInv /\ [ScriptNext]_scriptVars => CocotbInv'
<1> SUFFICES ASSUME CocotbInv, [ScriptNext]_scriptVars PROVE CocotbInv'
  OBVIOUS
<1>1. CASE UNCHANGED cocotbVars
  BY <1>1 DEF cocotbVars, CocotbInv, FailureFailsTheRun, Parsable, CaseFile, Failed
<1>2. CASE CocotbInterrupt
  BY <1>2 DEF CocotbInterrupt, CocotbInv, FailureFailsTheRun, Parsable, CaseFile
<1>3. CASE CleanCocotb
  BY <1>3, NoFileIsNoCase DEF CleanCocotb, CocotbInv, FailureFailsTheRun, Parsable, CaseFile
<1>4. CASE Regress
  BY <1>1, <1>2, <1>3, <1>4, StartKeeps, RunTestKeeps, MergeKeeps DEF Regress, Clean
<1> QED
  BY <1>1, <1>4 DEF ScriptNext, scriptVars

\* A failing test case that a simulation of this session wrote makes the call
\* fail: for any modules, any results and any history of killed, interrupted and
\* cleaned-up calls before it.
THEOREM FailureFails == ScriptSpec => []FailureFailsTheRun
<1>1. CocotbInv => FailureFailsTheRun
  BY DEF CocotbInv
<1> QED
  BY <1>1, CocotbInitInv, CocotbNextInv, PTL DEF ScriptSpec

\* In a call that began with a clean tree and left no older file in place, what
\* the merge will read is what this call wrote.
Own == ~no_run /\ tidy /\ ~kept

CleanInv ==
  /\ cpc = "idle" /\ tidy => \A m \in Modules : ~Parsable(saved[m])
  /\ cpc # "idle" /\ Own => \A m \in Modules : Parsable(saved[m]) => saved[m] = fresh[m]
  /\ cpc = "run" /\ tidy =>
       \A i \in next .. Len(TEST_MODULES) : ~Parsable(saved[TEST_MODULES[i].module])
  /\ CleanRunCountsItself

\* Every case is passed, failed or skipped, and only one of them.
LEMMA VerdictsAddUp ==
  ASSUME IsFiniteSet(Cases)
  PROVE  Cardinality(Cases) = Count("passed") + Count("failed") + Count("skipped")
<1> DEFINE Of(v) == {c \in Cases : Verdict(Children(c)) = v}
<1>1. IsFiniteSet(Of("passed")) /\ IsFiniteSet(Of("failed")) /\ IsFiniteSet(Of("skipped"))
  BY FS_Subset
<1>2. \A c \in Cases : Verdict(Children(c)) \in {"passed", "failed", "skipped"}
  BY DEF Verdict
<1>3. /\ Cases = (Of("passed") \cup Of("failed")) \cup Of("skipped")
      /\ Of("passed") \cap Of("failed") = {}
      /\ (Of("passed") \cup Of("failed")) \cap Of("skipped") = {}
  BY <1>2
<1>4. /\ Count("passed") = Cardinality(Of("passed"))
      /\ Count("failed") = Cardinality(Of("failed"))
      /\ Count("skipped") = Cardinality(Of("skipped"))
  BY DEF Count
<1> HIDE DEF Of
<1>5. /\ IsFiniteSet(Of("passed") \cup Of("failed"))
      /\ Cardinality(Of("passed") \cup Of("failed")) =
           Cardinality(Of("passed")) + Cardinality(Of("failed")) - Cardinality({})
  BY <1>1, <1>3, FS_Union
<1>6. Cardinality(Cases) =
        Cardinality(Of("passed") \cup Of("failed")) + Cardinality(Of("skipped")) - Cardinality({})
  BY <1>1, <1>3, <1>5, FS_Union
<1>7. /\ Cardinality({}) = 0
      /\ Cardinality(Of("passed")) \in Nat /\ Cardinality(Of("failed")) \in Nat
      /\ Cardinality(Of("skipped")) \in Nat
  BY <1>1, FS_EmptySet, FS_CardinalityType
<1> QED
  BY <1>4, <1>5, <1>6, <1>7

LEMMA CleanMerge ==
  ASSUME CocotbInv, CleanInv, CocotbMerge
  PROVE  CleanInv'
<1>1. /\ cpc = "merge" /\ cpc' = "done" /\ report' = Summary
      /\ UNCHANGED <<saved, fresh, no_run, tidy, kept>>
  BY DEF CocotbMerge
<1>2. ASSUME Own
      PROVE  /\ report'.tests = Cardinality(FreshCases)
             /\ report'.failed =
                  Cardinality({c \in FreshCases : Failed(fresh[c[1]].cases[c[2]])})
             /\ report'.tests = report'.passed + report'.failed + report'.skipped
  <2>1. \A m \in Modules : Parsable(saved[m]) <=> Parsable(fresh[m])
    <3>1. \A m \in Modules : Parsable(saved[m]) => saved[m] = fresh[m]
      BY <1>1, <1>2 DEF CleanInv
    <3>2. \A m \in Modules : Parsable(fresh[m]) => saved[m] = fresh[m]
      BY <1>1 DEF CocotbInv
    <3> QED
      BY <3>1, <3>2
  <2>2. \A m \in Merged : saved[m] = fresh[m]
    BY <1>1, <1>2 DEF CleanInv, Merged
  <2>3. Merged = {n \in Modules : Parsable(fresh[n])}
    BY <2>1 DEF Merged
  <2>4. Cases = FreshCases
    BY <2>2, <2>3 DEF Cases, FreshCases
  <2>5. \A c \in Cases : saved[c[1]] = fresh[c[1]]
    BY <2>2 DEF Cases
  <2>6. \A c \in Cases : Verdict(Children(c)) = "failed" <=> Failed(fresh[c[1]].cases[c[2]])
    BY <2>5 DEF Verdict, Children
  <2>7. {c \in Cases : Verdict(Children(c)) = "failed"}
          = {c \in FreshCases : Failed(fresh[c[1]].cases[c[2]])}
    BY <2>4, <2>6
  <2>8. Cardinality(Cases) = Count("passed") + Count("failed") + Count("skipped")
    BY CasesFinite, VerdictsAddUp DEF CocotbInv
  <2>9. Count("failed") = Cardinality({c \in FreshCases : Failed(fresh[c[1]].cases[c[2]])})
    BY <2>7 DEF Count
  <2>10. /\ report'.tests = Cardinality(Cases) /\ report'.passed = Count("passed")
         /\ report'.failed = Count("failed") /\ report'.skipped = Count("skipped")
    BY <1>1 DEF Summary
  <2> QED
    BY <2>4, <2>8, <2>9, <2>10
<1>3. CleanRunCountsItself'
  <2>1. FreshCases' = FreshCases
    BY <1>1 DEF FreshCases, Parsable
  <2> QED
    BY <1>1, <1>2, <2>1 DEF CleanRunCountsItself, Own, Failed
<1> QED
  BY <1>1, <1>3 DEF CleanInv, Own, Parsable

LEMMA CleanRunTest ==
  ASSUME CocotbInv, CleanInv, CocotbRunTest
  PROVE  CleanInv'
<1> DEFINE m == TEST_MODULES[next].module
<1>1. /\ m \in Modules /\ cpc = "run" /\ cpc' \in {"run", "merge"}
      /\ UNCHANGED <<session, no_run, tidy>>
  BY DEF CocotbInv, CocotbRunTest, Modules
<1>2. PICK old \in AfterClean(results_xml) : \E f \in MakeLeaves(m, old) :
        /\ saved' = Copied(m, f)
        /\ fresh' = [fresh EXCEPT ![m] = IF Parsable(f) /\ f.of = m /\ f.session = session
                                         THEN f ELSE NoFile]
        /\ kept' = (kept \/ (f # NoFile /\ f = old))
  BY DEF CocotbRunTest
<1>3. PICK f \in MakeLeaves(m, old) :
        /\ saved' = Copied(m, f)
        /\ fresh' = [fresh EXCEPT ![m] = IF Parsable(f) /\ f.of = m /\ f.session = session
                                         THEN f ELSE NoFile]
        /\ kept' = (kept \/ (f # NoFile /\ f = old))
  BY <1>2
<1>4. ASSUME Own', NEW n \in Modules, Parsable(saved'[n])
      PROVE  saved'[n] = fresh'[n]
  <2>1. ~kept /\ Own /\ ~(f # NoFile /\ f = old)
    BY <1>1, <1>3, <1>4, Zenon DEF Own
  <2>2. DOMAIN saved = Modules /\ DOMAIN fresh = Modules
    BY DEF CocotbInv
  <2>3. \A k \in Modules : Parsable(saved[k]) => saved[k] = fresh[k]
    BY <1>1, <2>1 DEF CleanInv
  <2>4. CASE n # m
    BY <1>1, <1>3, <1>4, <2>2, <2>3, <2>4 DEF Copied
  <2>5. CASE n = m /\ f = NoFile
    <3>1. saved' = saved /\ Parsable(saved[m])
      BY <1>3, <1>4, <2>5 DEF Copied
    <3>2. tidy /\ next \in next .. Len(TEST_MODULES)
      BY <1>1, <2>1, ModulesAssumption DEF Own, CocotbInv
    <3> QED
      BY <1>1, <3>1, <3>2 DEF CleanInv
  <2>6. CASE n = m /\ f # NoFile
    <3>1. saved'[m] = f /\ Parsable(f)
      BY <1>1, <1>3, <1>4, <2>2, <2>6 DEF Copied
    <3>2. \E cases \in CaseLists : f = Xml(m, cases)
      BY <2>1, <2>6, <3>1, NoFileIsNoCase DEF MakeLeaves
    <3>3. f.of = m /\ f.session = session
      BY <3>2 DEF Xml
    <3> QED
      BY <1>1, <1>3, <2>2, <2>6, <3>1, <3>3
  <2> QED
    BY <2>4, <2>5, <2>6
<1>5. ASSUME cpc' = "run", tidy', NEW i \in next' .. Len(TEST_MODULES)
      PROVE  ~Parsable(saved'[TEST_MODULES[i].module])
  <2>1. /\ next \in 1 .. Len(TEST_MODULES) /\ next' = next + 1 /\ tidy
        /\ Len(TEST_MODULES) \in Nat
    BY <1>1, <1>5, ModulesAssumption DEF CocotbInv, CocotbRunTest
  <2>2. i \in next .. Len(TEST_MODULES) /\ i \in 1 .. Len(TEST_MODULES) /\ i # next
    BY <2>1, <1>5
  <2>3. TEST_MODULES[i].module # m
    BY <2>1, <2>2, ModulesAssumption
  <2>4. ~Parsable(saved[TEST_MODULES[i].module])
    BY <1>1, <2>1, <2>2 DEF CleanInv
  <2>5. saved'[TEST_MODULES[i].module] = saved[TEST_MODULES[i].module]
    BY <1>3, <2>3 DEF Copied
  <2> QED
    BY <2>4, <2>5
<1>6. CleanRunCountsItself'
  BY <1>1 DEF CleanRunCountsItself
<1>7. cpc' # "idle"
  BY <1>1
<1>8. Own' => \A n \in Modules : Parsable(saved'[n]) => saved'[n] = fresh'[n]
  BY <1>4
<1> HIDE DEF m
<1> QED
  BY <1>5, <1>6, <1>7, <1>8, Zenon DEF CleanInv, Parsable, Own

LEMMA CleanStart ==
  ASSUME CleanInv, NEW skip \in BOOLEAN, CocotbStart(skip)
  PROVE  CleanInv'
<1>1. /\ cpc' # "idle" /\ cpc' # "done" /\ saved' = saved
      /\ tidy' => tidy /\ cpc = "idle"
      /\ next' = 1
  BY DEF CocotbStart
<1>2. ASSUME tidy' PROVE \A m \in Modules : ~Parsable(saved'[m])
  BY <1>1, <1>2 DEF CleanInv
<1>3. \A i \in 1 .. Len(TEST_MODULES) : TEST_MODULES[i].module \in Modules
  BY DEF Modules
<1> QED
  BY <1>1, <1>2, <1>3 DEF CleanInv, CleanRunCountsItself, Own, Parsable

LEMMA CleanInitInv == ScriptInit => CleanInv
BY DEF ScriptInit, CocotbInit, CleanInv, CleanRunCountsItself

LEMMA CleanNextInv == CocotbInv /\ CleanInv /\ [ScriptNext]_scriptVars => CleanInv'
<1> SUFFICES ASSUME CocotbInv, CleanInv, [ScriptNext]_scriptVars PROVE CleanInv'
  OBVIOUS
<1>1. CASE UNCHANGED cocotbVars
  BY <1>1 DEF cocotbVars, CleanInv, CleanRunCountsItself, Own, FreshCases, Parsable, Failed
<1>2. CASE CocotbInterrupt
  BY <1>2 DEF CocotbInterrupt, CleanInv, CleanRunCountsItself
<1>3. CASE CleanCocotb
  BY <1>3, NoFileIsNoCase DEF CleanCocotb, CleanInv, CleanRunCountsItself, Parsable
<1>4. CASE Regress
  BY <1>1, <1>2, <1>3, <1>4, CleanStart, CleanRunTest, CleanMerge DEF Regress, Clean
<1> QED
  BY <1>1, <1>4 DEF ScriptNext, scriptVars

\* After the mandatory cleaning the report counts this session's test cases, each
\* once, and its three counts add up.
THEOREM CleanRunCounts == ScriptSpec => []CleanRunCountsItself
<1>1. ScriptInit => CocotbInv /\ CleanInv
  BY CocotbInitInv, CleanInitInv
<1>2. CocotbInv /\ CleanInv /\ [ScriptNext]_scriptVars => (CocotbInv /\ CleanInv)'
  BY CocotbNextInv, CleanNextInv
<1>3. CleanInv => CleanRunCountsItself
  BY DEF CleanInv
<1> QED
  BY <1>1, <1>2, <1>3, PTL DEF ScriptSpec

-----------------------------------------------------------------------------
(* The UVM regression.                                                     *)

LEMMA GroupsShape ==
  /\ Len(Groups) \in Nat /\ Len(Groups) >= 1
  /\ \A g \in 1 .. Len(Groups) : /\ Len(Groups[g].tests) \in Nat
                                 /\ Len(Groups[g].tests) >= 1
<1> DEFINE Group == [toplevel : STRING, tests : Seq(STRING) \ {<<>>}]
           first == <<[toplevel |-> DefaultTop, tests |-> ALL_TESTS]>>
<1>1. first \in Seq(Group) /\ Len(first) = 1
  BY GroupsAssumption
<1>2. EXTRA_TOPLEVEL_TESTS \in Seq(Group)
  BY GroupsAssumption
<1>3. Groups = first \o EXTRA_TOPLEVEL_TESTS
  BY DEF Groups
<1> HIDE DEF first, Group
<1>4. Groups \in Seq(Group) /\ Len(Groups) = 1 + Len(EXTRA_TOPLEVEL_TESTS)
  <2>1. /\ first \in Seq(Group) /\ EXTRA_TOPLEVEL_TESTS \in Seq(Group)
        /\ Len(first) = 1 /\ Groups = first \o EXTRA_TOPLEVEL_TESTS
    BY <1>1, <1>2, <1>3, Zenon
  <2>2. /\ first \o EXTRA_TOPLEVEL_TESTS \in Seq(Group)
        /\ Len(first \o EXTRA_TOPLEVEL_TESTS) = Len(first) + Len(EXTRA_TOPLEVEL_TESTS)
    BY <2>1, ConcatProperties, Zenon
  <2> QED
    BY <2>1, <2>2, Zenon
<1>5. Len(EXTRA_TOPLEVEL_TESTS) \in Nat
  BY <1>2, LenProperties
<1>6. ASSUME NEW g \in 1 .. Len(Groups)
      PROVE  Groups[g].tests \in Seq(STRING) /\ Groups[g].tests # <<>>
  <2>1. Groups[g] \in Group
    BY <1>4, <1>6, ElementOfSeq
  <2> QED
    BY <2>1 DEF Group
<1>7. \A s \in Seq(STRING) : s # <<>> => Len(s) \in Nat /\ Len(s) >= 1
  BY EmptySeq
<1> QED
  BY <1>4, <1>5, <1>6, <1>7

\* The call has a result for t, and a pass is this session's.
Ran(t) == /\ t \in DOMAIN results
          /\ results[t].passed => results[t].log.session = uvm_session

Counted(g) == \A t \in TestsOf(g) : Ran(t)
LostGroup(g) == \E t \in TestsOf(g) : t \in DOMAIN results /\ ~results[t].passed

Running == upc \in {"compile", "test"}

UvmInv ==
  /\ Running => ~parse_only /\ group \in 1 .. Len(Groups)
  /\ upc = "compile" => test = 1
  /\ upc = "compile" /\ group # 1 => simv # NoBinary
  /\ upc = "test" => simv # NoBinary /\ test \in 1 .. Len(Groups[group].tests)
  /\ Running => \A g \in 1 .. group - 1 : Counted(g)
  /\ upc = "test" => \A i \in 1 .. test - 1 : Ran(Groups[group].tests[i])
  /\ Running /\ failed_build => \E g \in 1 .. group - 1 : LostGroup(g)
  /\ upc = "parse" => parse_only
  /\ upc = "report" /\ ~parse_only => \A g \in 1 .. Len(Groups) : Counted(g)
  /\ upc = "report" /\ ~parse_only /\ failed_build => \E g \in 1 .. Len(Groups) : LostGroup(g)
  /\ UvmPassMeansRan

LEMMA UvmInitInv == ScriptInit => UvmInv
<1> SUFFICES ASSUME UvmInit PROVE UvmInv
  BY DEF ScriptInit
<1> QED
  BY DEF UvmInit, UvmInv, Running, UvmPassMeansRan, Completed

\* After the last test of a group: the next group, or the report.
LEMMA GroupDone ==
  ASSUME group \in 1 .. Len(Groups), NextGroup, ~parse_only', test' = 1,
         simv' # NoBinary,
         \A g \in 1 .. group : Counted(g)',
         failed_build' => \E g \in 1 .. group : LostGroup(g)'
  PROVE  UvmInv'
<1>1. Len(Groups) \in Nat /\ group \in Int
  BY GroupsShape
<1>2. CASE group = Len(Groups)
  <2>1. upc' = "report"
    BY <1>2 DEF NextGroup
  <2> QED
    BY <1>2, <2>1 DEF UvmInv, Running, UvmPassMeansRan, Completed
<1>3. CASE group # Len(Groups)
  <2>1. upc' = "compile" /\ group' = group + 1
    BY <1>3 DEF NextGroup
  <2>2. group' \in 1 .. Len(Groups) /\ group' - 1 = group
    BY <1>1, <1>3, <2>1
  <2>3. /\ \A g \in 1 .. group' - 1 : Counted(g)'
        /\ failed_build' => \E g \in 1 .. group' - 1 : LostGroup(g)'
    BY <2>2
  <2> QED
    BY <2>1, <2>2, <2>3 DEF UvmInv, Running, UvmPassMeansRan, Completed
<1> QED
  BY <1>2, <1>3

LEMMA UvmStartKeeps ==
  ASSUME NEW skip_compile \in BOOLEAN, NEW skip_run \in BOOLEAN,
         UvmStart(skip_compile, skip_run)
  PROVE  UvmInv'
<1>1. Len(Groups) \in Nat /\ Len(Groups) >= 1
  BY GroupsShape
<1>2. /\ upc' = IF skip_run THEN "parse" ELSE "compile"
      /\ parse_only' = skip_run /\ ~failed_build'
      /\ group' = 1 /\ test' = 1
  BY DEF UvmStart
<1>3. 1 .. group' - 1 = {} /\ group' \in 1 .. Len(Groups)
  BY <1>1, <1>2
<1> QED
  BY <1>2, <1>3 DEF UvmInv, Running, UvmPassMeansRan, Completed

LEMMA CompileFailsKeeps ==
  ASSUME UvmInv, CompileFails
  PROVE  UvmInv'
<1>1. /\ upc = "compile" /\ Running /\ group \in 1 .. Len(Groups) /\ ~parse_only
      /\ UNCHANGED <<uvm_session, parse_only, test, simv>>
  BY DEF CompileFails, UvmInv, Running
<1>2. CASE group = 1
  <2>1. upc' = "done" /\ exit' = 2
    BY <1>2 DEF CompileFails
  <2> QED
    BY <2>1 DEF UvmInv, Running, UvmPassMeansRan, Completed
<1>3. CASE group # 1
  <2>1. NextGroup /\ results' = GroupFailed
    BY <1>3 DEF CompileFails
  <2> PICK g0 \in 1 .. Len(Groups) : g0 = group
    BY <1>1
  <2>2. \A t \in TestsOf(g0) : t \in DOMAIN results' /\ ~results'[t].passed
    BY <2>1 DEF GroupFailed
  <2>3. ASSUME NEW t, Ran(t) PROVE Ran(t)'
    BY <1>1, <2>1, <2>3 DEF Ran, GroupFailed
  <2>4. \A g \in 1 .. group : Counted(g)'
    <3>1. Counted(g0)'
      BY <2>2 DEF Counted, Ran
    <3>2. ASSUME NEW g \in 1 .. group, g # g0 PROVE Counted(g)'
      <4>1. g \in 1 .. group - 1
        BY <1>1, <3>2, GroupsShape
      <4>2. Counted(g)
        BY <1>1, <4>1 DEF UvmInv
      <4> QED
        BY <2>3, <4>2 DEF Counted
    <3> QED
      BY <3>1, <3>2
  <2>5. \E g \in 1 .. group : LostGroup(g)'
    <3>1. Groups[g0].tests[1] \in TestsOf(g0)
      BY GroupsShape DEF TestsOf
    <3>2. LostGroup(g0)'
      BY <2>2, <3>1 DEF LostGroup
    <3>3. g0 \in 1 .. group
      BY <1>1, GroupsShape
    <3> QED
      BY <3>2, <3>3
  <2>6. test' = 1 /\ simv' # NoBinary
    BY <1>1, <1>3 DEF UvmInv
  <2> QED
    BY <1>1, <2>1, <2>4, <2>5, <2>6, GroupDone
<1> QED
  BY <1>2, <1>3

LEMMA CompileOrSkipKeeps ==
  ASSUME UvmInv, CompileOrSkip
  PROVE  UvmInv'
<1>1. /\ upc = "compile" /\ Running /\ group \in 1 .. Len(Groups) /\ ~parse_only
      /\ test = 1
      /\ UNCHANGED <<uvm_session, parse_only, test, simv, results, failed_build>>
      /\ group # 1 => simv # NoBinary
  BY DEF CompileOrSkip, UvmInv, Running
<1>2. CASE simv # NoBinary
  <2>1. upc' = "test" /\ group' = group
    BY <1>2 DEF CompileOrSkip
  <2>2. test' \in 1 .. Len(Groups[group'].tests) /\ 1 .. test' - 1 = {}
    BY <1>1, <2>1, GroupsShape
  <2>3. /\ \A g \in 1 .. group - 1 : Counted(g)'
        /\ failed_build' => \E g \in 1 .. group - 1 : LostGroup(g)'
    BY <1>1 DEF UvmInv, Counted, Ran, LostGroup
  <2> QED
    BY <1>1, <1>2, <2>1, <2>2, <2>3 DEF UvmInv, Running, UvmPassMeansRan, Completed
<1>3. CASE simv = NoBinary
  <2>1. upc' = "done" /\ exit' = 2
    BY <1>1, <1>3 DEF CompileOrSkip
  <2> QED
    BY <2>1 DEF UvmInv, Running, UvmPassMeansRan, Completed
<1> QED
  BY <1>2, <1>3

LEMMA RunUvmTestKeeps ==
  ASSUME UvmInv, RunUvmTest
  PROVE  UvmInv'
<1>1. /\ upc = "test" /\ Running /\ group \in 1 .. Len(Groups) /\ ~parse_only
      /\ simv # NoBinary /\ test \in 1 .. Len(Groups[group].tests)
      /\ UNCHANGED <<uvm_session, parse_only, simv, failed_build>>
  BY DEF RunUvmTest, UvmInv, Running
<1> PICK g0 \in 1 .. Len(Groups) : g0 = group
  BY <1>1
<1> PICK i0 \in 1 .. Len(Groups[g0].tests) : i0 = test
  BY <1>1
<1> DEFINE t == Groups[g0].tests[i0]
           n == Len(Groups[g0].tests)
<1>2. PICK r : results' = Add(t, r) /\ r.log.session = uvm_session
  <2>1. PICK passed \in BOOLEAN :
          results' = Add(t, [passed |-> Output(t, passed).passed, log |-> Output(t, passed)])
    BY DEF RunUvmTest
  <2>2. Output(t, passed).session = uvm_session
    BY DEF Output
  <2>3. [passed |-> Output(t, passed).passed, log |-> Output(t, passed)].log.session = uvm_session
    BY <2>2
  <2> QED
    BY <2>1, <2>3
<1>3. Ran(t)'
  BY <1>1, <1>2 DEF Ran, Add
<1>4. ASSUME NEW u, Ran(u) PROVE Ran(u)'
  BY <1>1, <1>2, <1>4 DEF Ran, Add
<1>5. t \in TestsOf(g0) /\ n \in Nat /\ Len(Groups) \in Nat
  BY GroupsShape DEF TestsOf
<1>6. \A g \in 1 .. g0 - 1 : Counted(g)'
  BY <1>1, <1>4 DEF UvmInv, Counted
<1>7. ASSUME failed_build' PROVE \E g \in 1 .. g0 - 1 : LostGroup(g)'
  <2>1. PICK g \in 1 .. g0 - 1 : LostGroup(g)
    BY <1>1, <1>7 DEF UvmInv
  <2>2. g \in 1 .. Len(Groups) /\ g # g0
    BY <1>5
  <2>3. t \notin TestsOf(g)
    BY <1>5, <2>2, GroupsAssumption
  <2>4. LostGroup(g)'
    BY <1>2, <2>1, <2>3 DEF LostGroup, Add
  <2> QED
    BY <2>4
<1>8. ASSUME NEW i \in 1 .. i0 PROVE Ran(Groups[g0].tests[i])'
  <2>1. CASE i # i0
    <3>1. i \in 1 .. test - 1
      BY <1>5, <2>1
    <3> QED
      BY <1>1, <1>4, <3>1 DEF UvmInv
  <2> QED
    BY <1>3, <2>1
<1> HIDE DEF t, n
<1>9. CASE i0 < n
  <2>1. test' = i0 + 1 /\ group' = g0 /\ upc' = "test"
    BY <1>9 DEF RunUvmTest, n
  <2>2. test' \in 1 .. n /\ test' - 1 = i0
    BY <1>5, <1>9, <2>1 DEF n
  <2>3. \A i \in 1 .. test' - 1 : Ran(Groups[g0].tests[i])'
    BY <1>8, <2>2
  <2>4. (upc = "test" => \A i \in 1 .. test - 1 : Ran(Groups[group].tests[i]))'
    BY <2>1, <2>3
  <2>5. (upc = "test" => simv # NoBinary /\ test \in 1 .. Len(Groups[group].tests))'
    BY <1>1, <2>1, <2>2 DEF n
  <2>6. (Running => ~parse_only /\ group \in 1 .. Len(Groups))'
    BY <1>1, <2>1
  <2>7. (Running => \A g \in 1 .. group - 1 : Counted(g))'
    BY <1>6, <2>1
  <2>8. (Running /\ failed_build => \E g \in 1 .. group - 1 : LostGroup(g))'
    BY <1>7, <2>1
  <2> QED
    BY <2>1, <2>4, <2>5, <2>6, <2>7, <2>8 DEF UvmInv, UvmPassMeansRan, Completed
<1>10. CASE ~(i0 < n)
  <2>1. test' = 1 /\ NextGroup
    BY <1>10 DEF RunUvmTest, n
  <2>2. i0 = n
    BY <1>5, <1>10 DEF n
  <2>3. Counted(g0)'
    BY <1>8, <2>2 DEF Counted, TestsOf, n
  <2>4. \A g \in 1 .. g0 : g = g0 \/ g \in 1 .. g0 - 1
    BY <1>5
  <2>5. \A g \in 1 .. group : Counted(g)'
    BY <1>6, <2>3, <2>4
  <2>6. failed_build' => \E g \in 1 .. group : LostGroup(g)'
    BY <1>5, <1>7
  <2> QED
    BY <1>1, <2>1, <2>5, <2>6, GroupDone
<1> QED
  BY <1>9, <1>10

LEMMA BuildReportKeeps ==
  ASSUME UvmInv, BuildReport
  PROVE  UvmInv'
<1>1. /\ upc = "report" /\ upc' = "done"
      /\ UNCHANGED <<uvm_session, parse_only, results, failed_build>>
      /\ exit' = 0 => UvmFailed = {}
  BY DEF BuildReport
<1>2. ASSUME ~parse_only, exit' = 0
      PROVE  /\ ~failed_build
             /\ \A t \in Tests : /\ t \in DOMAIN results /\ results[t].passed
                                /\ results[t].log.session = uvm_session
  <2>1. \A t \in DOMAIN results : results[t].passed
    BY <1>1, <1>2 DEF UvmFailed
  <2>2. ~failed_build
    BY <1>1, <1>2, <2>1 DEF UvmInv, LostGroup
  <2>3. \A t \in Tests : Ran(t)
    BY <1>1, <1>2 DEF UvmInv, Counted, Tests
  <2> QED
    BY <2>1, <2>2, <2>3 DEF Ran
<1>3. UvmPassMeansRan'
  BY <1>1, <1>2 DEF UvmPassMeansRan, Completed
<1> QED
  BY <1>1, <1>3 DEF UvmInv, Running

LEMMA UvmNextInv == UvmInv /\ [ScriptNext]_scriptVars => UvmInv'
<1> SUFFICES ASSUME UvmInv, [ScriptNext]_scriptVars PROVE UvmInv'
  OBVIOUS
<1>1. CASE UNCHANGED uvmVars
  BY <1>1 DEF uvmVars, UvmInv, Running, Counted, Ran, LostGroup, UvmPassMeansRan, Completed
<1>2. CASE ParseLogs
  BY <1>2 DEF ParseLogs, UvmInv, Running, UvmPassMeansRan, Completed
<1>3. CASE UvmInterrupt \/ CleanUvm
  BY <1>3 DEF UvmInterrupt, CleanUvm, UvmInv, Running, UvmPassMeansRan, Completed
<1>4. CASE Regress
  BY <1>1, <1>2, <1>3, <1>4, UvmStartKeeps, CompileFailsKeeps, CompileOrSkipKeeps,
     RunUvmTestKeeps, BuildReportKeeps DEF Regress, Clean
<1> QED
  BY <1>1, <1>4 DEF ScriptNext, scriptVars

\* A call that runs the tests and exits with 0 has compiled every toplevel and
\* run every test of every group, for any lists of tests and any history.
THEOREM PassMeansRan == ScriptSpec => []UvmPassMeansRan
<1>1. UvmInv => UvmPassMeansRan
  BY DEF UvmInv
<1> QED
  BY <1>1, UvmInitInv, UvmNextInv, PTL DEF ScriptSpec

-----------------------------------------------------------------------------
(* Sums over finite sets.                                                  *)

\* Induction, of a set of numbers.
LEMMA AllNumbers ==
  ASSUME NEW S, 0 \in S, \A n \in Nat : n \in S => n + 1 \in S
  PROVE  Nat \subseteq S
<1> SUFFICES ASSUME Nat \ S # {} PROVE FALSE
  OBVIOUS
<1> DEFINE R == OpToRel(<, Nat)
<1>1. \A a, b \in Nat : <<a, b>> \in R <=> a < b
  BY DEF OpToRel
<1>2. IsWellFoundedOn(R, Nat)
  BY NatLessThanWellFounded
<1> HIDE DEF R
<1>3. PICK n \in Nat \ S : \A k \in Nat \ S : ~(<<k, n>> \in R)
  BY <1>2, WFMin
<1>4. n # 0 /\ n - 1 \in Nat /\ n - 1 < n /\ (n - 1) + 1 = n
  BY <1>3
<1>5. n - 1 \in S
  BY <1>1, <1>3, <1>4
<1> QED
  BY <1>3, <1>4, <1>5

\* What MapThenSumSet adds up, element by element.
FirstOf(s) == CHOOSE x \in s : TRUE
OthersOf(s) == s \ {FirstOf(s)}
SumsTo(g, f, D) == g = [s \in D |-> IF s = {} THEN 0 ELSE f[FirstOf(s)] + g[OthersOf(s)]]

LEMMA OneLess ==
  ASSUME NEW S, IsFiniteSet(S), NEW s \in SUBSET S, s # {}
  PROVE  /\ FirstOf(s) \in s /\ OthersOf(s) \in SUBSET S
         /\ Cardinality(s) \in Nat /\ Cardinality(s) # 0
         /\ Cardinality(OthersOf(s)) = Cardinality(s) - 1
<1>1. FirstOf(s) \in s
  BY DEF FirstOf
<1>2. IsFiniteSet(s)
  BY FS_Subset
<1> QED
  BY <1>1, <1>2, FS_RemoveElement, FS_CardinalityType, FS_EmptySet DEF OthersOf

LEMMA SumOfAll ==
  ASSUME NEW S, IsFiniteSet(S), NEW f PROVE \E g : SumsTo(g, f, SUBSET S)
<1> DEFINE D(n) == {s \in SUBSET S : Cardinality(s) <= n}
           P == {n \in Nat : \E g : SumsTo(g, f, D(n))}
<1>1. 0 \in P
  <2> DEFINE g == [s \in D(0) |-> 0]
  <2>1. \A s \in D(0) : s = {}
    <3> SUFFICES ASSUME NEW s \in D(0), s # {} PROVE FALSE
      OBVIOUS
    <3> QED
      BY OneLess
  <2>2. SumsTo(g, f, D(0))
    BY <2>1 DEF SumsTo
  <2> HIDE DEF g
  <2> QED
    BY <2>2
<1>2. ASSUME NEW n \in Nat, n \in P PROVE n + 1 \in P
  <2>1. PICK g : SumsTo(g, f, D(n))
    BY <1>2
  <2> DEFINE h == [s \in D(n + 1) |-> IF s = {} THEN 0 ELSE f[FirstOf(s)] + g[OthersOf(s)]]
  <2>2. ASSUME NEW s \in D(n + 1), s # {} PROVE g[OthersOf(s)] = h[OthersOf(s)]
    <3>1. OthersOf(s) \in D(n) /\ OthersOf(s) \in D(n + 1)
      <4>1. s \in SUBSET S /\ Cardinality(s) <= n + 1
        BY <2>2
      <4>2. OthersOf(s) \in SUBSET S /\ Cardinality(s) \in Nat /\ Cardinality(OthersOf(s)) = Cardinality(s) - 1
        BY <2>2, <4>1, OneLess
      <4> QED
        BY <4>1, <4>2
    <3> HIDE DEF D
    <3>2. PICK t : t = OthersOf(s)
      OBVIOUS
    <3>3. g[t] = IF t = {} THEN 0 ELSE f[FirstOf(t)] + g[OthersOf(t)]
      BY <2>1, <3>1, <3>2 DEF SumsTo
    <3>4. h[t] = IF t = {} THEN 0 ELSE f[FirstOf(t)] + g[OthersOf(t)]
      BY <3>1, <3>2
    <3> QED
      BY <3>2, <3>3, <3>4
  <2>3. SumsTo(h, f, D(n + 1))
    <3> DEFINE H == [s \in D(n + 1) |-> IF s = {} THEN 0 ELSE f[FirstOf(s)] + h[OthersOf(s)]]
    <3> HIDE DEF D
    <3>1. \A s \in D(n + 1) : h[s] = H[s]
      <4> SUFFICES ASSUME NEW s \in D(n + 1) PROVE h[s] = H[s]
        OBVIOUS
      <4>1. h[s] = IF s = {} THEN 0 ELSE f[FirstOf(s)] + g[OthersOf(s)]
        OBVIOUS
      <4>2. H[s] = IF s = {} THEN 0 ELSE f[FirstOf(s)] + h[OthersOf(s)]
        BY Zenon
      <4> HIDE DEF h, H
      <4> QED
        BY <2>2, <4>1, <4>2
    <3>2. h = [s \in D(n + 1) |-> h[s]] /\ H = [s \in D(n + 1) |-> H[s]]
      OBVIOUS
    <3> HIDE DEF h, H
    <3>3. h = H
      BY <3>1, <3>2
    <3> QED
      BY <3>3 DEF H, SumsTo
  <2> HIDE DEF h, D
  <2> QED
    BY <2>3
<1>3. PICK n \in Nat : n = Cardinality(S)
  BY FS_CardinalityType
<1>4. D(n) = SUBSET S
  BY <1>3, FS_Subset
<1> HIDE DEF D
<1>5. Nat \subseteq P
  <2> HIDE DEF P
  <2> QED
    BY <1>1, <1>2, AllNumbers
<1> QED
  BY <1>4, <1>5

\* Of two sums, the one whose terms are none of them greater is not, and they
\* are equal only if all terms are.
LEMMA SumsCompare ==
  ASSUME NEW S, IsFiniteSet(S), NEW e \in [S -> Nat], NEW f \in [S -> Nat],
         \A x \in S : e[x] <= f[x],
         NEW g, SumsTo(g, e, SUBSET S), NEW h, SumsTo(h, f, SUBSET S)
  PROVE  /\ g[S] \in Nat /\ h[S] \in Nat /\ g[S] <= h[S]
         /\ g[S] = h[S] => \A x \in S : e[x] = f[x]
<1> DEFINE Good(s) == /\ g[s] \in Nat /\ h[s] \in Nat /\ g[s] <= h[s]
                      /\ g[s] = h[s] => \A x \in s : e[x] = f[x]
           P == {n \in Nat : \A s \in SUBSET S : Cardinality(s) = n => Good(s)}
<1>1. \A s \in SUBSET S : /\ s = {} => g[s] = 0 /\ h[s] = 0
                          /\ s # {} => /\ g[s] = e[FirstOf(s)] + g[OthersOf(s)]
                                       /\ h[s] = f[FirstOf(s)] + h[OthersOf(s)]
  BY DEF SumsTo
<1>2. 0 \in P
  <2> SUFFICES ASSUME NEW s \in SUBSET S, Cardinality(s) = 0 PROVE Good(s)
    OBVIOUS
  <2>1. s = {}
    BY OneLess
  <2>2. g[s] = 0 /\ h[s] = 0
    BY <1>1, <2>1
  <2> QED
    BY <2>1, <2>2
<1>3. ASSUME NEW n \in Nat, n \in P PROVE n + 1 \in P
  <2> SUFFICES ASSUME NEW s \in SUBSET S, Cardinality(s) = n + 1 PROVE Good(s)
    OBVIOUS
  <2>1. s # {}
    <3> SUFFICES ASSUME s = {} PROVE FALSE
      OBVIOUS
    <3>1. Cardinality({}) = 0 /\ n + 1 # 0
      BY FS_EmptySet
    <3>2. Cardinality(s) = 0
      BY <3>1
    <3> QED
      BY <3>1, <3>2
  <2>2. PICK x : x = FirstOf(s)
    OBVIOUS
  <2>3. PICK t : t = OthersOf(s)
    OBVIOUS
  <2>4. x \in s /\ x \in S /\ t \in SUBSET S /\ Cardinality(t) = n /\ s = t \cup {x}
    BY <2>1, <2>2, <2>3, OneLess DEF OthersOf
  <2>5. Good(t)
    BY <1>3, <2>4
  <2>6. g[s] = e[x] + g[t] /\ h[s] = f[x] + h[t]
    BY <1>1, <2>1, <2>2, <2>3
  <2>7. e[x] \in Nat /\ f[x] \in Nat /\ e[x] <= f[x]
    BY <2>4
  <2>8. g[s] \in Nat /\ h[s] \in Nat /\ g[s] <= h[s]
    BY <2>5, <2>6, <2>7
  <2>9. ASSUME g[s] = h[s] PROVE \A y \in s : e[y] = f[y]
    <3>1. g[t] = h[t] /\ e[x] = f[x]
      BY <2>5, <2>6, <2>7, <2>9
    <3> QED
      BY <2>4, <2>5, <3>1
  <2> QED
    BY <2>8, <2>9
<1>4. Nat \subseteq P
  <2> HIDE DEF P
  <2> QED
    BY <1>2, <1>3, AllNumbers
<1>5. Cardinality(S) \in Nat /\ S \in SUBSET S
  BY FS_CardinalityType
<1> QED
  BY <1>4, <1>5

\* The sum of the terms of a function.
SumOf(f, S) == (CHOOSE g : SumsTo(g, f, SUBSET S))[S]

LEMMA SumsDiffer ==
  ASSUME NEW S, IsFiniteSet(S), NEW e \in [S -> Nat], NEW f \in [S -> Nat],
         \A x \in S : e[x] <= f[x]
  PROVE  /\ SumOf(e, S) \in Nat /\ SumOf(f, S) \in Nat /\ SumOf(e, S) <= SumOf(f, S)
         /\ SumOf(e, S) = SumOf(f, S) => \A x \in S : e[x] = f[x]
<1>1. PICK g : g = CHOOSE k : SumsTo(k, e, SUBSET S)
  OBVIOUS
<1>2. PICK h : h = CHOOSE k : SumsTo(k, f, SUBSET S)
  OBVIOUS
<1>3. SumsTo(g, e, SUBSET S) /\ SumsTo(h, f, SUBSET S)
  BY <1>1, <1>2, SumOfAll
<1>4. SumOf(e, S) = g[S] /\ SumOf(f, S) = h[S]
  BY <1>1, <1>2 DEF SumOf
<1> QED
  BY <1>3, <1>4, SumsCompare

LEMMA TotalIs ==
  ASSUME NEW field PROVE Total(field) = SumOf([b \in Bases |-> cov[b][field]], Bases)
BY DEF Total, MapThenSumSet, MapThenFoldSet, SumsTo, SumOf, FirstOf, OthersOf

-----------------------------------------------------------------------------
(* The readers of .info files.                                             *)

Counts == [lines_hit : Nat, lines_total : Nat, branches_hit : Nat, branches_total : Nat]

\* coverage_report.py: each file counts no more hits than lines or branches,
\* and fewer if it has a miss.
ReportInv ==
  /\ sf \in Paths \cup {NoPath}
  /\ cov \in [Bases -> Counts]
  /\ \A b \in Bases : /\ cov[b].lines_hit <= cov[b].lines_total
                      /\ cov[b].branches_hit <= cov[b].branches_total
  /\ seen \subseteq [record : Nat, path : Paths, line : LineNos, hit : BOOLEAN]
  /\ records \in Nat
  /\ \A x \in MissedLines : cov[x.path.base].lines_hit < cov[x.path.base].lines_total
  /\ missed_br \subseteq Bases
  /\ \A b \in missed_br : cov[b].branches_hit < cov[b].branches_total

OfTarget == {x \in seen : x.path.base = Target}

\* The script of phase 1, as long as the target has one record at most.
PhaseInv ==
  /\ IsFiniteSet(da)
  /\ of_target \in Seq({path \in Paths : path.base = Target})
  /\ ForTarget => of_target # << >>
  /\ Len(of_target) = 0 => OfTarget = {} /\ got = NoData /\ da = {}
  /\ Len(of_target) = 1 =>
       /\ ForTarget => /\ got = NoData
                       /\ \A x \in OfTarget : <<x.line, x.hit>> \in da
       /\ ~ForTarget /\ SummaryFull => \A x \in OfTarget : x.hit

OfNaming == {x \in seen : x.path \in Naming}

\* That of phase 2, as long as one record at most names the target.
GenInv ==
  /\ run_da \in [hit : Nat, total : Nat] /\ run_da.hit <= run_da.total
  /\ of_naming \in Seq(Naming)
  /\ ForNaming => of_naming # << >>
  /\ Len(of_naming) = 0 => OfNaming = {} /\ run_da = NoData /\ ~answered
  /\ Len(of_naming) = 1 =>
       /\ (\E x \in OfNaming : ~x.hit) => run_da.hit < run_da.total
       /\ ForNaming => ~answered

LEMMA BasesFinite == IsFiniteSet(Bases)
<1> DEFINE f == [path \in Paths |-> path.base]
<1>1. f \in Surjection(Paths, Bases)
  BY DEF Surjection, Bases
<1> QED
  BY <1>1, FS_Surjection, LcovAssumption

LEMMA NotUnder == NoPath \notin Paths /\ (\A path \in Paths : path.base \in Bases)
BY LcovAssumption DEF Bases

LEMMA LcovStarts == ScriptInit => ReportInv /\ PhaseInv /\ GenInv
<1> SUFFICES ASSUME ScriptInit PROVE ReportInv /\ PhaseInv /\ GenInv
  OBVIOUS
<1>1. /\ sf = NoPath /\ records = 0 /\ cov = [b \in Bases |-> ZeroCov]
      /\ da = {} /\ got = NoData /\ run_da = NoData /\ answered = FALSE
      /\ seen = {} /\ of_target = << >> /\ of_naming = << >> /\ missed_br = {}
  BY DEF ScriptInit, LcovInit
<1>2. ReportInv
  <2>1. ZeroCov \in Counts
    BY DEF ZeroCov, Counts
  <2> QED
    BY <1>1, <2>1 DEF ReportInv, MissedLines, ZeroCov
<1>3. PhaseInv
  <2>1. IsFiniteSet(da) /\ of_target \in Seq({path \in Paths : path.base = Target}) /\ Len(of_target) = 0
    BY <1>1, FS_EmptySet
  <2> QED
    BY <1>1, <2>1 DEF PhaseInv, OfTarget, ForTarget
<1>4. GenInv
  <2>1. of_naming \in Seq(Naming) /\ Len(of_naming) = 0
    BY <1>1
  <2>2. run_da \in [hit : Nat, total : Nat] /\ run_da.hit <= run_da.total
    BY <1>1 DEF NoData
  <2> QED
    BY <1>1, <2>1, <2>2 DEF GenInv, OfNaming, ForNaming
<1> QED
  BY <1>2, <1>3, <1>4

LEMMA SFKeeps ==
  ASSUME ReportInv, PhaseInv, NEW path \in Paths, ReadSF(path)
  PROVE  ReportInv' /\ PhaseInv'
<1>1. /\ sf = NoPath /\ sf' = path /\ records' = records + 1
      /\ UNCHANGED <<cov, da, got, seen, missed_br>>
  BY DEF ReadSF
<1>2. ReportInv'
  BY <1>1 DEF ReportInv, MissedLines
<1>3. ~ForTarget
  BY <1>1 DEF ForTarget
<1>4. CASE path.base # Target
  <2>1. of_target' = of_target /\ ~ForTarget'
    BY <1>1, <1>4 DEF ReadSF, ForTarget
  <2> QED
    BY <1>1, <1>2, <1>3, <2>1 DEF PhaseInv, OfTarget, SummaryFull
<1>5. CASE path.base = Target
  <2> DEFINE Named == {p \in Paths : p.base = Target}
  <2>1. of_target \in Seq(Named) /\ path \in Named
    BY <1>5 DEF PhaseInv
  <2>2. /\ of_target' \in Seq(Named) /\ Len(of_target') = Len(of_target) + 1 /\ of_target' # << >>
        /\ Len(of_target) \in Nat
    <3> HIDE DEF Named
    <3>1. of_target' = Append(of_target, path)
      BY <1>5 DEF ReadSF
    <3> QED
      BY <2>1, <3>1
  <2>3. Len(of_target') = 1 => Len(of_target) = 0 /\ OfTarget' = {} /\ got' = NoData
    BY <1>1, <2>2 DEF PhaseInv, OfTarget
  <2>4. Len(of_target') # 0
    BY <2>2
  <2>5. IsFiniteSet(da')
    BY <1>1 DEF PhaseInv
  <2>6. ForTarget'
    BY <1>1, <1>5, NotUnder DEF ForTarget
  <2> QED
    BY <1>2, <2>2, <2>3, <2>4, <2>5, <2>6 DEF PhaseInv
<1> QED
  BY <1>2, <1>4, <1>5

LEMMA SFKeepsGen ==
  ASSUME GenInv, NEW path \in Paths, ReadSF(path) PROVE GenInv'
<1>1. sf = NoPath /\ sf' = path /\ answered' = answered /\ seen' = seen
  BY DEF ReadSF
<1>2. ~ForNaming /\ OfNaming' = OfNaming
  BY <1>1 DEF ForNaming, OfNaming
<1>3. CASE path \notin Naming
  <2>1. run_da' = run_da /\ of_naming' = of_naming /\ ~ForNaming'
    BY <1>1, <1>3 DEF ReadSF, ForNaming
  <2> QED
    BY <1>1, <1>2, <2>1 DEF GenInv
<1>4. CASE path \in Naming
  <2>1. of_naming' = Append(of_naming, path) /\ of_naming \in Seq(Naming)
    BY <1>4 DEF ReadSF, GenInv
  <2>2. /\ of_naming' \in Seq(Naming) /\ Len(of_naming') = Len(of_naming) + 1
        /\ of_naming' # << >> /\ Len(of_naming) \in Nat
    BY <1>4, <2>1
  <2>3. run_da' = IF answered THEN run_da ELSE NoData
    BY <1>4, Zenon DEF ReadSF
  <2>4. run_da' \in [hit : Nat, total : Nat] /\ run_da'.hit <= run_da'.total
    BY <2>3 DEF NoData, GenInv
  <2>5. Len(of_naming') = 1 => OfNaming' = {} /\ ~answered'
    BY <1>1, <1>2, <2>2 DEF GenInv
  <2>6. Len(of_naming') # 0
    BY <2>2
  <2> QED
    BY <2>2, <2>4, <2>5, <2>6 DEF GenInv
<1> QED
  BY <1>3, <1>4

LEMMA MineOnly == ASSUME ReportInv, NEW b \in Bases, Mine(b) PROVE sf \in Paths /\ UnderRtl(sf) /\ b = sf.base
BY DEF Mine, ReportInv

\* (What a DA and a BRDA line add.)
LineAdded(r, c, h) ==
  /\ r \in Counts
  /\ r.branches_hit = c.branches_hit /\ r.branches_total = c.branches_total
  /\ r.lines_hit = c.lines_hit + h /\ r.lines_total = c.lines_total + 1
BranchAdded(r, c, h) ==
  /\ r \in Counts
  /\ r.lines_hit = c.lines_hit /\ r.lines_total = c.lines_total
  /\ r.branches_hit = c.branches_hit + h /\ r.branches_total = c.branches_total + 1

LEMMA OneLine ==
  ASSUME NEW c \in Counts, NEW h \in {0, 1}, NEW r,
         r = [c EXCEPT !.lines_total = @ + 1, !.lines_hit = @ + h]
  PROVE  LineAdded(r, c, h)
<1>1. /\ c.lines_hit \in Nat /\ c.lines_total \in Nat
      /\ c.branches_hit \in Nat /\ c.branches_total \in Nat
      /\ c = [lines_hit |-> c.lines_hit, lines_total |-> c.lines_total,
              branches_hit |-> c.branches_hit, branches_total |-> c.branches_total]
  BY DEF Counts
<1>2. r = [lines_hit |-> c.lines_hit + h, lines_total |-> c.lines_total + 1,
           branches_hit |-> c.branches_hit, branches_total |-> c.branches_total]
  BY <1>1
<1>3. r \in Counts
  BY <1>1, <1>2 DEF Counts
<1> QED
  BY <1>2, <1>3 DEF LineAdded

LEMMA OneBranch ==
  ASSUME NEW c \in Counts, NEW h \in {0, 1}, NEW r,
         r = [c EXCEPT !.branches_total = @ + 1, !.branches_hit = @ + h]
  PROVE  BranchAdded(r, c, h)
<1>1. /\ c.lines_hit \in Nat /\ c.lines_total \in Nat
      /\ c.branches_hit \in Nat /\ c.branches_total \in Nat
      /\ c = [lines_hit |-> c.lines_hit, lines_total |-> c.lines_total,
              branches_hit |-> c.branches_hit, branches_total |-> c.branches_total]
  BY DEF Counts
<1>2. r = [lines_hit |-> c.lines_hit, lines_total |-> c.lines_total,
           branches_hit |-> c.branches_hit + h, branches_total |-> c.branches_total + 1]
  BY <1>1
<1>3. r \in Counts
  BY <1>1, <1>2 DEF Counts
<1> QED
  BY <1>2, <1>3 DEF BranchAdded

LEMMA DAKeepsReport ==
  ASSUME ReportInv, NEW n \in LineNos, NEW hit \in BOOLEAN, ReadDA(n, hit) PROVE ReportInv'
<1>1. /\ sf # NoPath /\ cov' = CovDA(hit)
      /\ seen' = seen \cup {[record |-> records, path |-> sf, line |-> n, hit |-> hit]}
      /\ UNCHANGED <<sf, records, missed_br>>
  BY DEF ReadDA
<1>2. One(hit) \in {0, 1} /\ (~hit => One(hit) = 0)
  BY DEF One
<1>3. \A b \in Bases : cov[b] \in Counts
  BY DEF ReportInv
<1>4. ASSUME NEW b \in Bases
      PROVE  /\ cov'[b] \in Counts
             /\ cov'[b].branches_hit = cov[b].branches_hit /\ cov'[b].branches_total = cov[b].branches_total
             /\ ~Mine(b) => cov'[b] = cov[b]
             /\ Mine(b) => /\ cov'[b].lines_hit = cov[b].lines_hit + One(hit)
                           /\ cov'[b].lines_total = cov[b].lines_total + 1
  <2>1. cov'[b] = IF Mine(b)
                   THEN [cov[b] EXCEPT !.lines_total = @ + 1, !.lines_hit = @ + One(hit)]
                   ELSE cov[b]
    BY <1>1 DEF CovDA
  <2>2. CASE Mine(b)
    <3>1. PICK h \in {0, 1} : h = One(hit)
      BY <1>2
    <3>2. cov'[b] = [cov[b] EXCEPT !.lines_total = @ + 1, !.lines_hit = @ + h]
      BY <2>1, <2>2, <3>1
    <3>3. LineAdded(cov'[b], cov[b], h)
      BY <1>3, <3>2, OneLine
    <3> QED
      BY <2>2, <3>1, <3>3 DEF LineAdded
  <2>3. CASE ~Mine(b)
    BY <1>3, <2>1, <2>3
  <2> QED
    BY <2>2, <2>3
<1>5. cov' \in [Bases -> Counts]
  <2>1. cov' = [b \in Bases |-> cov'[b]]
    BY <1>1 DEF CovDA
  <2> QED
    BY <1>4, <2>1
<1>6. \A b \in Bases : /\ cov'[b].lines_hit <= cov'[b].lines_total
                       /\ cov'[b].branches_hit <= cov'[b].branches_total
  <2> SUFFICES ASSUME NEW b \in Bases
               PROVE  /\ cov'[b].lines_hit <= cov'[b].lines_total
                      /\ cov'[b].branches_hit <= cov'[b].branches_total
    OBVIOUS
  <2>1. /\ cov[b].lines_hit <= cov[b].lines_total
        /\ cov[b].branches_hit <= cov[b].branches_total
        /\ cov[b].lines_hit \in Nat /\ cov[b].lines_total \in Nat
    BY <1>3 DEF ReportInv, Counts
  <2> QED
    BY <1>2, <1>4, <2>1
<1>7. sf \in Paths
  BY <1>1 DEF ReportInv
<1>8. \A x \in MissedLines' : cov'[x.path.base].lines_hit < cov'[x.path.base].lines_total
  <2> SUFFICES ASSUME NEW x \in seen', UnderRtl(x.path), ~x.hit
               PROVE  cov'[x.path.base].lines_hit < cov'[x.path.base].lines_total
    BY DEF MissedLines
  <2>1. CASE x \in seen
    <3>1. x.path.base \in Bases
      BY <2>1, NotUnder DEF ReportInv
    <3>2. PICK b \in Bases : b = x.path.base
      BY <3>1
    <3>3. cov[b].lines_hit < cov[b].lines_total /\ cov[b].lines_hit \in Nat /\ cov[b].lines_total \in Nat
      BY <1>3, <2>1, <3>2 DEF ReportInv, MissedLines, Counts
    <3> QED
      BY <1>2, <1>4, <3>2, <3>3
  <2>2. CASE x = [record |-> records, path |-> sf, line |-> n, hit |-> hit]
    <3>1. x.path = sf /\ ~hit
      BY <2>2
    <3>2. PICK b \in Bases : b = sf.base
      BY <1>7, NotUnder
    <3>3. Mine(b)
      BY <1>1, <3>1, <3>2 DEF Mine
    <3>4. cov[b].lines_hit <= cov[b].lines_total /\ cov[b].lines_hit \in Nat /\ cov[b].lines_total \in Nat
      BY <1>3 DEF ReportInv, Counts
    <3> QED
      BY <1>2, <1>4, <3>1, <3>2, <3>3, <3>4
  <2> QED
    BY <1>1, <2>1, <2>2
<1>9. seen' \subseteq [record : Nat, path : Paths, line : LineNos, hit : BOOLEAN]
  BY <1>1, <1>7 DEF ReportInv
<1>10. \A b \in missed_br' : cov'[b].branches_hit < cov'[b].branches_total
  BY <1>1, <1>4 DEF ReportInv
<1> QED
  BY <1>1, <1>5, <1>6, <1>8, <1>9, <1>10 DEF ReportInv

LEMMA DAKeepsPhase ==
  ASSUME ReportInv, PhaseInv, NEW n \in LineNos, NEW hit \in BOOLEAN, ReadDA(n, hit) PROVE PhaseInv'
<1> DEFINE z == [record |-> records, path |-> sf, line |-> n, hit |-> hit]
<1>1. /\ sf # NoPath /\ da' = SummaryDA(n, hit) /\ seen' = seen \cup {z}
      /\ UNCHANGED <<sf, records, got, of_target>>
  BY DEF ReadDA
<1>2. ForTarget' = ForTarget /\ (ForTarget <=> z.path.base = Target) /\ z.line = n /\ z.hit = hit
  BY <1>1 DEF ForTarget
<1> HIDE DEF z
<1>3. OfTarget' = IF ForTarget THEN OfTarget \cup {z} ELSE OfTarget
  BY <1>1, <1>2 DEF OfTarget
<1>4. IsFiniteSet(da')
  BY <1>1, FS_AddElement DEF SummaryDA, PhaseInv
<1>5. CASE ~ForTarget
  BY <1>1, <1>2, <1>3, <1>4, <1>5 DEF PhaseInv, SummaryFull, SummaryDA
<1>6. CASE ForTarget
  <2>1. of_target # << >> /\ of_target \in Seq({path \in Paths : path.base = Target})
    BY <1>6 DEF PhaseInv
  <2>2. Len(of_target) # 0
    BY <2>1
  <2>3. ASSUME Len(of_target) = 1
        PROVE  got = NoData /\ \A x \in OfTarget' : <<x.line, x.hit>> \in da'
    <3>1. got = NoData /\ \A x \in OfTarget : <<x.line, x.hit>> \in da
      BY <1>6, <2>3 DEF PhaseInv
    <3>2. da' = da \cup {<<n, hit>>}
      BY <1>1, <1>6, <3>1 DEF SummaryDA
    <3> QED
      BY <1>2, <1>3, <1>6, <3>1, <3>2
  <2> QED
    BY <1>1, <1>2, <1>4, <1>6, <2>1, <2>2, <2>3 DEF PhaseInv
<1> QED
  BY <1>5, <1>6

LEMMA DAKeepsGen ==
  ASSUME GenInv, NEW n \in LineNos, NEW hit \in BOOLEAN, ReadDA(n, hit) PROVE GenInv'
<1> DEFINE z == [record |-> records, path |-> sf, line |-> n, hit |-> hit]
<1>1. /\ sf # NoPath /\ run_da' = FirstRecord(hit) /\ seen' = seen \cup {z}
      /\ UNCHANGED <<sf, answered, of_naming>>
  BY DEF ReadDA
<1>2. ForNaming' = ForNaming /\ (ForNaming <=> z.path \in Naming) /\ z.hit = hit
  BY <1>1 DEF ForNaming
<1> HIDE DEF z
<1>3. OfNaming' = IF ForNaming THEN OfNaming \cup {z} ELSE OfNaming
  BY <1>1, <1>2 DEF OfNaming
<1>4. One(hit) \in {0, 1} /\ (~hit => One(hit) = 0)
  BY DEF One
<1>5. /\ run_da' \in [hit : Nat, total : Nat] /\ run_da'.hit <= run_da'.total
      /\ ForNaming /\ ~answered => /\ run_da'.hit = run_da.hit + One(hit)
                                   /\ run_da'.total = run_da.total + 1
      /\ ~ForNaming => run_da' = run_da
  BY <1>1, <1>4 DEF FirstRecord, GenInv
<1>6. CASE ~ForNaming
  BY <1>1, <1>2, <1>3, <1>5, <1>6 DEF GenInv
<1>7. CASE ForNaming
  <2>1. Len(of_naming) # 0
    BY <1>7 DEF GenInv
  <2>2. ASSUME Len(of_naming) = 1, NEW x \in OfNaming', ~x.hit PROVE run_da'.hit < run_da'.total
    <3>1. ~answered /\ ((\E y \in OfNaming : ~y.hit) => run_da.hit < run_da.total)
      BY <1>7, <2>2 DEF GenInv
    <3>2. run_da.hit \in Nat /\ run_da.total \in Nat /\ run_da.hit <= run_da.total
      BY DEF GenInv
    <3>3. CASE x \in OfNaming
      BY <1>4, <1>5, <1>7, <2>2, <3>1, <3>2, <3>3
    <3>4. CASE x = z
      BY <1>2, <1>4, <1>5, <1>7, <2>2, <3>1, <3>2, <3>4
    <3> QED
      BY <1>3, <1>7, <2>2, <3>3, <3>4
  <2> QED
    BY <1>1, <1>2, <1>5, <1>7, <2>1, <2>2 DEF GenInv
<1> QED
  BY <1>6, <1>7

LEMMA BRDAKeeps ==
  ASSUME ReportInv, PhaseInv, GenInv, NEW taken \in BOOLEAN, ReadBRDA(taken)
  PROVE  ReportInv' /\ PhaseInv' /\ GenInv'
<1>1. /\ sf # NoPath
      /\ cov' = [b \in Bases |-> IF Mine(b)
                             THEN [cov[b] EXCEPT !.branches_total = @ + 1,
                                                 !.branches_hit = @ + One(taken)]
                             ELSE cov[b]]
      /\ missed_br' = IF UnderRtl(sf) /\ ~taken THEN missed_br \cup {sf.base} ELSE missed_br
      /\ UNCHANGED <<sf, records, da, got, run_da, answered, seen, of_target, of_naming>>
  BY DEF ReadBRDA
<1>2. One(taken) \in {0, 1} /\ (~taken => One(taken) = 0)
  BY DEF One
<1>3. \A b \in Bases : cov[b] \in Counts
  BY DEF ReportInv
<1>4. ASSUME NEW b \in Bases
      PROVE  /\ cov'[b] \in Counts
             /\ cov'[b].lines_hit = cov[b].lines_hit /\ cov'[b].lines_total = cov[b].lines_total
             /\ ~Mine(b) => cov'[b] = cov[b]
             /\ Mine(b) => /\ cov'[b].branches_hit = cov[b].branches_hit + One(taken)
                           /\ cov'[b].branches_total = cov[b].branches_total + 1
  <2>1. CASE Mine(b)
    <3>1. PICK h \in {0, 1} : h = One(taken)
      BY <1>2
    <3>2. cov'[b] = [cov[b] EXCEPT !.branches_total = @ + 1, !.branches_hit = @ + h]
      BY <1>1, <2>1, <3>1
    <3>3. BranchAdded(cov'[b], cov[b], h)
      BY <1>3, <3>2, OneBranch
    <3> QED
      BY <2>1, <3>1, <3>3 DEF BranchAdded
  <2>2. CASE ~Mine(b)
    <3>1. cov'[b] = cov[b]
      BY <1>1, <2>2
    <3> QED
      BY <1>3, <2>2, <3>1
  <2> QED
    BY <2>1, <2>2
<1>5. cov' \in [Bases -> Counts]
  <2>1. cov' = [b \in Bases |-> cov'[b]]
    BY <1>1
  <2> QED
    BY <1>4, <2>1
<1>6. \A b \in Bases : /\ cov'[b].lines_hit <= cov'[b].lines_total
                       /\ cov'[b].branches_hit <= cov'[b].branches_total
  <2> SUFFICES ASSUME NEW b \in Bases
               PROVE  /\ cov'[b].lines_hit <= cov'[b].lines_total
                      /\ cov'[b].branches_hit <= cov'[b].branches_total
    OBVIOUS
  <2>1. /\ cov[b].lines_hit <= cov[b].lines_total
        /\ cov[b].branches_hit <= cov[b].branches_total
        /\ cov[b].branches_hit \in Nat /\ cov[b].branches_total \in Nat
    BY <1>3 DEF ReportInv, Counts
  <2> QED
    BY <1>2, <1>4, <2>1
<1>7. sf \in Paths /\ sf.base \in Bases
  BY <1>1, NotUnder DEF ReportInv
<1>8. missed_br' \subseteq Bases
  BY <1>1, <1>7 DEF ReportInv
<1>9. \A b \in missed_br' : cov'[b].branches_hit < cov'[b].branches_total
  <2> SUFFICES ASSUME NEW b \in missed_br' PROVE cov'[b].branches_hit < cov'[b].branches_total
    OBVIOUS
  <2>1. /\ b \in Bases /\ cov[b].branches_hit <= cov[b].branches_total
        /\ cov[b].branches_hit \in Nat /\ cov[b].branches_total \in Nat
    BY <1>3, <1>8 DEF ReportInv, Counts
  <2>2. CASE b \in missed_br
    <3>1. cov[b].branches_hit < cov[b].branches_total
      BY <2>2 DEF ReportInv
    <3> QED
      BY <1>2, <1>4, <2>1, <3>1
  <2>3. CASE b \notin missed_br
    <3>1. b = sf.base /\ UnderRtl(sf) /\ ~taken
      BY <1>1, <2>3
    <3>2. Mine(b)
      BY <1>1, <3>1 DEF Mine
    <3> QED
      BY <1>2, <1>4, <2>1, <3>1, <3>2
  <2> QED
    BY <2>2, <2>3
<1>10. \A x \in MissedLines' : cov'[x.path.base].lines_hit < cov'[x.path.base].lines_total
  <2> SUFFICES ASSUME NEW x \in MissedLines
               PROVE  cov'[x.path.base].lines_hit < cov'[x.path.base].lines_total
    BY <1>1 DEF MissedLines
  <2>1. x.path.base \in Bases
    <3>1. x \in seen /\ UnderRtl(x.path)
      BY Zenon DEF MissedLines
    <3>2. x.path \in Paths
      BY <3>1 DEF ReportInv
    <3> QED
      BY <3>2, NotUnder, Zenon
  <2> QED
    BY <1>4, <2>1 DEF ReportInv
<1>11. ReportInv'
  BY <1>1, <1>5, <1>6, <1>8, <1>9, <1>10 DEF ReportInv
<1>12. PhaseInv'
  BY <1>1 DEF PhaseInv, OfTarget, ForTarget, SummaryFull
<1>13. GenInv'
  BY <1>1 DEF GenInv, OfNaming, ForNaming
<1> QED
  BY <1>11, <1>12, <1>13

LEMMA EndKeeps ==
  ASSUME ReportInv, PhaseInv, GenInv, ReadEnd PROVE ReportInv' /\ PhaseInv' /\ GenInv'
<1>1. /\ sf' = NoPath /\ got' = SummaryEnd /\ da' = (IF ForTarget THEN {} ELSE da)
      /\ answered' = (answered \/ ForNaming)
      /\ UNCHANGED <<records, cov, run_da, seen, of_target, of_naming, missed_br>>
  BY DEF ReadEnd
<1>2. ReportInv'
  BY <1>1 DEF ReportInv, MissedLines
<1>3. ~ForTarget' /\ OfTarget' = OfTarget
  BY <1>1 DEF ForTarget, OfTarget
<1>4. IsFiniteSet(da')
  BY <1>1, FS_EmptySet DEF PhaseInv
<1>5. ASSUME ~ForTarget PROVE PhaseInv'
  <2>1. got' = got /\ da' = da
    BY <1>1, <1>5 DEF SummaryEnd
  <2> QED
    BY <1>1, <1>3, <1>4, <1>5, <2>1 DEF PhaseInv, SummaryFull
<1>6. ASSUME ForTarget PROVE PhaseInv'
  <2>1. of_target # << >> /\ of_target \in Seq({path \in Paths : path.base = Target})
    BY <1>6 DEF PhaseInv
  <2>2. Len(of_target) # 0
    BY <2>1
  <2>3. ASSUME Len(of_target) = 1, SummaryFull' PROVE \A x \in OfTarget : x.hit
    <3>1. got = NoData /\ \A x \in OfTarget : <<x.line, x.hit>> \in da
      BY <1>6, <2>3 DEF PhaseInv
    <3> DEFINE hits == {x \in da : x[2]}
    <3>2. got' = [hit |-> Cardinality(hits), total |-> Cardinality(da)]
      BY <1>1, <1>6, <3>1 DEF SummaryEnd
    <3>3. Cardinality(hits) = Cardinality(da)
      BY <2>3, <3>2 DEF SummaryFull
    <3>4. hits = da
      <4>1. IsFiniteSet(da) /\ hits \in SUBSET da
        BY DEF PhaseInv
      <4> HIDE DEF hits
      <4> QED
        BY <3>3, <4>1, FS_Subset
    <3> SUFFICES ASSUME NEW x \in OfTarget PROVE x.hit
      OBVIOUS
    <3>5. <<x.line, x.hit>> \in hits
      BY <3>1, <3>4
    <3> QED
      BY <3>5
  <2> QED
    BY <1>1, <1>3, <1>4, <2>1, <2>2, <2>3 DEF PhaseInv
<1>7. GenInv'
  <2>1. ~ForNaming' /\ OfNaming' = OfNaming
    BY <1>1 DEF ForNaming, OfNaming
  <2>2. Len(of_naming) = 0 => ~ForNaming
    BY DEF GenInv
  <2> QED
    BY <1>1, <2>1, <2>2 DEF GenInv
<1> QED
  BY <1>2, <1>5, <1>6, <1>7

LEMMA LcovKept ==
  ReportInv /\ PhaseInv /\ GenInv /\ [ScriptNext]_scriptVars => (ReportInv /\ PhaseInv /\ GenInv)'
<1> SUFFICES ASSUME ReportInv, PhaseInv, GenInv, [ScriptNext]_scriptVars
             PROVE  (ReportInv /\ PhaseInv /\ GenInv)'
  OBVIOUS
<1>1. CASE LcovNext
  BY <1>1, SFKeeps, SFKeepsGen, DAKeepsReport, DAKeepsPhase, DAKeepsGen, BRDAKeeps, EndKeeps DEF LcovNext
<1>2. CASE UNCHANGED lcovVars
  BY <1>2 DEF lcovVars, ReportInv, PhaseInv, GenInv, MissedLines, OfTarget, OfNaming, ForTarget,
              ForNaming, SummaryFull
<1> QED
  BY <1>1, <1>2, Zenon DEF ScriptNext, scriptVars

\* A total that is as large as it can be, or fewer than 2000 and printed as if.
LEMMA PrintedIsFull ==
  ASSUME NEW hit \in Nat, NEW total \in Nat, hit <= total, Prints100(hit, total), total < 2000
  PROVE  hit = total
BY DEF Prints100

\* Two counts of which one bounds the other in every file, and in all together.
LEMMA TotalsAgree ==
  ASSUME ReportInv, NEW few, NEW all,
         \A b \in Bases : /\ cov[b][few] \in Nat /\ cov[b][all] \in Nat
                          /\ cov[b][few] <= cov[b][all]
  PROVE  /\ Total(few) \in Nat /\ Total(all) \in Nat /\ Total(few) <= Total(all)
         /\ Total(few) = Total(all) => \A b \in Bases : cov[b][few] = cov[b][all]
<1> DEFINE e == [b \in Bases |-> cov[b][few]]
           f == [b \in Bases |-> cov[b][all]]
<1>1. e \in [Bases -> Nat] /\ f \in [Bases -> Nat]
  OBVIOUS
<1>2. \A b \in Bases : e[b] = cov[b][few] /\ f[b] = cov[b][all] /\ e[b] <= f[b]
  OBVIOUS
<1>3. Total(few) = SumOf(e, Bases) /\ Total(all) = SumOf(f, Bases)
  BY TotalIs
<1> HIDE DEF e, f
<1>4. /\ SumOf(e, Bases) \in Nat /\ SumOf(f, Bases) \in Nat
      /\ SumOf(e, Bases) <= SumOf(f, Bases)
      /\ SumOf(e, Bases) = SumOf(f, Bases) => \A b \in Bases : e[b] = f[b]
  BY <1>1, <1>2, BasesFinite, SumsDiffer
<1> QED
  BY <1>2, <1>3, <1>4

LEMMA MissesAreFound == ReportInv /\ PhaseInv /\ GenInv => GapFindsEveryMiss
<1> SUFFICES ASSUME ReportInv, PhaseInv, GenInv PROVE GapFindsEveryMiss
  OBVIOUS
<1>1. \A b \in Bases : cov[b] \in Counts
  BY DEF ReportInv
<1>2. \A x \in MissedLines : x.path.base \in Bases
  BY NotUnder DEF ReportInv, MissedLines
<1>3. \A x \in MissedLines : x.path.base \in Gap
  <2> SUFFICES ASSUME NEW x \in MissedLines PROVE x.path.base \in Gap
    OBVIOUS
  <2>1. PICK b \in Bases : b = x.path.base
    BY <1>2
  <2>2. cov[b].lines_hit < cov[b].lines_total /\ cov[b].lines_hit \in Nat /\ cov[b].lines_total \in Nat
    BY <1>1, <2>1 DEF ReportInv, Counts
  <2> QED
    BY <2>1, <2>2 DEF Gap, NotCompiled
<1>4. \A b \in missed_br \ NotCompiled : b \in Gap
  BY DEF ReportInv, Gap
<1>5. ASSUME LinePrints100, Total("lines_total") < 2000 PROVE MissedLines = {}
  <2>1. \A b \in Bases : /\ cov[b]["lines_hit"] \in Nat /\ cov[b]["lines_total"] \in Nat
                         /\ cov[b]["lines_hit"] <= cov[b]["lines_total"]
    BY <1>1 DEF ReportInv, Counts
  <2>2. Total("lines_hit") = Total("lines_total")
    BY <1>5, <2>1, TotalsAgree, PrintedIsFull DEF LinePrints100
  <2>3. \A b \in Bases : cov[b]["lines_hit"] = cov[b]["lines_total"]
    BY <2>1, <2>2, TotalsAgree
  <2> SUFFICES ASSUME NEW x \in MissedLines PROVE FALSE
    OBVIOUS
  <2>4. PICK b \in Bases : b = x.path.base
    BY <1>2
  <2>5. cov[b].lines_hit < cov[b].lines_total /\ cov[b].lines_hit \in Nat
    BY <1>1, <2>4 DEF ReportInv, Counts
  <2> QED
    BY <2>3, <2>4, <2>5
<1>6. ASSUME BranchPrints100, Total("branches_total") < 2000 PROVE missed_br = {}
  <2>1. \A b \in Bases : /\ cov[b]["branches_hit"] \in Nat /\ cov[b]["branches_total"] \in Nat
                         /\ cov[b]["branches_hit"] <= cov[b]["branches_total"]
    BY <1>1 DEF ReportInv, Counts
  <2>2. Total("branches_hit") = Total("branches_total")
    BY <1>6, <2>1, TotalsAgree, PrintedIsFull DEF BranchPrints100
  <2>3. \A b \in Bases : cov[b]["branches_hit"] = cov[b]["branches_total"]
    BY <2>1, <2>2, TotalsAgree
  <2>4. \A b \in missed_br : /\ b \in Bases /\ cov[b].branches_hit < cov[b].branches_total
                             /\ cov[b].branches_hit \in Nat
    BY <1>1 DEF ReportInv, Counts
  <2> QED
    BY <2>3, <2>4
<1>7. ASSUME Len(of_target) = 1, SummaryFull
      PROVE  ~\E x \in MissedLines : x.path = of_target[1]
  <2> SUFFICES ASSUME NEW x \in MissedLines, x.path = of_target[1] PROVE FALSE
    OBVIOUS
  <2>1. of_target[1].base = Target
    <3>1. of_target \in Seq({path \in Paths : path.base = Target}) /\ 1 \in 1 .. Len(of_target)
      BY <1>7 DEF PhaseInv
    <3>2. of_target[1] \in {path \in Paths : path.base = Target}
      BY <3>1
    <3> QED
      BY <3>2
  <2>2. x \in OfTarget /\ ~x.hit
    BY <2>1 DEF MissedLines, OfTarget
  <2> QED
    BY <1>7, <2>2 DEF PhaseInv, SummaryFull, NoData
<1>8. ASSUME Len(of_naming) = 1, GenFull
      PROVE  ~\E x \in MissedLines : x.path = of_naming[1]
  <2> SUFFICES ASSUME NEW x \in MissedLines, x.path = of_naming[1] PROVE FALSE
    OBVIOUS
  <2>1. of_naming[1] \in Naming
    <3>1. of_naming \in Seq(Naming) /\ 1 \in 1 .. Len(of_naming)
      BY <1>8 DEF GenInv
    <3> QED
      BY <3>1
  <2>2. x \in OfNaming /\ ~x.hit
    BY <2>1 DEF MissedLines, OfNaming
  <2>3. run_da.hit < run_da.total /\ run_da.hit \in Nat
    BY <1>8, <2>2 DEF GenInv
  <2> QED
    BY <1>8, <2>3 DEF GenFull
<1> QED
  BY <1>3, <1>4, <1>5, <1>6, <1>7, <1>8 DEF GapFindsEveryMiss

\* For any .info file: a line or a branch that was never taken shows on the
\* list of gaps, keeps a total of less than 2000 below 100.0%, and the scripts of
\* the phases do not call a file complete that has such a line.
THEOREM MissesShow == ScriptSpec => []GapFindsEveryMiss
<1>1. ScriptSpec => [](ReportInv /\ PhaseInv /\ GenInv)
  BY LcovStarts, LcovKept, PTL DEF ScriptSpec
<1> QED
  BY <1>1, MissesAreFound, PTL

-----------------------------------------------------------------------------
(* Functional coverage.                                                    *)

\* Only bins there are count as hit, and only pairs that one sample hit.
CoverInv ==
  /\ \A cp \in Coverpoints : point_hit[cp] \subseteq DOMAIN Bins[cp]
  /\ \A x \in Crosses :
       /\ cross_hit[x] \subseteq (DOMAIN Bins[x[1]]) \X (DOMAIN Bins[x[2]])
       /\ \A ab \in cross_hit[x] :
            \E v \in sampled[x] : ab[1] \in BinsOf(x[1], v[1]) /\ ab[2] \in BinsOf(x[2], v[2])

LEMMA FiniteByTwos ==
  ASSUME NEW S, IsFiniteSet(S), NEW a, NEW b PROVE IsFiniteSet(S \cup {a, b})
<1>1. S \cup {a, b} = (S \cup {a}) \cup {b}
  OBVIOUS
<1> QED
  BY <1>1, FS_AddElement

LEMMA FewAreFinite ==
  \A a, b, c : IsFiniteSet({a}) /\ IsFiniteSet({a, b}) /\ IsFiniteSet({a, b, c})
<1> SUFFICES ASSUME NEW a, NEW b, NEW c
             PROVE  IsFiniteSet({a}) /\ IsFiniteSet({a, b}) /\ IsFiniteSet({a, b, c})
  OBVIOUS
<1>1. IsFiniteSet({a})
  BY FS_Singleton
<1>2. IsFiniteSet({a} \cup {a, b}) /\ IsFiniteSet({a} \cup {b, c})
  BY <1>1, FiniteByTwos
<1>3. {a, b} = {a} \cup {a, b} /\ {a, b, c} = {a} \cup {b, c}
  OBVIOUS
<1> QED
  BY <1>1, <1>2, <1>3, Zenon

LEMMA TheCoverpoints ==
  Coverpoints = {"msg_type", "price_range", "side", "seq_state", "msg_count", "cam_result",
                 "cam_index", "back_to_back", "drop_event", "dropped_frames"}
BY SMT DEF Coverpoints, Bins

LEMMA BinsOfEach ==
  /\ IsFiniteSet(DOMAIN Bins["msg_type"])
  /\ IsFiniteSet(DOMAIN Bins["price_range"])
  /\ IsFiniteSet(DOMAIN Bins["side"])
  /\ IsFiniteSet(DOMAIN Bins["seq_state"])
  /\ IsFiniteSet(DOMAIN Bins["msg_count"])
  /\ IsFiniteSet(DOMAIN Bins["cam_result"])
  /\ IsFiniteSet(DOMAIN Bins["cam_index"])
  /\ IsFiniteSet(DOMAIN Bins["back_to_back"])
  /\ IsFiniteSet(DOMAIN Bins["drop_event"])
  /\ IsFiniteSet(DOMAIN Bins["dropped_frames"])
<1>1. /\ IsFiniteSet({"add_order"})
      /\ IsFiniteSet({"penny", "dollar", "large"})
      /\ IsFiniteSet({"buy", "sell"})
      /\ IsFiniteSet({"accepted", "dropped_gap", "dropped_dup"})
      /\ IsFiniteSet({"single", "burst", "max_burst"})
      /\ IsFiniteSet({"hit", "miss"})
      /\ IsFiniteSet({"lo", "mid", "hi"})
      /\ IsFiniteSet({"isolated", "consecutive"})
      /\ IsFiniteSet({"no_drop", "dropped"})
      /\ IsFiniteSet({"zero", "low", "high"})
  BY FewAreFinite, Zenon
<1> QED
  BY <1>1, SMT DEF Bins

LEMMA BinsAreFinite ==
  /\ IsFiniteSet(Coverpoints) /\ IsFiniteSet(Crosses)
  /\ \A cp \in Coverpoints : IsFiniteSet(DOMAIN Bins[cp])
  /\ \A x \in Crosses : x[1] \in Coverpoints /\ x[2] \in Coverpoints
<1>1. IsFiniteSet(Coverpoints)
  <2>1. IsFiniteSet({"msg_type", "price_range"})
    BY FewAreFinite, Zenon
  <2>2. Coverpoints = {"msg_type", "price_range"} \cup {"side", "seq_state"}
                      \cup {"msg_count", "cam_result"} \cup {"cam_index", "back_to_back"}
                      \cup {"drop_event", "dropped_frames"}
    BY TheCoverpoints
  <2> QED
    BY <2>1, <2>2, FiniteByTwos
<1>2. IsFiniteSet(Crosses)
  BY FewAreFinite, Zenon DEF Crosses
<1>3. ASSUME NEW cp \in Coverpoints PROVE IsFiniteSet(DOMAIN Bins[cp])
  <2>1. cp \in {"msg_type", "price_range", "side", "seq_state", "msg_count", "cam_result",
                "cam_index", "back_to_back", "drop_event", "dropped_frames"}
    BY <1>3, TheCoverpoints
  <2> QED
    BY <2>1, BinsOfEach, Zenon
<1>4. ASSUME NEW x \in Crosses PROVE x[1] \in Coverpoints /\ x[2] \in Coverpoints
  BY <1>4, TheCoverpoints DEF Crosses
<1> QED
  BY <1>1, <1>2, <1>3, <1>4

\* One more sample.
LEMMA TakeKeeps ==
  ASSUME CoverInv, NEW values, Take(values) PROVE CoverInv'
<1>1. ASSUME NEW cp \in Coverpoints PROVE point_hit'[cp] \subseteq DOMAIN Bins[cp]
  <2>1. point_hit'[cp] = IF cp \in DOMAIN values
                         THEN point_hit[cp] \cup BinsOf(cp, values[cp]) ELSE point_hit[cp]
    BY <1>1, Zenon DEF Take, PointsHit
  <2>2. point_hit[cp] \subseteq DOMAIN Bins[cp]
    BY <1>1 DEF CoverInv
  <2>3. BinsOf(cp, values[cp]) \subseteq DOMAIN Bins[cp]
    BY Zenon DEF BinsOf
  <2> QED
    BY <2>1, <2>2, <2>3
<1>2. ASSUME NEW x \in Crosses
      PROVE  /\ cross_hit'[x] \subseteq (DOMAIN Bins[x[1]]) \X (DOMAIN Bins[x[2]])
             /\ \A ab \in cross_hit'[x] : \E v \in sampled'[x] :
                  ab[1] \in BinsOf(x[1], v[1]) /\ ab[2] \in BinsOf(x[2], v[2])
  <2>1. /\ cross_hit[x] \subseteq (DOMAIN Bins[x[1]]) \X (DOMAIN Bins[x[2]])
        /\ \A ab \in cross_hit[x] : \E v \in sampled[x] :
             ab[1] \in BinsOf(x[1], v[1]) /\ ab[2] \in BinsOf(x[2], v[2])
    BY <1>2, Zenon DEF CoverInv
  <2>2. /\ cross_hit'[x] = IF x[1] \in DOMAIN values
                           THEN cross_hit[x] \cup PairsOf(x, values[x[1]], values[x[2]])
                           ELSE cross_hit[x]
        /\ sampled'[x] = IF x[1] \in DOMAIN values
                         THEN sampled[x] \cup {<<values[x[1]], values[x[2]]>>}
                         ELSE sampled[x]
    BY <1>2, Zenon DEF Take, PairsHit
  <2>3. CASE x[1] \notin DOMAIN values
    BY <2>1, <2>2, <2>3, Zenon
  <2>4. CASE x[1] \in DOMAIN values
    <3> DEFINE w == <<values[x[1]], values[x[2]]>>
    <3>1. cross_hit'[x] = cross_hit[x] \cup PairsOf(x, w[1], w[2]) /\ sampled'[x] = sampled[x] \cup {w}
      BY <2>2, <2>4
    <3> HIDE DEF w
    <3>2. PairsOf(x, w[1], w[2]) \subseteq (DOMAIN Bins[x[1]]) \X (DOMAIN Bins[x[2]])
      <4>1. BinsOf(x[1], w[1]) \subseteq DOMAIN Bins[x[1]] /\ BinsOf(x[2], w[2]) \subseteq DOMAIN Bins[x[2]]
        BY Zenon DEF BinsOf
      <4> QED
        BY <4>1 DEF PairsOf
    <3>3. \A ab \in PairsOf(x, w[1], w[2]) : ab[1] \in BinsOf(x[1], w[1]) /\ ab[2] \in BinsOf(x[2], w[2])
      BY DEF PairsOf
    <3>4. ASSUME NEW ab \in cross_hit'[x]
          PROVE  \E v \in sampled'[x] : ab[1] \in BinsOf(x[1], v[1]) /\ ab[2] \in BinsOf(x[2], v[2])
      <4>1. CASE ab \in cross_hit[x]
        BY <2>1, <3>1, <4>1, Zenon
      <4>2. CASE ab \in PairsOf(x, w[1], w[2])
        BY <3>1, <3>3, <4>2, Zenon
      <4> QED
        BY <3>1, <3>4, <4>1, <4>2
    <3>5. cross_hit'[x] \subseteq (DOMAIN Bins[x[1]]) \X (DOMAIN Bins[x[2]])
      BY <2>1, <3>1, <3>2
    <3> QED
      BY <3>4, <3>5
  <2> QED
    BY <2>3, <2>4
<1> QED
  BY <1>1, <1>2, Zenon DEF CoverInv, BinsOf

LEMMA CoverStarts == ScriptInit => CoverInv
<1> SUFFICES ASSUME ScriptInit PROVE CoverInv
  OBVIOUS
<1>1. \A cp \in Coverpoints : point_hit[cp] = {}
  BY Zenon DEF ScriptInit, CoverInit
<1>2. \A x \in Crosses : cross_hit[x] = {}
  BY Zenon DEF ScriptInit, CoverInit
<1> QED
  BY <1>1, <1>2 DEF CoverInv

LEMMA CoverKept == CoverInv /\ [ScriptNext]_scriptVars => CoverInv'
<1> SUFFICES ASSUME CoverInv, [ScriptNext]_scriptVars PROVE CoverInv'
  OBVIOUS
<1>1. CASE UNCHANGED coverVars
  BY <1>1, Zenon DEF CoverInv, coverVars, BinsOf
<1>2. CASE SampleInTurn
  <2>1. \E values : Take(values)
    BY <1>2, Zenon DEF SampleInTurn, Sample, SampleMoldUDP64, SampleSymbolFilter, SampleEthDrop
  <2> QED
    BY <2>1, TakeKeeps
<1>3. UNCHANGED coverVars \/ SampleInTurn
  BY Zenon DEF ScriptNext, scriptVars, coverVars
<1> QED
  BY <1>1, <1>2, <1>3

\* A part as large as the whole.
LEMMA FullIfAsMany ==
  ASSUME NEW S, IsFiniteSet(S), NEW s \in SUBSET S
  PROVE  /\ Cardinality(s) \in Nat /\ Cardinality(S) \in Nat /\ Cardinality(s) <= Cardinality(S)
         /\ Cardinality(s) = Cardinality(S) => s = S
BY FS_Subset, FS_CardinalityType

LEMMA CoveredIs ==
  /\ CoveredBins = SumOf([cp \in Coverpoints |-> Cardinality(point_hit[cp])], Coverpoints)
                   + SumOf([x \in Crosses |-> Cardinality(cross_hit[x])], Crosses)
  /\ TotalBins = SumOf([cp \in Coverpoints |-> Cardinality(DOMAIN Bins[cp])], Coverpoints)
                 + SumOf([x \in Crosses |-> Cardinality(DOMAIN Bins[x[1]])
                                            * Cardinality(DOMAIN Bins[x[2]])], Crosses)
<1>1. MapThenSumSet(LAMBDA cp : Cardinality(point_hit[cp]), Coverpoints)
      = SumOf([cp \in Coverpoints |-> Cardinality(point_hit[cp])], Coverpoints)
  BY DEF MapThenSumSet, MapThenFoldSet, SumsTo, SumOf, FirstOf, OthersOf
<1>2. MapThenSumSet(LAMBDA x : Cardinality(cross_hit[x]), Crosses)
      = SumOf([x \in Crosses |-> Cardinality(cross_hit[x])], Crosses)
  BY DEF MapThenSumSet, MapThenFoldSet, SumsTo, SumOf, FirstOf, OthersOf
<1>3. MapThenSumSet(LAMBDA cp : Cardinality(DOMAIN Bins[cp]), Coverpoints)
      = SumOf([cp \in Coverpoints |-> Cardinality(DOMAIN Bins[cp])], Coverpoints)
  BY DEF MapThenSumSet, MapThenFoldSet, SumsTo, SumOf, FirstOf, OthersOf
<1>4. MapThenSumSet(LAMBDA x : Cardinality(DOMAIN Bins[x[1]]) * Cardinality(DOMAIN Bins[x[2]]), Crosses)
      = SumOf([x \in Crosses |-> Cardinality(DOMAIN Bins[x[1]]) * Cardinality(DOMAIN Bins[x[2]])], Crosses)
  BY DEF MapThenSumSet, MapThenFoldSet, SumsTo, SumOf, FirstOf, OthersOf
<1> QED
  BY <1>1, <1>2, <1>3, <1>4 DEF CoveredBins, TotalBins

LEMMA AllMeansClosed == CoverInv /\ CoveredBins = TotalBins => IsCovered
<1> SUFFICES ASSUME CoverInv, CoveredBins = TotalBins PROVE IsCovered
  OBVIOUS
<1> DEFINE p == [cp \in Coverpoints |-> Cardinality(point_hit[cp])]
           q == [cp \in Coverpoints |-> Cardinality(DOMAIN Bins[cp])]
           c == [x \in Crosses |-> Cardinality(cross_hit[x])]
           d == [x \in Crosses |-> Cardinality(DOMAIN Bins[x[1]]) * Cardinality(DOMAIN Bins[x[2]])]
<1>1. ASSUME NEW cp \in Coverpoints
      PROVE  /\ p[cp] \in Nat /\ q[cp] \in Nat /\ p[cp] <= q[cp]
             /\ p[cp] = q[cp] => PointFull(cp)
  <2>1. p[cp] = Cardinality(point_hit[cp]) /\ q[cp] = Cardinality(DOMAIN Bins[cp])
    BY <1>1
  <2>2. IsFiniteSet(DOMAIN Bins[cp]) /\ point_hit[cp] \in SUBSET DOMAIN Bins[cp]
    BY <1>1, BinsAreFinite DEF CoverInv
  <2> HIDE DEF p, q
  <2> QED
    BY <2>1, <2>2, FullIfAsMany DEF PointFull
<1>2. ASSUME NEW x \in Crosses
      PROVE  /\ c[x] \in Nat /\ d[x] \in Nat /\ c[x] <= d[x]
             /\ c[x] = d[x] => CrossFull(x)
  <2>1. /\ c[x] = Cardinality(cross_hit[x])
        /\ d[x] = Cardinality(DOMAIN Bins[x[1]]) * Cardinality(DOMAIN Bins[x[2]])
    BY <1>2
  <2> HIDE DEF c, d
  <2>2. PICK S : S = DOMAIN Bins[x[1]]
    OBVIOUS
  <2>3. PICK T : T = DOMAIN Bins[x[2]]
    OBVIOUS
  <2>4. IsFiniteSet(S) /\ IsFiniteSet(T)
    BY <1>2, <2>2, <2>3, BinsAreFinite
  <2>5. IsFiniteSet(S \X T) /\ Cardinality(S \X T) = Cardinality(S) * Cardinality(T)
    BY <2>4, FS_Product
  <2>6. cross_hit[x] \in SUBSET (S \X T)
    BY <1>2, <2>2, <2>3 DEF CoverInv
  <2>7. d[x] = Cardinality(S \X T)
    BY <2>1, <2>2, <2>3, <2>5
  <2>8. CrossFull(x) <=> cross_hit[x] = S \X T
    BY <2>2, <2>3 DEF CrossFull
  <2> QED
    BY <2>1, <2>5, <2>6, <2>7, <2>8, FullIfAsMany
<1>3. /\ p \in [Coverpoints -> Nat] /\ q \in [Coverpoints -> Nat] /\ \A cp \in Coverpoints : p[cp] <= q[cp]
      /\ c \in [Crosses -> Nat] /\ d \in [Crosses -> Nat] /\ \A x \in Crosses : c[x] <= d[x]
  BY <1>1, <1>2
<1>4. SumOf(p, Coverpoints) + SumOf(c, Crosses) = SumOf(q, Coverpoints) + SumOf(d, Crosses)
  BY CoveredIs
<1> HIDE DEF p, q, c, d
<1>5. /\ SumOf(p, Coverpoints) \in Nat /\ SumOf(q, Coverpoints) \in Nat
      /\ SumOf(p, Coverpoints) <= SumOf(q, Coverpoints)
      /\ SumOf(p, Coverpoints) = SumOf(q, Coverpoints) => \A cp \in Coverpoints : p[cp] = q[cp]
  BY <1>3, BinsAreFinite, SumsDiffer
<1>6. /\ SumOf(c, Crosses) \in Nat /\ SumOf(d, Crosses) \in Nat
      /\ SumOf(c, Crosses) <= SumOf(d, Crosses)
      /\ SumOf(c, Crosses) = SumOf(d, Crosses) => \A x \in Crosses : c[x] = d[x]
  BY <1>3, BinsAreFinite, SumsDiffer
<1>7. (\A cp \in Coverpoints : p[cp] = q[cp]) /\ (\A x \in Crosses : c[x] = d[x])
  BY <1>4, <1>5, <1>6
<1>8. (\A cp \in Coverpoints : PointFull(cp)) /\ (\A x \in Crosses : CrossFull(x))
  BY <1>1, <1>2, <1>7
<1> QED
  BY <1>8, TheCoverpoints DEF IsCovered

\* 100 per cent of the bins is closure, and closure means that each pair of each
\* cross was hit by one sample.
THEOREM ClosureIsEarned == ScriptSpec => []ClosureNeedsEveryPair
<1>1. CoverInv => ClosureNeedsEveryPair
  <2> SUFFICES ASSUME CoverInv PROVE ClosureNeedsEveryPair
    OBVIOUS
  <2>1. ASSUME NEW x \in Crosses, CrossFull(x),
               NEW a \in DOMAIN Bins[x[1]], NEW b \in DOMAIN Bins[x[2]]
        PROVE  \E v \in sampled[x] : a \in BinsOf(x[1], v[1]) /\ b \in BinsOf(x[2], v[2])
    <3>1. <<a, b>> \in cross_hit[x]
      BY <2>1 DEF CrossFull
    <3>2. PICK v \in sampled[x] : <<a, b>>[1] \in BinsOf(x[1], v[1]) /\ <<a, b>>[2] \in BinsOf(x[2], v[2])
      BY <2>1, <3>1, Zenon DEF CoverInv
    <3> QED
      BY <3>2
  <2> QED
    BY <2>1, AllMeansClosed, Zenon DEF ClosureNeedsEveryPair
<1> QED
  BY <1>1, CoverStarts, CoverKept, PTL DEF ScriptSpec

=============================================================================
