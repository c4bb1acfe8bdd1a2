---------------------------- MODULE CheckerProofs ----------------------------
(***************************************************************************)
(* What the checker of the free lists promises about grades, for every     *)
(* configuration: a test earns its points by passing all its stages        *)
(* (EarnedOnlyByAllStages), a program that passes no test earns nothing    *)
(* (NoGradeWithoutTests), and grade.vmr lists what the grade lacks         *)
(* (VmrListsDeductions).  CheckerInv follows the test in progress and what *)
(* its stages left; SkipsInv and BalanceInv add what each stage of the     *)
(* checker makes of the grade.                                             *)
(***************************************************************************)
EXTENDS Checker, SequenceLemmas

TestStages == {"test", "check", "valgrind"}

Tests(c, i) == c.tasks[i].test

Results(c, i) == [grade  : {0} \cup {Tests(c, i)[n] : n \in DOMAIN Tests(c, i)},
                  code   : {0, 1, -1},
                  passed : SUBSET TestStages]

\* Test n of task i, with result t, is worth its points or nothing.
Wanted(c, i, n) == {"test", "check"} \cup
                   (IF c.tasks[i].valgrind[n] THEN {"valgrind"} ELSE {})

Worth(c, i, n, t) ==
  t.grade = IF t.passed = Wanted(c, i, n) THEN Tests(c, i)[n] ELSE 0

\* What the stages of a test that have run have left in its result.
SoFar(c, a, t) ==
  /\ a.stage = "test" => t.passed = {} /\ t.grade = 0
  /\ a.stage = "check" => t.passed = {"test"} /\ t.grade = 0
  /\ a.stage = "valgrind" => /\ c.tasks[a.task].valgrind[a.test]
                             /\ t.passed = {"test", "check"}
                             /\ t.grade = Tests(c, a.task)[a.test]
  /\ a.stage = "end" => Worth(c, a.task, a.test, t)

\* Of the task that runs, the tests before a.test are over, and that one has a
\* result once it has started.
InProgress(c, a, s) ==
  /\ Len(s) = a.test - 1 \/ Len(s) = a.test
  /\ Len(s) <= Len(Tests(c, a.task))
  /\ a.stage # "test" => Len(s) = a.test
  /\ Len(s) = a.test => SoFar(c, a, s[a.test])

ConfigOK(c) ==
  /\ Len(c.tasks) \in Nat /\ DOMAIN c.tasks = 1 .. Len(c.tasks)
  /\ \A i \in 1 .. Len(c.tasks) :
       Len(Tests(c, i)) \in Nat /\ DOMAIN Tests(c, i) = 1 .. Len(Tests(c, i))

ResultsOK(c, ts) ==
  /\ ts = [i \in 1 .. Len(c.tasks) |-> ts[i]]
  /\ \A i \in 1 .. Len(c.tasks) : ts[i] \in Seq(Results(c, i))

Positions(c) == [task  : 1 .. Len(c.tasks) + 1, test : Nat \ {0},
                 stage : TestStages \cup {"end"}]

Shape(c, a, ts) ==
  /\ ConfigOK(c)
  /\ ResultsOK(c, ts)
  /\ a \in Positions(c)
  /\ \A i \in 1 .. Len(c.tasks) : i > a.task => ts[i] = <<>>
  /\ a.task <= Len(c.tasks) => InProgress(c, a, ts[a.task])

Earned(c, a, ts) ==
  \A i \in 1 .. Len(c.tasks) : \A n \in 1 .. Len(ts[i]) :
     i < a.task \/ n < a.test => Worth(c, i, n, ts[i][n])

\* What the shape of the run says of the position and the results.
LEMMA ShapeFacts ==
  ASSUME NEW c, NEW a, NEW ts, Shape(c, a, ts)
  PROVE  /\ Len(c.tasks) \in Nat
         /\ a.task \in Nat /\ a.task >= 1 /\ a.task <= Len(c.tasks) + 1
         /\ a.test \in Nat /\ a.test >= 1 /\ a.stage \in TestStages \cup {"end"}
         /\ a = [task |-> a.task, test |-> a.test, stage |-> a.stage]
         /\ \A i \in 1 .. Len(c.tasks) :
              /\ Len(ts[i]) \in Nat /\ DOMAIN ts[i] = 1 .. Len(ts[i])
              /\ ts[i] \in Seq(Results(c, i))
              /\ Len(Tests(c, i)) \in Nat
              /\ DOMAIN Tests(c, i) = 1 .. Len(Tests(c, i))
<1>1. a \in Positions(c) /\ Len(c.tasks) \in Nat
  BY DEF Shape, ConfigOK
<1>2. \A i \in 1 .. Len(c.tasks) :
              /\ Len(ts[i]) \in Nat /\ DOMAIN ts[i] = 1 .. Len(ts[i])
              /\ ts[i] \in Seq(Results(c, i))
  <2>. TAKE i \in 1 .. Len(c.tasks)
  <2>1. ts[i] \in Seq(Results(c, i))
    BY DEF Shape, ResultsOK
  <2>. QED
    BY <2>1, LenProperties
<1>3. \A i \in 1 .. Len(c.tasks) : /\ Len(Tests(c, i)) \in Nat
              /\ DOMAIN Tests(c, i) = 1 .. Len(Tests(c, i))
  BY DEF Shape, ConfigOK
<1>. QED
  BY <1>1, <1>2, <1>3 DEF Positions

\* The results of the task that runs change: the shape is kept when the new
\* results are those of a task in progress, at the same test.
LEMMA TaskProceeds ==
  ASSUME NEW c, NEW a, NEW ts, Shape(c, a, ts), Earned(c, a, ts),
         a.task <= Len(c.tasks),
         NEW s \in Seq(Results(c, a.task)),
         NEW st \in TestStages \cup {"end"},
         NEW b, b = [a EXCEPT !.stage = st],
         InProgress(c, b, s),
         \A n \in 1 .. Len(s) : n < a.test => n \in 1 .. Len(ts[a.task]) /\ s[n] = ts[a.task][n],
         NEW us, us = [ts EXCEPT ![a.task] = s]
  PROVE  Shape(c, b, us) /\ Earned(c, b, us)
<1>. DEFINE k == a.task
<1>1. /\ Len(c.tasks) \in Nat /\ k \in Nat /\ k >= 1 /\ k <= Len(c.tasks)
      /\ a.test \in Nat /\ a.test >= 1
      /\ a = [task |-> k, test |-> a.test, stage |-> a.stage]
      /\ k \in 1 .. Len(c.tasks)
  BY ShapeFacts
<1>2. b.task = k /\ b.test = a.test /\ b \in Positions(c)
  <2>1. b = [task |-> k, test |-> a.test, stage |-> st]
    BY <1>1
  <2>. HIDE DEF k
  <2>. QED
    BY <1>1, <2>1 DEF Positions
<1>3. /\ ResultsOK(c, us) /\ us[k] = s
      /\ \A i \in 1 .. Len(c.tasks) : i # k => us[i] = ts[i]
  <2>1. ResultsOK(c, ts) /\ s \in Seq(Results(c, k)) /\ us = [ts EXCEPT ![k] = s]
    BY DEF Shape
  <2>. HIDE DEF k
  <2>. QED
    BY <1>1, <2>1 DEF ResultsOK
<1>. HIDE DEF k
<1>4. \A i \in 1 .. Len(c.tasks) : i > k => us[i] = <<>>
  <2>1. \A i \in 1 .. Len(c.tasks) : i > k => i # k
    BY <1>1
  <2>. QED
    BY <1>3, <2>1 DEF Shape, k
<1>5. Shape(c, b, us)
  BY <1>2, <1>3, <1>4 DEF Shape
<1>6. ASSUME NEW i \in 1 .. Len(c.tasks), NEW n \in 1 .. Len(us[i]),
             i < k \/ n < a.test
      PROVE  Worth(c, i, n, us[i][n])
  <2>1. CASE i # k
    BY <1>3, <1>6, <2>1 DEF Earned, k
  <2>2. CASE i = k
    <3>1. n < a.test
      BY <1>1, <1>6, <2>2
    <3>2. n \in 1 .. Len(ts[k]) /\ us[k][n] = ts[k][n]
      BY <1>3, <1>6, <2>2, <3>1 DEF k
    <3>. QED
      BY <1>1, <2>2, <3>1, <3>2 DEF Earned
  <2>. QED
    BY <2>1, <2>2
<1>. QED
  BY <1>2, <1>5, <1>6 DEF Earned

\* What the actions that run tests keep.
Progress == Shape(config, at, tests) /\ Earned(config, at, tests)

\* The next test starts with an empty result.
LEMMA StartTestKeeps ==
  ASSUME Progress, StartTest
  PROVE  Progress'
<1>. DEFINE k == at.task
            s == tests[k]
            e == [grade |-> 0, code |-> 0, passed |-> {}]
            r == Append(s, e)
<1>1. /\ k \in 1 .. Len(config.tasks) /\ k <= Len(config.tasks)
      /\ s \in Seq(Results(config, k)) /\ Len(s) \in Nat
      /\ at.test \in Nat /\ at.test >= 1
      /\ at.stage \in TestStages \cup {"end"}
      /\ Len(Tests(config, k)) \in Nat
      /\ at = [task |-> k, test |-> at.test, stage |-> at.stage]
  BY ShapeFacts DEF Progress, StartTest, Running
<1>2. InProgress(config, at, s)
  BY <1>1 DEF Progress, Shape
<1>3. Len(s) = at.test - 1 /\ at.test <= Len(Tests(config, k))
  BY <1>1, <1>2 DEF StartTest, task, InProgress, Tests
<1>4. at.stage = "test"
  BY <1>1, <1>2, <1>3 DEF InProgress
<1>5. e \in Results(config, k)
  BY DEF Results
<1>6. /\ r \in Seq(Results(config, k)) /\ Len(r) = Len(s) + 1 /\ r[Len(s) + 1] = e
      /\ \A n \in 1 .. Len(s) : r[n] = s[n]
  BY <1>1, <1>5, AppendProperties
<1>7. tests' = [tests EXCEPT ![k] = r] /\ at' = at /\ config' = config
  BY DEF StartTest
<1>8. at = [at EXCEPT !.stage = at.stage]
  BY <1>1
<1>9. e.passed = {} /\ e.grade = 0
  OBVIOUS
<1>. HIDE DEF k, s, e, r
<1>10. Len(r) = at.test /\ r[at.test] = e
  BY <1>1, <1>3, <1>6
<1>11. InProgress(config, at, r)
  BY <1>3, <1>4, <1>9, <1>10 DEF InProgress, SoFar, k
<1>12. \A n \in 1 .. Len(r) : n < at.test => n \in 1 .. Len(s) /\ r[n] = s[n]
  BY <1>1, <1>3, <1>6
<1>13. Shape(config, at, tests') /\ Earned(config, at, tests')
  BY <1>1, <1>6, <1>7, <1>8, <1>11, <1>12, TaskProceeds DEF Progress, k, s
<1>. QED
  BY <1>7, <1>13 DEF Progress

\* A stage of the test that runs ends: r is its new result.
LEMMA StageOfTestKeeps ==
  ASSUME Progress, Running, Len(tests[at.task]) = at.test,
         NEW t \in Results(config, at.task), NEW code \in {0, 1, -1},
         StageOfTestEnds(t, code), config' = config,
         NEW st, st = (IF code # 0 THEN "end" ELSE NextTestStage),
         SoFar(config, [task |-> at.task, test |-> at.test, stage |-> st], TestAfter(t, code))
  PROVE  Progress'
<1>. DEFINE k == at.task
            s == tests[k]
            e == TestAfter(t, code)
            r == [s EXCEPT ![at.test] = e]
            b == [task |-> k, test |-> at.test, stage |-> st]
<1>1. /\ k \in 1 .. Len(config.tasks) /\ k <= Len(config.tasks)
      /\ s \in Seq(Results(config, k)) /\ Len(s) \in Nat
      /\ DOMAIN s = 1 .. Len(s)
      /\ at.test \in Nat /\ at.test >= 1
      /\ at.stage \in TestStages \cup {"end"}
      /\ at = [task |-> k, test |-> at.test, stage |-> at.stage]
      /\ Len(Tests(config, k)) \in Nat
  BY ShapeFacts DEF Progress, Running
<1>2. InProgress(config, at, s) /\ Len(s) = at.test
  BY <1>1 DEF Progress, Shape
<1>3. st \in TestStages \cup {"end"}
  BY DEF NextTestStage, TestStages
<1>4. e \in Results(config, k)
  <2>1. t \in Results(config, k) /\ e = [t EXCEPT !.code = code, !.grade = IF code # 0 THEN 0 ELSE t.grade]
    BY DEF TestAfter
  <2>2. 0 \in {0} \cup {Tests(config, k)[n] : n \in DOMAIN Tests(config, k)}
    OBVIOUS
  <2>. HIDE DEF e, k
  <2>. QED
    BY <2>1, <2>2 DEF Results
<1>5. /\ r \in Seq(Results(config, k)) /\ Len(r) = Len(s) /\ r[at.test] = e
      /\ \A n \in 1 .. Len(s) : n # at.test => r[n] = s[n]
  <2>1. at.test \in 1 .. Len(s)
    BY <1>1, <1>2
  <2>. HIDE DEF s, e, k
  <2>. QED
    BY <1>1, <1>4, <2>1, ExceptSeq
<1>6. tests' = [tests EXCEPT ![k] = r] /\ at' = [at EXCEPT !.stage = st]
  BY DEF StageOfTestEnds
<1>7. at' = b
  BY <1>1, <1>6
<1>8. b.task = k /\ b.test = at.test /\ b.stage = st
  OBVIOUS
<1>9. SoFar(config, b, e)
  OBVIOUS
<1>. HIDE DEF k, s, e, r, b
<1>10. InProgress(config, at', r)
  BY <1>1, <1>2, <1>5, <1>7, <1>8, <1>9 DEF InProgress
<1>11. \A n \in 1 .. Len(r) : n < at.test => n \in 1 .. Len(s) /\ r[n] = s[n]
  BY <1>1, <1>5
<1>12. Shape(config, at', tests') /\ Earned(config, at', tests')
  BY <1>1, <1>3, <1>5, <1>6, <1>10, <1>11, TaskProceeds DEF Progress, k, s
<1>. QED
  BY <1>12 DEF Progress

\* The program runs, alone or under valgrind.
LEMMA RunTestKeeps ==
  ASSUME Progress, RunTest
  PROVE  Progress'
<1>. DEFINE k == at.task
            n == at.test
            t == tests[k][n]
<1>1. /\ k \in 1 .. Len(config.tasks) /\ k <= Len(config.tasks)
      /\ tests[k] \in Seq(Results(config, k)) /\ Len(tests[k]) = n
      /\ n \in 1 .. Len(tests[k])
      /\ Running
  BY ShapeFacts DEF Progress, RunTest, Running
<1>2. t \in Results(config, k)
  BY <1>1, ElementOfSeq
<1>3. InProgress(config, at, tests[k])
  BY <1>1 DEF Progress, Shape
<1>4. SoFar(config, at, t)
  BY <1>1, <1>3 DEF InProgress
<1>5. PICK code \in {0, 1, -1} :
        StageOfTestEnds(IF code = 0 THEN [t EXCEPT !.passed = @ \union {at.stage}]
                        ELSE t, code)
  BY DEF RunTest
<1>6. config' = config /\ (at.stage = "test" \/ at.stage = "valgrind")
  BY DEF RunTest
<1>. DEFINE u == IF code = 0 THEN [t EXCEPT !.passed = @ \union {at.stage}] ELSE t
            e == TestAfter(u, code)
            st == IF code # 0 THEN "end" ELSE NextTestStage
            b == [task |-> k, test |-> n, stage |-> st]
<1>7. StageOfTestEnds(u, code)
  BY <1>5
<1>8. /\ k = b.task /\ n = b.test /\ st = b.stage
  OBVIOUS
<1>9. /\ at.stage = "test" /\ code = 0 => st = "check"
      /\ at.stage = "valgrind" /\ code = 0 => st = "end"
      /\ code # 0 => st = "end"
  BY DEF NextTestStage
<1>. HIDE DEF t
<1>10. /\ u \in Results(config, k)
       /\ code = 0 => u.passed = t.passed \cup {at.stage} /\ u.grade = t.grade
       /\ code # 0 => u.passed = t.passed
  BY <1>2, <1>6 DEF Results, TestStages
<1>11. /\ e.passed = u.passed
       /\ e.grade = IF code # 0 THEN 0 ELSE u.grade
  <2>1. e = [u EXCEPT !.code = code, !.grade = IF code # 0 THEN 0 ELSE u.grade]
    BY DEF TestAfter
  <2>. HIDE DEF e, u, k
  <2>. QED
    BY <1>10, <2>1 DEF Results
<1>. HIDE DEF k, n, u, e, st, b
<1>12. SoFar(config, b, e)
  <2>1. CASE code # 0
    <3>1. t.passed # Wanted(config, k, n)
      BY <1>4, <1>6 DEF SoFar, Wanted, k, n
    <3>2. Worth(config, k, n, e)
      BY <1>10, <1>11, <2>1, <3>1 DEF Worth
    <3>. QED
      BY <1>8, <1>9, <2>1, <3>2 DEF SoFar
  <2>2. CASE code = 0 /\ at.stage = "test"
    <3>1. e.passed = {"test"} /\ e.grade = 0
      BY <1>4, <1>10, <1>11, <2>2 DEF SoFar
    <3>. QED
      BY <1>8, <1>9, <2>2, <3>1 DEF SoFar
  <2>3. CASE code = 0 /\ at.stage = "valgrind"
    <3>1. /\ e.passed = {"test", "check", "valgrind"}
          /\ e.grade = Tests(config, k)[n]
          /\ config.tasks[k].valgrind[n]
      BY <1>4, <1>10, <1>11, <2>3 DEF SoFar, k, n
    <3>2. e.passed = Wanted(config, k, n)
      BY <3>1 DEF Wanted
    <3>3. Worth(config, k, n, e)
      BY <3>1, <3>2 DEF Worth
    <3>. QED
      BY <1>8, <1>9, <2>3, <3>3 DEF SoFar
  <2>. QED
    BY <1>6, <2>1, <2>2, <2>3
<1>13. u \in Results(config, at.task) /\ Len(tests[at.task]) = at.test
  BY <1>1, <1>10 DEF k, n
<1>14. SoFar(config, [task |-> at.task, test |-> at.test, stage |-> st], TestAfter(u, code))
  BY <1>12 DEF b, e, k, n
<1>15. st = (IF code # 0 THEN "end" ELSE NextTestStage)
  BY DEF st
<1>. QED
  BY <1>1, <1>6, <1>7, <1>13, <1>14, <1>15, StageOfTestKeeps

\* The output of the program is graded.
LEMMA GradeTestKeeps ==
  ASSUME Progress, GradeTest
  PROVE  Progress'
<1>. DEFINE k == at.task
            n == at.test
            t == tests[k][n]
            p == Tests(config, k)[n]
<1>1. /\ k \in 1 .. Len(config.tasks) /\ k <= Len(config.tasks)
      /\ tests[k] \in Seq(Results(config, k))
      /\ Running /\ at.stage = "check"
      /\ n \in Nat /\ n >= 1 /\ Len(Tests(config, k)) \in Nat
      /\ DOMAIN Tests(config, k) = 1 .. Len(Tests(config, k))
  BY ShapeFacts DEF Progress, GradeTest, Running
<1>2. InProgress(config, at, tests[k])
  BY <1>1 DEF Progress, Shape
<1>3. Len(tests[k]) = n /\ n \in 1 .. Len(tests[k]) /\ n \in DOMAIN Tests(config, k)
  BY <1>1, <1>2 DEF InProgress
<1>4. t \in Results(config, k)
  BY <1>1, <1>3, ElementOfSeq
<1>5. t.passed = {"test"} /\ t.grade = 0
  BY <1>1, <1>2, <1>3 DEF InProgress, SoFar
<1>6. PICK g \in Graders(p) :
        StageOfTestEnds([t EXCEPT !.grade = CheckTest(g).grade,
                           !.passed = IF CheckTest(g).code = 0 THEN @ \union {"check"}
                                      ELSE @], CheckTest(g).code)
  BY DEF GradeTest, task, Tests
<1>7. config' = config
  BY DEF GradeTest
<1>. DEFINE code == CheckTest(g).code
            u == [t EXCEPT !.grade = CheckTest(g).grade,
                           !.passed = IF CheckTest(g).code = 0 THEN @ \union {"check"}
                                      ELSE @]
            e == TestAfter(u, code)
            st == IF code # 0 THEN "end" ELSE NextTestStage
            b == [task |-> k, test |-> n, stage |-> st]
<1>8. StageOfTestEnds(u, code)
  BY <1>6
<1>9. /\ k = b.task /\ n = b.test /\ st = b.stage
  OBVIOUS
<1>10. /\ code = 0 \/ code = -1
       /\ CheckTest(g).grade = IF code = 0 THEN p ELSE 0
  BY DEF Graders, CheckTest
<1>11. /\ code # 0 => st = "end"
       /\ code = 0 /\ config.tasks[k].valgrind[n] => st = "valgrind"
       /\ code = 0 /\ ~config.tasks[k].valgrind[n] => st = "end"
  BY <1>1 DEF NextTestStage, task
<1>. HIDE DEF t, p
<1>12. /\ u \in Results(config, k)
       /\ u.grade = CheckTest(g).grade
       /\ u.passed = IF code = 0 THEN t.passed \cup {"check"} ELSE t.passed
  <2>1. CheckTest(g).grade \in {0} \cup {Tests(config, k)[i] : i \in DOMAIN Tests(config, k)}
    BY <1>3, <1>10 DEF p
  <2>. HIDE DEF k
  <2>. QED
    BY <1>4, <2>1 DEF Results, TestStages
<1>13. /\ e.passed = u.passed
       /\ e.grade = IF code # 0 THEN 0 ELSE u.grade
  <2>1. e = [u EXCEPT !.code = code, !.grade = IF code # 0 THEN 0 ELSE u.grade]
    BY DEF TestAfter
  <2>. HIDE DEF e, u, k, code
  <2>. QED
    BY <1>12, <2>1 DEF Results
<1>. HIDE DEF k, n, u, e, st, b, code
<1>14. SoFar(config, b, e)
  <2>1. CASE code # 0
    <3>1. e.passed = {"test"} /\ e.grade = 0
      BY <1>5, <1>12, <1>13, <2>1
    <3>2. e.passed # Wanted(config, k, n)
      BY <3>1 DEF Wanted
    <3>3. Worth(config, k, n, e)
      BY <3>1, <3>2 DEF Worth
    <3>. QED
      BY <1>9, <1>11, <2>1, <3>3 DEF SoFar
  <2>2. CASE code = 0
    <3>1. e.passed = {"test", "check"} /\ e.grade = Tests(config, k)[n]
      BY <1>5, <1>10, <1>12, <1>13, <2>2 DEF p
    <3>2. CASE config.tasks[k].valgrind[n]
      BY <1>9, <1>11, <2>2, <3>1, <3>2 DEF SoFar
    <3>3. CASE ~config.tasks[k].valgrind[n]
      <4>1. e.passed = Wanted(config, k, n)
        BY <3>1, <3>3 DEF Wanted
      <4>2. Worth(config, k, n, e)
        BY <3>1, <4>1 DEF Worth
      <4>. QED
        BY <1>9, <1>11, <2>2, <3>3, <4>2 DEF SoFar
    <3>. QED
      BY <3>2, <3>3
  <2>. QED
    BY <2>1, <2>2
<1>15. u \in Results(config, at.task) /\ Len(tests[at.task]) = at.test /\ code \in {0, 1, -1}
  BY <1>3, <1>10, <1>12 DEF k, n
<1>16. SoFar(config, [task |-> at.task, test |-> at.test, stage |-> st], TestAfter(u, code))
  BY <1>14 DEF b, e, k, n
<1>17. st = (IF code # 0 THEN "end" ELSE NextTestStage)
  BY DEF st
<1>. QED
  BY <1>1, <1>7, <1>8, <1>15, <1>16, <1>17, StageOfTestKeeps

\* The next test of the task.
LEMMA EndTestKeeps ==
  ASSUME Progress, EndTest
  PROVE  Progress'
<1>. DEFINE k == at.task
            n == at.test
            s == tests[k]
            b == [task |-> k, test |-> n + 1, stage |-> "test"]
<1>1. /\ k \in 1 .. Len(config.tasks) /\ k <= Len(config.tasks)
      /\ s \in Seq(Results(config, k)) /\ Len(s) \in Nat
      /\ at.stage = "end"
      /\ n \in Nat /\ n >= 1 /\ k \in Nat
      /\ at = [task |-> k, test |-> n, stage |-> at.stage]
  BY ShapeFacts DEF Progress, EndTest, Running
<1>2. InProgress(config, at, s)
  BY <1>1 DEF Progress, Shape
<1>3. Len(s) = n /\ Worth(config, k, n, s[n]) /\ Len(s) <= Len(Tests(config, k))
  BY <1>1, <1>2 DEF InProgress, SoFar
<1>4. at' = [at EXCEPT !.test = n + 1, !.stage = "test"]
      /\ tests' = tests /\ config' = config
  BY DEF EndTest
<1>5. at' = b
  BY <1>1, <1>4
<1>6. b.task = k /\ b.test = n + 1 /\ b.stage = "test"
  OBVIOUS
<1>7. b \in Positions(config)
  BY <1>1 DEF Positions, Progress, Shape, TestStages
<1>. HIDE DEF k, n, s, b
<1>8. InProgress(config, b, s)
  <2>1. Len(s) = b.test - 1 /\ Len(s) # b.test
    BY <1>1, <1>3, <1>6
  <2>. QED
    BY <1>3, <1>6, <2>1 DEF InProgress
<1>9. Shape(config, b, tests)
  BY <1>6, <1>7, <1>8 DEF Progress, Shape, k, s
<1>10. ASSUME NEW i \in 1 .. Len(config.tasks), NEW m \in 1 .. Len(tests[i]),
              i < k \/ m < n + 1
       PROVE  Worth(config, i, m, tests[i][m])
  <2>1. CASE i < k \/ m < n
    BY <2>1 DEF Progress, Earned, k, n
  <2>2. CASE ~(i < k \/ m < n)
    <3>1. i >= k /\ i \in Nat /\ m = n
      BY <1>1, <1>10, <2>2, ShapeFacts DEF Progress
    <3>2. i = k
      <4>1. i > k => tests[i] = <<>>
        BY DEF Progress, Shape, k
      <4>2. tests[i] # <<>>
        BY <1>10
      <4>. QED
        BY <1>1, <3>1, <4>1, <4>2
    <3>. QED
      BY <1>3, <3>1, <3>2 DEF s
  <2>. QED
    BY <2>1, <2>2
<1>11. Earned(config, b, tests)
  BY <1>6, <1>10 DEF Earned
<1>. QED
  BY <1>4, <1>5, <1>9, <1>11 DEF Progress

\* The next task.
LEMMA EndTaskKeeps ==
  ASSUME Progress, EndTask
  PROVE  Progress'
<1>. DEFINE k == at.task
            n == at.test
            s == tests[k]
            b == [task |-> k + 1, test |-> 1, stage |-> "test"]
<1>1. /\ k \in 1 .. Len(config.tasks) /\ k <= Len(config.tasks)
      /\ Len(config.tasks) \in Nat
      /\ Len(s) \in Nat
      /\ n \in Nat /\ n >= 1 /\ k \in Nat
      /\ Len(Tests(config, k)) \in Nat
  BY ShapeFacts DEF Progress, EndTask, Running
<1>2. InProgress(config, at, s)
  BY <1>1 DEF Progress, Shape
<1>3. n > Len(Tests(config, k)) /\ Len(s) <= Len(Tests(config, k))
  BY <1>2 DEF EndTask, task, Tests, InProgress
<1>4. at' = b /\ tests' = tests /\ config' = config
  BY DEF EndTask
<1>5. b.task = k + 1 /\ b.test = 1 /\ b.stage = "test"
  OBVIOUS
<1>6. b \in Positions(config)
  BY <1>1 DEF Positions, TestStages
<1>. HIDE DEF k, n, s, b
<1>7. ASSUME NEW i \in 1 .. Len(config.tasks), i > k
      PROVE  tests[i] = <<>>
  BY <1>7 DEF Progress, Shape, k
<1>8. ASSUME b.task <= Len(config.tasks)
      PROVE  InProgress(config, b, tests[b.task])
  <2>1. b.task \in 1 .. Len(config.tasks) /\ b.task > k
    BY <1>1, <1>5, <1>8
  <2>2. tests[b.task] = <<>> /\ Len(Tests(config, b.task)) \in Nat
    BY <1>7, <2>1, ShapeFacts DEF Progress
  <2>3. Len(tests[b.task]) = 0
    BY <2>2
  <2>. QED
    BY <1>5, <2>2, <2>3 DEF InProgress
<1>9. \A i \in 1 .. Len(config.tasks) : i > b.task => tests[i] = <<>>
  BY <1>1, <1>5, <1>7
<1>10. Shape(config, b, tests)
  BY <1>6, <1>8, <1>9 DEF Progress, Shape
<1>11. ASSUME NEW i \in 1 .. Len(config.tasks), NEW m \in 1 .. Len(tests[i]),
              i < k + 1 \/ m < 1
       PROVE  Worth(config, i, m, tests[i][m])
  <2>1. m \in Nat /\ m >= 1 /\ i \in Nat /\ m <= Len(tests[i])
    BY <1>11, ShapeFacts DEF Progress
  <2>2. CASE i < k
    BY <2>2 DEF Progress, Earned, k
  <2>3. CASE i = k
    <3>1. m < n
      BY <1>1, <1>3, <2>1, <2>3 DEF s
    <3>. QED
      BY <3>1 DEF Progress, Earned, n
  <2>. QED
    BY <1>1, <1>11, <2>1, <2>2, <2>3
<1>12. Earned(config, b, tests)
  BY <1>5, <1>11 DEF Earned
<1>. QED
  BY <1>4, <1>10, <1>12 DEF Progress

-----------------------------------------------------------------------------
RawOK == raw \in [file : RawConfigs, args : {None, 1}, judge : BOOLEAN]

\* A task of the configuration has as many tests as the file says.
LEMMA TaskTests ==
  ASSUME NEW t, t.tests \in Nat
  PROVE  /\ DOMAIN Task(t).test = 1 .. t.tests
         /\ Len(Task(t).test) = t.tests
<1>. DEFINE f == TestPoints(t)
<1>1. DOMAIN f = 1 .. t.tests /\ f = [n \in 1 .. t.tests |-> f[n]]
  BY DEF TestPoints
<1>2. Task(t).test = f
  BY DEF Task
<1>. HIDE DEF f
<1>3. Len(f) = t.tests
  BY <1>1, FunctionIsSeq
<1>. QED
  BY <1>1, <1>2, <1>3

\* The tasks of the file, all of them or the one that is asked for.
LEMMA ConfiguredTasks ==
  ASSUME RawOK
  PROVE  /\ ConfigOK(Configured)
         /\ Len(Configured.tasks) >= 1
         /\ Configured.fields = ParseConfig(raw.file)
         /\ raw.args = None =>
              /\ Len(Configured.tasks) = Len(raw.file.tasks)
              /\ \A i \in 1 .. Len(raw.file.tasks) :
                    Configured.tasks[i] = Task(raw.file.tasks[i])
         /\ raw.args # None =>
              /\ Len(Configured.tasks) = 1
              /\ Configured.tasks[1] = Task(raw.file.tasks[1])
<1>. DEFINE file == raw.file
            ts == ApplyArgs(file, raw.args)
            m == Len(ts)
            c == Configured
<1>1. file \in RawConfigs /\ raw.args \in {None, 1}
  BY DEF RawOK
<1>2. /\ Len(file.tasks) \in Nat \ {0} /\ DOMAIN file.tasks = 1 .. Len(file.tasks)
      /\ \A i \in DOMAIN file.tasks : file.tasks[i].tests \in Nat
  BY <1>1, ConfigsAssumption
<1>3. /\ m \in Nat \ {0} /\ DOMAIN ts = 1 .. m
      /\ \A i \in 1 .. m : ts[i].tests \in Nat
      /\ raw.args = None => ts = file.tasks
      /\ raw.args # None => m = 1 /\ ts[1] = file.tasks[1]
  <2>1. CASE raw.args = None
    BY <1>2, <2>1 DEF ApplyArgs
  <2>2. CASE raw.args # None
    <3>1. ts = <<file.tasks[1]>>
      BY <1>1, <2>2 DEF ApplyArgs
    <3>2. 1 \in DOMAIN file.tasks
      BY <1>2
    <3>3. file.tasks[1].tests \in Nat
      BY <1>2, <3>2
    <3>. HIDE DEF ts
    <3>4. m = 1 /\ DOMAIN ts = 1 .. 1 /\ ts[1] = file.tasks[1]
      BY <3>1
    <3>. QED
      BY <2>2, <3>3, <3>4
  <2>. QED
    BY <2>1, <2>2
<1>4. /\ c.tasks = [i \in DOMAIN ts |-> Task(ts[i])]
      /\ c.fields = ParseConfig(file)
  BY DEF Configured
<1>. HIDE DEF ts, c, m, file
<1>5. DOMAIN c.tasks = 1 .. m /\ \A i \in 1 .. m : c.tasks[i] = Task(ts[i])
  BY <1>3, <1>4
<1>6. Len(c.tasks) = m
  <2>1. c.tasks = [i \in 1 .. m |-> c.tasks[i]]
    BY <1>3, <1>4, <1>5
  <2>. QED
    BY <1>3, <1>5, <2>1, FunctionIsSeq
<1>7. ASSUME NEW i \in 1 .. m
      PROVE  Len(Tests(c, i)) \in Nat /\ DOMAIN Tests(c, i) = 1 .. Len(Tests(c, i))
  <2>1. Tests(c, i) = Task(ts[i]).test
    BY <1>5 DEF Tests
  <2>2. ts[i].tests \in Nat
    BY <1>3
  <2>3. DOMAIN Task(ts[i]).test = 1 .. ts[i].tests /\ Len(Task(ts[i]).test) = ts[i].tests
    BY <2>2, TaskTests
  <2>. QED
    BY <2>1, <2>2, <2>3
<1>8. ConfigOK(c)
  BY <1>3, <1>5, <1>6, <1>7 DEF ConfigOK
<1>. QED
  BY <1>3, <1>4, <1>5, <1>6, <1>8, <1>2 DEF c, m, file

\* The run begins at the first test, without results.
LEMMA GetConfigKeeps ==
  ASSUME RawOK, at = [task |-> 1, test |-> 1, stage |-> "test"], GetConfig
  PROVE  Progress'
<1>. DEFINE c == Configured
            n == Len(c.tasks)
<1>1. ConfigOK(c) /\ n >= 1
  BY ConfiguredTasks
<1>2. config' = c /\ at' = at /\ tests' = [i \in DOMAIN c.tasks |-> <<>>]
  BY DEF GetConfig
<1>. HIDE DEF c
<1>3. n \in Nat /\ tests' = [i \in 1 .. n |-> <<>>]
  BY <1>1, <1>2 DEF ConfigOK
<1>. HIDE DEF n
<1>4. \A i \in 1 .. n : tests'[i] = <<>>
  BY <1>3
<1>5. tests' = [i \in 1 .. n |-> tests'[i]]
  BY <1>3
<1>6. ResultsOK(c, tests')
  <2>1. \A i \in 1 .. n : tests'[i] \in Seq(Results(c, i))
    BY <1>4, EmptySeq
  <2>. QED
    BY <1>5, <2>1 DEF ResultsOK, n
<1>7. at \in Positions(c) /\ at.task = 1 /\ at.test = 1 /\ at.stage = "test"
  BY <1>1, <1>3 DEF Positions, TestStages, n
<1>8. InProgress(c, at, tests'[at.task])
  <2>1. 1 \in 1 .. n
    BY <1>1, <1>3
  <2>2. tests'[at.task] = <<>> /\ Len(Tests(c, 1)) \in Nat
    BY <1>1, <1>4, <1>7, <2>1 DEF ConfigOK, n
  <2>3. Len(tests'[at.task]) = 0
    BY <2>2
  <2>. QED
    BY <1>7, <2>2, <2>3 DEF InProgress
<1>9. Shape(c, at, tests')
  BY <1>1, <1>4, <1>6, <1>7, <1>8 DEF Shape, n
<1>10. Earned(c, at, tests')
  <2>1. \A i \in 1 .. n : 1 .. Len(tests'[i]) = {}
    BY <1>4
  <2>. QED
    BY <2>1 DEF Earned, n
<1>. QED
  BY <1>2, <1>9, <1>10 DEF Progress

\* The order of the stages.
LEMMA Order ==
  /\ After("check_deps", 0) = "make_build"
  /\ After("make_build", 0) = "run_tasks"
  /\ After("run_tasks", 0) = "check_style"
  /\ After("check_style", 0) = "check_readme"
  /\ After("check_readme", 0) = "make_clean"
  /\ After("make_clean", 0) = "print_grade_vmr"
  /\ After("print_grade_vmr", 0) = "finish"
<1>1. /\ Stages[1] = "check_deps" /\ Stages[2] = "make_build"
      /\ Stages[3] = "run_tasks" /\ Stages[4] = "check_style"
      /\ Stages[5] = "check_readme" /\ Stages[6] = "make_clean"
      /\ Stages[7] = "print_grade_vmr" /\ Stages[8] = "finish"
  BY DEF Stages
<1>2. ASSUME NEW k \in 1 .. 7, NEW i \in 1 .. 7, Stages[i] = Stages[k]
      PROVE  i = k
  BY <1>1, <1>2
<1>3. ASSUME NEW k \in 1 .. 7
      PROVE  After(Stages[k], 0) = Stages[1 + k]
  <2>1. (CHOOSE i \in 1 .. 7 : Stages[i] = Stages[k]) = k
    BY <1>2
  <2>. QED
    BY <2>1 DEF After
<1>. QED
  BY <1>1, <1>3

\* A stage that fails is followed by the end.
LEMMA FailureEnds ==
  ASSUME NEW name, NEW ret, ret # 0
  PROVE  After(name, ret) = "finish"
BY DEF After

-----------------------------------------------------------------------------
Beginning == [task |-> 1, test |-> 1, stage |-> "test"]

BuildStages == {"check_deps", "make_build"}
LastStages  == {"check_style", "check_readme", "make_clean", "print_grade_vmr"}
AllStages   == BuildStages \cup LastStages \cup
               {"get_config", "run_tasks", "finish", "done", "crashed"}

CheckerInv ==
  /\ RawOK
  /\ stage \in AllStages
  /\ stage \in BuildStages \cup {"get_config"} => at = Beginning
  /\ stage = "get_config" => tests = <<>>
  /\ stage # "get_config" => Progress

\* Where each action can lead.
MovesTo(s, S) == stage = s /\ stage' \in S

\* The stage each action runs at, and those it can lead to.
LEMMA StageOfSteps ==
  /\ GetConfig => MovesTo("get_config", {"crashed", "check_deps"})
  /\ CheckDeps => MovesTo("check_deps", {"make_build", "finish"})
  /\ MakeBuild => MovesTo("make_build", {"run_tasks", "finish"})
  /\ StartTest \/ RunTest \/ GradeTest \/ EndTest \/ EndTask =>
        MovesTo("run_tasks", {"run_tasks"})
  /\ EndTasks => MovesTo("run_tasks", {"check_style", "finish"})
  /\ CheckStyle => MovesTo("check_style", {"check_readme", "finish"})
  /\ CheckReadme => MovesTo("check_readme", {"make_clean", "crashed"})
  /\ MakeClean => MovesTo("make_clean", {"print_grade_vmr", "finish"})
  /\ PrintGradeVmr => MovesTo("print_grade_vmr", {"finish"})
  /\ Finish => MovesTo("finish", {"done"})
<1>1. GetConfig => MovesTo("get_config", {"crashed", "check_deps"})
  BY DEF GetConfig, MovesTo
<1>2. CheckDeps => MovesTo("check_deps", {"make_build", "finish"})
  BY Order, FailureEnds DEF CheckDeps, Ends, MovesTo
<1>3. MakeBuild => MovesTo("make_build", {"run_tasks", "finish"})
  BY Order, FailureEnds DEF MakeBuild, BuildFails, BuildWarns, Ends, MovesTo
<1>4. StartTest \/ RunTest \/ GradeTest \/ EndTest \/ EndTask =>
        MovesTo("run_tasks", {"run_tasks"})
  BY DEF StartTest, RunTest, GradeTest, EndTest, EndTask, Running, MovesTo
<1>5. EndTasks => MovesTo("run_tasks", {"check_style", "finish"})
  BY Order, FailureEnds DEF EndTasks, Ends, AllTasksRun, MovesTo
<1>6. CheckStyle => MovesTo("check_style", {"check_readme", "finish"})
  BY Order, FailureEnds DEF CheckStyle, Ends, MovesTo
<1>7. CheckReadme => MovesTo("check_readme", {"make_clean", "crashed"})
  BY Order DEF CheckReadme, Ends, MovesTo
<1>8. MakeClean => MovesTo("make_clean", {"print_grade_vmr", "finish"})
  BY Order, FailureEnds DEF MakeClean, CleanFails, Ends, MovesTo
<1>9. PrintGradeVmr => MovesTo("print_grade_vmr", {"finish"})
  BY Order DEF PrintGradeVmr, Ends, MovesTo
<1>10. Finish => MovesTo("finish", {"done"})
  BY DEF Finish, MovesTo
<1>. QED
  BY <1>1, <1>2, <1>3, <1>4, <1>5, <1>6, <1>7, <1>8, <1>9, <1>10

\* The other actions leave the tests as they are.
LEMMA OthersLeaveTests ==
  ASSUME CheckDeps \/ MakeBuild \/ EndTasks \/ CheckStyle \/ CheckReadme
         \/ MakeClean \/ PrintGradeVmr \/ Finish
  PROVE  UNCHANGED <<raw, config, at, tests>>
BY DEF CheckDeps, MakeBuild, EndTasks, CheckStyle, CheckReadme, MakeClean,
       PrintGradeVmr, Finish, counts

\* The actions that run tests leave the configuration as it is.
LEMMA TestsLeaveRest ==
  ASSUME StartTest \/ RunTest \/ GradeTest \/ EndTest \/ EndTask
  PROVE  UNCHANGED <<raw, config>>
BY DEF StartTest, RunTest, GradeTest, EndTest, EndTask

\* The initial states satisfy the invariant.
LEMMA CheckerInit ==
  ASSUME Init
  PROVE  CheckerInv
BY DEF Init, CheckerInv, RawOK, AllStages, Beginning, BuildStages

\* Every step keeps the invariant.
LEMMA CheckerNext ==
  ASSUME CheckerInv, [Next]_vars
  PROVE  CheckerInv'
<1>1. CASE GetConfig
  <2>1. MovesTo("get_config", {"crashed", "check_deps"})
    BY <1>1, StageOfSteps
  <2>2. Progress'
    BY <1>1, <2>1, GetConfigKeeps DEF CheckerInv, MovesTo, Beginning
  <2>3. UNCHANGED <<raw, at>>
    BY <1>1 DEF GetConfig
  <2>. QED
    BY <2>1, <2>2, <2>3 DEF CheckerInv, MovesTo, RawOK, AllStages, BuildStages, Beginning
<1>2. CASE StartTest \/ RunTest \/ GradeTest \/ EndTest \/ EndTask
  <2>1. MovesTo("run_tasks", {"run_tasks"})
    BY <1>2, StageOfSteps
  <2>2. Progress
    BY <2>1 DEF CheckerInv, MovesTo
  <2>3. Progress'
    BY <1>2, <2>2, StartTestKeeps, RunTestKeeps, GradeTestKeeps, EndTestKeeps, EndTaskKeeps
  <2>4. raw' = raw
    BY <1>2, TestsLeaveRest
  <2>. QED
    BY <2>1, <2>3, <2>4 DEF CheckerInv, MovesTo, RawOK, BuildStages, AllStages
<1>3. CASE CheckDeps \/ MakeBuild \/ EndTasks \/ CheckStyle \/ CheckReadme
           \/ MakeClean \/ PrintGradeVmr \/ Finish
  <2>1. UNCHANGED <<raw, config, at, tests>>
    BY <1>3, OthersLeaveTests
  <2>2. /\ stage # "get_config" /\ stage' # "get_config" /\ stage' \in AllStages
        /\ stage' \in BuildStages => stage \in BuildStages
    BY <1>3, StageOfSteps DEF MovesTo, AllStages, BuildStages, LastStages
  <2>. QED
    BY <2>1, <2>2 DEF CheckerInv, RawOK, Progress
<1>4. CASE UNCHANGED vars
  BY <1>4 DEF vars, CheckerInv, RawOK, Progress
<1>. QED
  BY <1>1, <1>2, <1>3, <1>4 DEF Next

\* The invariant of the run of the tests holds in every state.
LEMMA CheckerInvariant == Spec => []CheckerInv
<1>. QED
  BY CheckerInit, CheckerNext, PTL DEF Spec

\* A test that is over is worth its points exactly when it ran, was graded and,
\* where it is asked for, passed valgrind; a later stage that fails takes the
\* points of the earlier ones away (run_task, check_test).
THEOREM EarnedOnlyByAllStages == Spec => []EarnedByAllStages
<1>1. CheckerInv => EarnedByAllStages
  <2>. SUFFICES ASSUME CheckerInv PROVE EarnedByAllStages
    OBVIOUS
  <2>1. CASE stage = "get_config"
    BY <2>1 DEF CheckerInv, EarnedByAllStages
  <2>2. CASE stage # "get_config"
    <3>1. Progress
      BY <2>2 DEF CheckerInv
    <3>2. /\ DOMAIN tests = 1 .. Len(config.tasks)
          /\ \A i \in 1 .. Len(config.tasks) : DOMAIN tests[i] = 1 .. Len(tests[i])
      BY <3>1, ShapeFacts DEF Progress, Shape, ResultsOK
    <3>3. ASSUME NEW i \in 1 .. Len(config.tasks), NEW n \in 1 .. Len(tests[i]), Over(i, n)
          PROVE  tests[i][n].grade = IF tests[i][n].passed = Demanded(i, n)
                                     THEN config.tasks[i].test[n] ELSE 0
      <4>1. Worth(config, i, n, tests[i][n])
        BY <3>1, <3>3 DEF Progress, Earned, Over
      <4>. QED
        BY <4>1 DEF Worth, Wanted, Demanded, Tests
    <3>. QED
      BY <3>2, <3>3 DEF EarnedByAllStages
  <2>. QED
    BY <2>1, <2>2
<1>. QED
  BY <1>1, CheckerInvariant, PTL
-----------------------------------------------------------------------------
GradeOf(s) == Total([n \in DOMAIN s |-> s[n].grade])

\* The first k - 1 tasks have earned nothing.
NothingEarned(ts, k) == \A i \in 1 .. k - 1 : GradeOf(ts[i]) = 0

AllTasks == Len(config.tasks) + 1

NotFined == stage # "get_config" /\ config.fields.penalty_warnings = None

\* Without a fine for warnings the grade is 0 as long as the tasks have earned
\* nothing, and the stages after the tasks run only when they have.
Skips ==
  NotFined =>
    /\ stage \in BuildStages => grade = 0
    /\ stage = "run_tasks" /\ NothingEarned(tests, at.task) => grade = 0
    /\ stage \in LastStages => ~NothingEarned(tests, AllTasks)
    /\ stage \in {"finish", "done"} /\ NothingEarned(tests, AllTasks) => grade = 0

SkipsInv == CheckerInv /\ (stage = "get_config" => grade = 0) /\ Skips

\* A test changes the results of its own task only.
LEMMA OtherResultsStay ==
  ASSUME Progress, StartTest \/ RunTest \/ GradeTest \/ EndTest
  PROVE  /\ at'.task = at.task /\ grade' = grade
         /\ \A i \in 1 .. at.task - 1 : tests'[i] = tests[i]
<1>1. /\ at = [task |-> at.task, test |-> at.test, stage |-> at.stage]
      /\ at.task \in Nat /\ at.task <= Len(config.tasks) + 1 /\ Len(config.tasks) \in Nat
  BY ShapeFacts DEF Progress
<1>2. tests = [i \in 1 .. Len(config.tasks) |-> tests[i]]
  BY DEF Progress, Shape, ResultsOK
<1>3. ASSUME NEW s, tests' = [tests EXCEPT ![at.task] = s]
      PROVE  \A i \in 1 .. at.task - 1 : tests'[i] = tests[i]
  <2>. TAKE i \in 1 .. at.task - 1
  <2>1. i # at.task /\ i \in 1 .. Len(config.tasks)
    BY <1>1
  <2>. QED
    BY <1>2, <1>3, <2>1
<1>4. CASE StartTest
  <2>1. /\ tests' = [tests EXCEPT ![at.task] =
                       Append(tests[at.task], [grade |-> 0, code |-> 0, passed |-> {}])]
        /\ at' = at /\ grade' = grade
    BY <1>4 DEF StartTest
  <2>. QED
    BY <1>3, <2>1
<1>5. ASSUME NEW t, NEW code, StageOfTestEnds(t, code)
      PROVE  /\ at'.task = at.task
             /\ \A i \in 1 .. at.task - 1 : tests'[i] = tests[i]
  <2>. DEFINE st == IF code # 0 THEN "end" ELSE NextTestStage
              s == [tests[at.task] EXCEPT ![at.test] = TestAfter(t, code)]
  <2>1. tests' = [tests EXCEPT ![at.task] = s] /\ at' = [at EXCEPT !.stage = st]
    BY <1>5 DEF StageOfTestEnds
  <2>. HIDE DEF st, s
  <2>2. at' = [task |-> at.task, test |-> at.test, stage |-> st]
    BY <1>1, <2>1
  <2>3. at'.task = at.task
    BY <2>2
  <2>. QED
    BY <1>3, <2>1, <2>3
<1>6. CASE RunTest
  BY <1>5, <1>6 DEF RunTest
<1>7. CASE GradeTest
  BY <1>5, <1>7 DEF GradeTest
<1>8. CASE EndTest
  <2>1. at' = [at EXCEPT !.test = @ + 1, !.stage = "test"] /\ tests' = tests /\ grade' = grade
    BY <1>8 DEF EndTest
  <2>2. at' = [task |-> at.task, test |-> at.test + 1, stage |-> "test"]
    BY <1>1, <2>1
  <2>3. at'.task = at.task
    BY <2>2
  <2>. QED
    BY <2>1, <2>3
<1>. QED
  BY <1>4, <1>6, <1>7, <1>8

\* Every step keeps the grade 0 as long as nothing is earned.
LEMMA SkipsNext ==
  ASSUME SkipsInv, [Next]_vars
  PROVE  SkipsInv'
<1>1. CheckerInv'
  BY CheckerNext DEF SkipsInv
<1>2. CASE GetConfig
  BY <1>1, <1>2, StageOfSteps DEF GetConfig, SkipsInv, Skips, MovesTo, LastStages
<1>3. CASE CheckDeps
  BY <1>1, <1>3, StageOfSteps DEF CheckDeps, Ends, counts, SkipsInv, Skips, NotFined,
     MovesTo, BuildStages, LastStages
<1>4. CASE MakeBuild
  <2>1. UNCHANGED <<config, tests, at>> /\ MovesTo("make_build", {"run_tasks", "finish"})
    BY <1>4, StageOfSteps, OthersLeaveTests
  <2>2. NotFined' => NotFined /\ grade' = grade
    BY <1>4, <2>1 DEF MakeBuild, BuildFails, BuildWarns, Ends, Enabled, NotFined, MovesTo
  <2>. QED
    BY <1>1, <2>1, <2>2 DEF SkipsInv, Skips, MovesTo, BuildStages, LastStages
<1>5. CASE StartTest \/ RunTest \/ GradeTest \/ EndTest
  <2>1. MovesTo("run_tasks", {"run_tasks"}) /\ config' = config
    BY <1>5, StageOfSteps, TestsLeaveRest
  <2>2. /\ at'.task = at.task /\ grade' = grade
        /\ \A i \in 1 .. at.task - 1 : tests'[i] = tests[i]
    BY <1>5, <2>1, OtherResultsStay DEF SkipsInv, CheckerInv, MovesTo
  <2>3. NothingEarned(tests', at'.task) => NothingEarned(tests, at.task)
    BY <2>2 DEF NothingEarned
  <2>. QED
    BY <1>1, <2>1, <2>2, <2>3 DEF SkipsInv, Skips, NotFined, MovesTo, BuildStages, LastStages
<1>6. CASE EndTask
  <2>1. MovesTo("run_tasks", {"run_tasks"}) /\ config' = config
    BY <1>6, StageOfSteps, TestsLeaveRest
  <2>2. /\ grade' = grade + GradeOf(tests[at.task]) /\ tests' = tests
        /\ at' = [task |-> at.task + 1, test |-> 1, stage |-> "test"]
    BY <1>6 DEF EndTask, UpdateGrade, TaskGrade, GradeOf
  <2>3. at.task \in Nat /\ at.task >= 1
    BY <2>1, ShapeFacts DEF SkipsInv, CheckerInv, MovesTo, Progress
  <2>4. NothingEarned(tests', at'.task) =>
          NothingEarned(tests, at.task) /\ GradeOf(tests[at.task]) = 0
    <3>1. at'.task = at.task + 1
      BY <2>2
    <3>2. /\ at.task \in 1 .. at'.task - 1
          /\ \A i \in 1 .. at.task - 1 : i \in 1 .. at'.task - 1
      BY <2>3, <3>1
    <3>. QED
      BY <2>2, <3>2 DEF NothingEarned
  <2>5. NotFined /\ NothingEarned(tests', at'.task) => grade' = 0
    BY <2>1, <2>2, <2>4 DEF SkipsInv, Skips, MovesTo
  <2>. QED
    BY <1>1, <2>1, <2>5 DEF SkipsInv, Skips, NotFined, MovesTo, BuildStages, LastStages
<1>7. CASE EndTasks
  <2>1. /\ MovesTo("run_tasks", {"check_style", "finish"})
        /\ UNCHANGED <<config, tests, at>>
    BY <1>7, StageOfSteps, OthersLeaveTests
  <2>2. grade' = grade /\ stage' = After("run_tasks", AllTasksRun(grade))
    BY <1>7 DEF EndTasks, Ends
  <2>3. grade # 0 <=> stage' = "check_style"
    BY <2>2, Order, FailureEnds DEF AllTasksRun
  <2>4. at.task = AllTasks
    <3>1. Progress
      BY <2>1 DEF SkipsInv, CheckerInv, MovesTo
    <3>2. at.task \in Nat /\ at.task <= Len(config.tasks) + 1 /\ Len(config.tasks) \in Nat
      BY <3>1, ShapeFacts DEF Progress
    <3>. QED
      BY <1>7, <3>2 DEF EndTasks, AllTasks
  <2>5. AllTasks' = AllTasks
    BY <2>1 DEF AllTasks
  <2>. QED
    BY <1>1, <2>1, <2>2, <2>3, <2>4, <2>5 DEF SkipsInv, Skips, NotFined, MovesTo, BuildStages, LastStages
<1>8. CASE CheckStyle \/ CheckReadme \/ MakeClean \/ PrintGradeVmr
  <2>1. /\ stage \in LastStages /\ stage' \in LastStages \cup {"finish", "crashed"}
        /\ UNCHANGED <<config, tests, at>>
    BY <1>8, StageOfSteps, OthersLeaveTests DEF MovesTo, LastStages
  <2>2. AllTasks' = AllTasks
    BY <2>1 DEF AllTasks
  <2>. QED
    BY <1>1, <2>1, <2>2 DEF SkipsInv, Skips, NotFined, BuildStages, LastStages
<1>9. CASE Finish
  <2>1. /\ MovesTo("finish", {"done"})
        /\ UNCHANGED <<config, tests, at>>
    BY <1>9, StageOfSteps, OthersLeaveTests
  <2>2. AllTasks' = AllTasks
    BY <2>1 DEF AllTasks
  <2>3. grade = 0 => grade' = 0
    BY <1>9 DEF Finish
  <2>. QED
    BY <1>1, <2>1, <2>2, <2>3 DEF SkipsInv, Skips, NotFined, MovesTo, BuildStages, LastStages
<1>10. CASE UNCHANGED vars
  BY <1>1, <1>10 DEF vars, SkipsInv, Skips, NotFined, AllTasks
<1>. QED
  BY <1>2, <1>3, <1>4, <1>5, <1>6, <1>7, <1>8, <1>9, <1>10 DEF Next

\* A program whose tests earn nothing gets no points for its style or its
\* readme either, unless its warnings were fined (checker_run).
THEOREM NoGradeWithoutTests == Spec => []NoTestsNoGrade
<1>1. Init => SkipsInv
  BY CheckerInit DEF Init, SkipsInv, Skips, NotFined
<1>2. SkipsInv => NoTestsNoGrade
  <2>. SUFFICES ASSUME SkipsInv, stage = "done",
                       \A i \in DOMAIN tests : TaskGrade(i) = 0,
                       config.fields.penalty_warnings = None
                PROVE  grade = 0
    BY DEF NoTestsNoGrade
  <2>1. Progress /\ NotFined
    BY DEF SkipsInv, CheckerInv, NotFined
  <2>2. DOMAIN tests = 1 .. Len(config.tasks) /\ Len(config.tasks) \in Nat
    BY <2>1, ShapeFacts DEF Progress, Shape, ResultsOK
  <2>3. \A i \in DOMAIN tests : GradeOf(tests[i]) = 0
    BY DEF TaskGrade, GradeOf
  <2>4. NothingEarned(tests, AllTasks)
    <3>1. 1 .. AllTasks - 1 = DOMAIN tests
      BY <2>2 DEF AllTasks
    <3>. QED
      BY <2>3, <3>1 DEF NothingEarned
  <2>. QED
    BY <2>1, <2>4 DEF SkipsInv, Skips
<1>. QED
  BY <1>1, <1>2, SkipsNext, PTL DEF Spec

-----------------------------------------------------------------------------
\* The total of a function is the sum over its domain.
LEMMA TotalIs ==
  ASSUME NEW f
  PROVE  Total(f) = SumOver(f, DOMAIN f)
BY DEF Total, FoldFunction, FoldFunctionOnSet, MapThenFoldSet, SumOver, PartialSums, AnyOf

\* A quotient, and how much of the dividend it accounts for.
LEMMA DivBound ==
  ASSUME NEW a \in Int, NEW b \in Nat, b > 0
  PROVE  (a \div b) \in Int /\ b * (a \div b) <= a
OBVIOUS

\* One more of the same number.
LEMMA TimesNext ==
  ASSUME NEW a \in Int, NEW n \in Nat
  PROVE  a * n \in Int /\ a * (n + 1) = a * n + a
OBVIOUS

\* The tests of a task are worth no more than the task.
LEMMA TestPointsFit ==
  ASSUME NEW t, t.tests \in Nat, t.points \in Int,
         DOMAIN t.points_distribution \subseteq 1 .. t.tests,
         \A n \in DOMAIN t.points_distribution : t.points_distribution[n] \in Int,
         DOMAIN t.points_distribution = 1 .. t.tests =>
            Total(t.points_distribution) <= t.points
  PROVE  /\ \A n \in 1 .. t.tests : TestPoints(t)[n] \in Int
         /\ SumOver(TestPoints(t), 1 .. t.tests) <= t.points
<1>. DEFINE given == t.points_distribution
            D == DOMAIN given
            m == t.tests
            f == TestPoints(t)
            total == SumOver(given, D)
            rest == m - Cardinality(D)
            share == IF rest = 0 THEN 0 ELSE (t.points - total) \div rest
<1>1. m \in Nat /\ t.points \in Int /\ D \subseteq 1 .. m
      /\ \A n \in D : given[n] \in Int
  OBVIOUS
<1>2. Total(given) = total /\ (D = 1 .. m => total <= t.points)
  BY TotalIs
<1>3. f = [n \in 1 .. m |-> IF n \in D THEN given[n] ELSE share]
  BY <1>2 DEF TestPoints
<1>. HIDE DEF given, m, f, total, share, D
<1>4. /\ IsFiniteSet(1 .. m) /\ IsFiniteSet(D) /\ Cardinality(1 .. m) = m
      /\ Cardinality(D) \in Nat /\ Cardinality(D) <= m
      /\ Cardinality(D) = m => D = 1 .. m
  <2>1. IsFiniteSet(1 .. m) /\ Cardinality(1 .. m) = m
    BY <1>1, FS_Interval
  <2>2. /\ IsFiniteSet(D) /\ Cardinality(D) <= Cardinality(1 .. m)
        /\ Cardinality(1 .. m) = Cardinality(D) => 1 .. m = D
    BY <1>1, <2>1, FS_Subset
  <2>. QED
    BY <2>1, <2>2, FS_CardinalityType
<1>5. rest \in Nat /\ (rest = 0 => D = 1 .. m) /\ m = Cardinality(D) + rest
  BY <1>1, <1>4
<1>6. total \in Int
  BY <1>1, <1>4, SumOverType DEF total
<1>. HIDE DEF rest
<1>7. share \in Int /\ share * rest <= t.points - total
  <2>1. CASE rest = 0
    <3>1. share = 0 /\ total <= t.points
      BY <1>2, <1>5, <2>1 DEF share
    <3>. QED
      BY <1>1, <1>6, <2>1, <3>1
  <2>2. CASE rest # 0
    <3>. DEFINE q == (t.points - total) \div rest
                a == t.points - total
    <3>1. a \in Int /\ rest \in Nat /\ rest > 0
      BY <1>1, <1>5, <1>6, <2>2
    <3>2. share = q
      BY <2>2 DEF share
    <3>3. q \in Int /\ rest * q <= a
      <4>. HIDE DEF a
      <4>1. (a \div rest) \in Int /\ rest * (a \div rest) <= a
        BY <3>1, DivBound
      <4>. QED
        BY <4>1 DEF a
    <3>. HIDE DEF q
    <3>. QED
      BY <1>5, <3>2, <3>3
  <2>. QED
    BY <2>1, <2>2
<1>8. \A n \in 1 .. m : f[n] \in Int /\ f[n] = IF n \in D THEN given[n] ELSE share
  BY <1>1, <1>3, <1>7
<1>. DEFINE Good(k) == SumOver(f, 1 .. k) = SumOver(given, (1 .. k) \cap D)
                                            + share * Cardinality((1 .. k) \ D)
            Bad == {k \in 0 .. m : ~Good(k)}
<1>9. Bad = {}
  <2>1. SUFFICES ASSUME Bad # {} PROVE FALSE
    OBVIOUS
  <2>2. Bad \in SUBSET Nat
    BY <1>1
  <2>3. PICK k \in Bad : \A j \in Bad : k <= j
    BY <2>1, <2>2, LeastExists
  <2>4. k \in 0 .. m /\ ~Good(k) /\ k \in Nat
    BY <1>1, <2>3
  <2>5. CASE k = 0
    <3>1. 1 .. 0 = {}
      OBVIOUS
    <3>2. SumOver(f, {}) = 0 /\ SumOver(given, {}) = 0 /\ Cardinality({}) = 0
      BY SumOverEmpty, FS_EmptySet
    <3>3. {} \cap D = {} /\ {} \ D = {}
      OBVIOUS
    <3>4. share * 0 = 0
      BY <1>7
    <3>. QED
      BY <2>4, <2>5, <3>1, <3>2, <3>3, <3>4
  <2>6. CASE k # 0
    <3>. DEFINE P == 1 .. k - 1
                Q == P \cap D
                R == P \ D
    <3>1. k - 1 \in 0 .. m /\ ~(k <= k - 1) /\ k \in 1 .. m /\ k \notin P
          /\ 1 .. k = P \cup {k} /\ P \subseteq 1 .. m
      BY <1>1, <2>4, <2>6
    <3>2. Good(k - 1)
      BY <2>3, <3>1
    <3>3. IsFiniteSet(P) /\ IsFiniteSet(Q) /\ IsFiniteSet(R)
      <4>1. IsFiniteSet(P) /\ Q \in SUBSET P /\ R \in SUBSET P
        <5>. 1 \in Int /\ k - 1 \in Int
          BY <2>4
        <5>. QED
          BY FS_Interval
      <4>. QED
        BY <4>1, FS_Subset
    <3>. DEFINE a == SumOver(f, P)
                b == SumOver(given, Q)
                n == Cardinality(R)
    <3>4. a = b + share * n
      BY <3>2
    <3>. HIDE DEF P
    <3>5. SumOver(f, 1 .. k) = a + f[k] /\ a \in Int /\ f[k] \in Int
      <4>1. \A i \in P \cup {k} : f[i] \in Int
        BY <1>8, <3>1
      <4>. QED
        BY <3>1, <3>3, <4>1, SumOverAdd, SumOverType
    <3>6. b \in Int /\ n \in Nat
      <4>1. \A i \in Q : given[i] \in Int
        BY <1>1
      <4>. QED
        BY <3>3, <4>1, SumOverType, FS_CardinalityType
    <3>7. CASE k \in D
      <4>1. (1 .. k) \cap D = Q \cup {k} /\ (1 .. k) \ D = R /\ k \notin Q
        BY <3>1, <3>7
      <4>2. SumOver(given, Q \cup {k}) = b + given[k]
        <5>1. \A i \in Q \cup {k} : given[i] \in Int
          BY <1>1, <3>7
        <5>. HIDE DEF Q
        <5>. QED
          BY <3>3, <4>1, <5>1, SumOverAdd
      <4>3. f[k] = given[k]
        BY <1>8, <3>1, <3>7
      <4>4. share * n \in Int
        BY <1>7, <3>6, TimesNext
      <4>. DEFINE p == share * n
      <4>5. SumOver(given, (1 .. k) \cap D) = b + f[k] /\ Cardinality((1 .. k) \ D) = n
        BY <4>1, <4>2, <4>3
      <4>. HIDE DEF a, b, n, Q, R
      <4>6. SumOver(f, 1 .. k) = (b + f[k]) + p
        <5>. HIDE DEF p
        <5>. QED
          BY <3>4, <3>5, <3>6, <4>4 DEF p
      <4>. QED
        BY <2>4, <4>5, <4>6
    <3>8. CASE k \notin D
      <4>1. (1 .. k) \cap D = Q /\ (1 .. k) \ D = R \cup {k} /\ k \notin R
        BY <3>1, <3>8
      <4>2. Cardinality(R \cup {k}) = n + 1
        <5>. HIDE DEF R
        <5>. QED
          BY <3>3, <4>1, FS_AddElement DEF n
      <4>3. f[k] = share
        BY <1>8, <3>1, <3>8
      <4>4. share * n \in Int /\ share * (n + 1) = share * n + share
        BY <1>7, <3>6, TimesNext
      <4>5. SumOver(given, (1 .. k) \cap D) = b /\ Cardinality((1 .. k) \ D) = n + 1
        BY <4>1, <4>2
      <4>. DEFINE p == share * n
      <4>. HIDE DEF a, b, n, Q, R
      <4>6. SumOver(f, 1 .. k) = b + share * (n + 1)
        <5>1. a = b + p /\ p \in Int /\ share * (n + 1) = p + share
          BY <3>4, <4>4
        <5>. HIDE DEF p
        <5>. QED
          BY <1>7, <3>5, <3>6, <4>3, <5>1
      <4>. QED
        BY <2>4, <4>5, <4>6
    <3>. QED
      BY <3>7, <3>8
  <2>. QED
    BY <2>5, <2>6
<1>10. Good(m)
  <2>1. m \in 0 .. m
    BY <1>1
  <2>. QED
    BY <1>9, <2>1
<1>11. (1 .. m) \cap D = D /\ Cardinality((1 .. m) \ D) = rest
  <2>1. (1 .. m) \cap D = D
    BY <1>1
  <2>2. Cardinality((1 .. m) \ D) = Cardinality(1 .. m) - Cardinality((1 .. m) \cap D)
    BY <1>4, FS_Difference
  <2>. QED
    BY <1>4, <2>1, <2>2 DEF rest
<1>12. SumOver(f, 1 .. m) = total + share * rest
  BY <1>10, <1>11 DEF total
<1>13. SumOver(f, 1 .. m) <= t.points
  <2>. DEFINE p == share * rest
  <2>1. p \in Int
    BY <1>5, <1>7, TimesNext
  <2>2. p <= t.points - total /\ SumOver(f, 1 .. m) = total + p
    BY <1>7, <1>12
  <2>. HIDE DEF p
  <2>. QED
    BY <1>1, <1>6, <2>1, <2>2
<1>. QED
  BY <1>8, <1>13 DEF f, m

\* The total of a sequence of numbers is a number.
LEMMA TotalOfSeq ==
  ASSUME NEW s \in Seq(Int)
  PROVE  Total(s) \in Int /\ Total(s) = SumOver(s, 1 .. Len(s))
<1>1. /\ Len(s) \in Nat /\ DOMAIN s = 1 .. Len(s) /\ \A n \in 1 .. Len(s) : s[n] \in Int
      /\ IsFiniteSet(1 .. Len(s))
  <2>1. Len(s) \in Nat /\ DOMAIN s = 1 .. Len(s) /\ \A n \in 1 .. Len(s) : s[n] \in Int
    OBVIOUS
  <2>2. 1 \in Int /\ Len(s) \in Int
    BY <2>1
  <2>. QED
    BY <2>1, <2>2, FS_Interval
<1>. QED
  BY <1>1, TotalIs, SumOverType

\* A new last line adds to the total.
LEMMA TotalAppend ==
  ASSUME NEW s \in Seq(Int), NEW x \in Int
  PROVE  Append(s, x) \in Seq(Int) /\ Total(Append(s, x)) = Total(s) + x
<1>. DEFINE n == Len(s)
            r == Append(s, x)
<1>1. /\ n \in Nat /\ r \in Seq(Int) /\ Len(r) = n + 1 /\ r[n + 1] = x
      /\ \A i \in 1 .. n : r[i] = s[i]
  BY AppendProperties
<1>2. /\ IsFiniteSet(1 .. n) /\ n + 1 \notin 1 .. n
      /\ 1 .. n + 1 = (1 .. n) \cup {n + 1}
  <2>1. 1 \in Int /\ n \in Int
    BY <1>1
  <2>2. IsFiniteSet(1 .. n)
    BY <2>1, FS_Interval
  <2>. QED
    BY <1>1, <2>2
<1>. HIDE DEF r, n
<1>3. Total(r) = SumOver(r, 1 .. n + 1) /\ Total(s) = SumOver(s, 1 .. n)
  BY <1>1, TotalOfSeq DEF n
<1>4. \A i \in (1 .. n) \cup {n + 1} : r[i] \in Int
  BY <1>1, <1>2
<1>5. SumOver(r, (1 .. n) \cup {n + 1}) = SumOver(r, 1 .. n) + r[n + 1]
  <2>. DEFINE I == 1 .. n
              k == n + 1
  <2>1. IsFiniteSet(I) /\ k \notin I /\ \A i \in I \cup {k} : r[i] \in Int
    BY <1>2, <1>4
  <2>. HIDE DEF I, k
  <2>2. SumOver(r, I \cup {k}) = SumOver(r, I) + r[k]
    BY <2>1, SumOverAdd
  <2>. QED
    BY <2>2 DEF I, k
<1>6. SumOver(r, 1 .. n) = SumOver(s, 1 .. n)
  BY <1>1, <1>2, SumOverSame
<1>. QED
  BY <1>1, <1>2, <1>3, <1>5, <1>6 DEF r

\* The points of the first k tasks.
PointsOf(c, k) == SumOver([i \in DOMAIN c.tasks |-> c.tasks[i].points], 1 .. k)

\* No task gives more points to its tests than it has, and every test is worth
\* some.
PointsOK(c) ==
  /\ \A i \in 1 .. Len(c.tasks) :
       /\ c.tasks[i].points \in Int
       /\ \A n \in 1 .. Len(Tests(c, i)) : Tests(c, i)[n] \in Int /\ Tests(c, i)[n] > 0
       /\ SumOver(Tests(c, i), 1 .. Len(Tests(c, i))) <= c.tasks[i].points
  /\ c.fields.coding_style \in Nat
  /\ c.fields.penalty_warnings \in Nat \cup {None}
  /\ c.fields.penalty_readme \in Nat \cup {None}

TestingStages == BuildStages \cup {"run_tasks"}

\* All the points that the stages before st, at test a, could give.
Due(c, a, st) ==
  CASE st \in TestingStages -> PointsOf(c, a.task - 1)
    [] st = "check_style"   -> PointsOf(c, Len(c.tasks))
    [] st = "check_readme"  -> PointsOf(c, Len(c.tasks)) + c.fields.coding_style
    [] OTHER                -> PointsOf(c, Len(c.tasks)) + c.fields.coding_style
                               + c.fields.penalty_readme

Sums == grade \in Int /\ gradeVmr \in Seq(Int)

\* The grade is what could be earned so far, less the deductions.
Balanced == grade = Due(config, at, stage) + Total(gradeVmr)

BalanceInv ==
  /\ CheckerInv
  /\ Sums
  /\ stage = "get_config" => grade = 0 /\ gradeVmr = <<>>
  /\ stage \notin {"get_config", "crashed"} => PointsOK(config)
  /\ stage \in TestingStages \cup LastStages => Balanced
  /\ stage \notin {"finish", "done"} => vmrFile = None
  /\ stage = "finish" /\ vmrFile # None =>
        vmrFile = gradeVmr
        /\ grade = Due(config, at, "finish") + Total(gradeVmr)

\* The points of the first tasks, one task after the other.
LEMMA PointsOfType ==
  ASSUME NEW c, ConfigOK(c), PointsOK(c), NEW k \in 0 .. Len(c.tasks)
  PROVE  /\ PointsOf(c, k) \in Int
         /\ k # 0 => PointsOf(c, k) = PointsOf(c, k - 1) + c.tasks[k].points
<1>. DEFINE f == [i \in DOMAIN c.tasks |-> c.tasks[i].points]
<1>1. Len(c.tasks) \in Nat /\ DOMAIN c.tasks = 1 .. Len(c.tasks)
  BY DEF ConfigOK
<1>2. \A i \in 1 .. Len(c.tasks) : f[i] = c.tasks[i].points /\ f[i] \in Int
  BY <1>1 DEF PointsOK
<1>. HIDE DEF f
<1>3. ASSUME NEW j \in 0 .. Len(c.tasks)
      PROVE  IsFiniteSet(1 .. j)
  <2>1. 1 \in Int /\ j \in Int
    BY <1>1
  <2>. QED
    BY <2>1, FS_Interval
<1>4. SumOver(f, 1 .. k) \in Int
  <2>1. \A i \in 1 .. k : f[i] \in Int
    BY <1>1, <1>2
  <2>. QED
    BY <1>3, <2>1, SumOverType
<1>5. ASSUME k # 0
      PROVE  SumOver(f, 1 .. k) = SumOver(f, 1 .. k - 1) + f[k]
  <2>1. k - 1 \in 0 .. Len(c.tasks) /\ k \notin 1 .. k - 1 /\ 1 .. k = (1 .. k - 1) \cup {k}
    BY <1>1, <1>5
  <2>2. \A i \in (1 .. k - 1) \cup {k} : f[i] \in Int
    BY <1>1, <1>2, <2>1
  <2>3. IsFiniteSet(1 .. k - 1)
    BY <1>3, <2>1
  <2>4. SumOver(f, (1 .. k - 1) \cup {k}) = SumOver(f, 1 .. k - 1) + f[k]
    BY <2>1, <2>2, <2>3, SumOverAdd
  <2>. QED
    BY <2>1, <2>4
<1>6. k # 0 => k \in 1 .. Len(c.tasks)
  BY <1>1
<1>. QED
  BY <1>2, <1>4, <1>5, <1>6 DEF PointsOf, f

\* A field is a number, or a penalty that is left out.
LEMMA ParsedFields ==
  ASSUME NEW file, \A field \in DOMAIN file.fields : file.fields[field] \in Nat
  PROVE  /\ ParseConfig(file).coding_style \in Nat
         /\ ParseConfig(file).penalty_warnings \in Nat \cup {None}
         /\ ParseConfig(file).penalty_readme \in Nat \cup {None}
BY DEF ParseConfig, Default

\* A configuration whose tests are all worth something.
LEMMA ConfiguredPoints ==
  ASSUME PointsAddUp, RawOK, ~Worthless(Configured)
  PROVE  PointsOK(Configured)
<1>. DEFINE file == raw.file
            c == Configured
<1>1. file \in RawConfigs
  BY DEF RawOK
<1>2. /\ Len(file.tasks) \in Nat \ {0} /\ DOMAIN file.tasks = 1 .. Len(file.tasks)
      /\ \A i \in DOMAIN file.tasks : file.tasks[i].tests \in Nat
  BY <1>1, ConfigsAssumption
<1>3. ConfigOK(c) /\ c.fields = ParseConfig(file)
  BY ConfiguredTasks
<1>4. ASSUME NEW i \in 1 .. Len(c.tasks)
      PROVE  \E j \in DOMAIN file.tasks : c.tasks[i] = Task(file.tasks[j])
  <2>1. CASE raw.args = None
    BY <1>2, <2>1, ConfiguredTasks
  <2>2. CASE raw.args # None
    <3>1. Len(c.tasks) = 1 /\ c.tasks[1] = Task(file.tasks[1])
      BY <2>2, ConfiguredTasks
    <3>2. i = 1 /\ 1 \in DOMAIN file.tasks
      BY <1>2, <3>1
    <3>. QED
      BY <3>1, <3>2
  <2>. QED
    BY <2>1, <2>2
<1>5. c.fields.coding_style \in Nat /\ c.fields.penalty_warnings \in Nat \cup {None}
      /\ c.fields.penalty_readme \in Nat \cup {None}
  <2>1. \A field \in DOMAIN file.fields : file.fields[field] \in Nat
    BY <1>1 DEF PointsAddUp
  <2>. HIDE DEF file, c
  <2>. QED
    BY <1>3, <2>1, ParsedFields
<1>6. \A i \in DOMAIN c.tasks : \A n \in DOMAIN c.tasks[i].test : ~(c.tasks[i].test[n] <= 0)
  BY DEF Worthless
<1>. HIDE DEF c
<1>7. ASSUME NEW i \in 1 .. Len(c.tasks)
      PROVE  /\ c.tasks[i].points \in Int
             /\ \A n \in 1 .. Len(Tests(c, i)) : Tests(c, i)[n] \in Int /\ Tests(c, i)[n] > 0
             /\ SumOver(Tests(c, i), 1 .. Len(Tests(c, i))) <= c.tasks[i].points
  <2>1. PICK j \in DOMAIN file.tasks : c.tasks[i] = Task(file.tasks[j])
    BY <1>4
  <2>. DEFINE t == file.tasks[j]
  <2>2. /\ t.tests \in Nat /\ t.points \in Int
        /\ DOMAIN t.points_distribution \subseteq 1 .. t.tests
        /\ \A n \in DOMAIN t.points_distribution : t.points_distribution[n] \in Int
        /\ DOMAIN t.points_distribution = 1 .. t.tests =>
              Total(t.points_distribution) <= t.points
    BY <1>1, <1>2 DEF PointsAddUp
  <2>3. c.tasks[i].points = t.points /\ Tests(c, i) = TestPoints(t)
    BY <2>1 DEF Task, Tests
  <2>4. Len(Tests(c, i)) = t.tests
    <3>1. Len(Task(t).test) = t.tests
      BY <2>2, TaskTests
    <3>. QED
      BY <2>1, <3>1 DEF Tests
  <2>. HIDE DEF t
  <2>5. /\ \A n \in 1 .. t.tests : TestPoints(t)[n] \in Int
        /\ SumOver(TestPoints(t), 1 .. t.tests) <= t.points
    BY <2>2, TestPointsFit
  <2>6. \A n \in 1 .. Len(Tests(c, i)) : ~(Tests(c, i)[n] <= 0)
    BY <1>3, <1>6 DEF ConfigOK, Tests
  <2>7. \A n \in 1 .. Len(Tests(c, i)) : Tests(c, i)[n] \in Int
    BY <2>3, <2>4, <2>5
  <2>8. \A n \in 1 .. Len(Tests(c, i)) : Tests(c, i)[n] > 0
    BY <2>6, <2>7
  <2>. QED
    BY <2>2, <2>3, <2>4, <2>5, <2>7, <2>8
<1>. QED
  BY <1>5, <1>7 DEF PointsOK, c

-----------------------------------------------------------------------------
\* A line of grade.vmr explains what a stage does not give of what it could.
LEMMA LineBalances ==
  ASSUME Sums, NEW g \in Int, NEW p \in Int, NEW d \in Int, NEW e \in Int,
         grade = d + Total(gradeVmr), e = (d + g) - p,
         UpdateGrade(g), UpdateGradeVmr(p)
  PROVE  Sums' /\ grade' = e + Total(gradeVmr')
<1>1. gradeVmr' = Append(gradeVmr, p) /\ grade' = grade + g
  BY DEF UpdateGrade, UpdateGradeVmr
<1>2. /\ Append(gradeVmr, p) \in Seq(Int) /\ Total(gradeVmr) \in Int
      /\ Total(Append(gradeVmr, p)) = Total(gradeVmr) + p
  BY TotalAppend, TotalOfSeq DEF Sums
<1>. QED
  BY <1>1, <1>2 DEF Sums

\* The tests of a task earn at most the points of the task.
LEMMA GradeOfTask ==
  ASSUME PointsOK(config), Progress, Running, at.test > Len(task.test)
  PROVE  /\ TaskGrade(at.task) \in Int /\ task.points \in Int
         /\ TaskGrade(at.task) <= task.points
<1>. DEFINE k == at.task
            s == tests[k]
            f == [n \in DOMAIN s |-> s[n].grade]
            P == Tests(config, k)
<1>1. /\ k \in 1 .. Len(config.tasks) /\ k <= Len(config.tasks)
      /\ Len(s) \in Nat /\ DOMAIN s = 1 .. Len(s) /\ s \in Seq(Results(config, k))
      /\ at.test \in Nat /\ Len(P) \in Nat /\ DOMAIN P = 1 .. Len(P)
  BY ShapeFacts DEF Progress, Running
<1>2. Len(s) = Len(P)
  <2>1. InProgress(config, at, s)
    BY <1>1 DEF Progress, Shape
  <2>2. at.test > Len(P)
    BY DEF task, Tests
  <2>. QED
    BY <1>1, <2>1, <2>2 DEF InProgress
<1>3. /\ task.points \in Int
      /\ \A n \in 1 .. Len(P) : P[n] \in Int /\ P[n] > 0
      /\ SumOver(P, 1 .. Len(P)) <= task.points
  BY <1>1 DEF PointsOK, task
<1>4. ASSUME NEW n \in 1 .. Len(P)
      PROVE  f[n] \in Int /\ f[n] <= P[n] /\ P[n] \in Int
  <2>1. n \in 1 .. Len(s) /\ n < at.test
    BY <1>1, <1>2 DEF task, Tests
  <2>2. f[n] = s[n].grade
    BY <1>1, <2>1
  <2>3. Worth(config, k, n, s[n])
    BY <1>1, <2>1 DEF Progress, Earned
  <2>4. P[n] \in Int /\ P[n] > 0
    BY <1>3
  <2>5. f[n] = 0 \/ f[n] = P[n]
    BY <2>2, <2>3 DEF Worth
  <2>. HIDE DEF f, P
  <2>. QED
    BY <2>4, <2>5
<1>5. TaskGrade(k) = SumOver(f, 1 .. Len(P))
  <2>1. TaskGrade(k) = Total(f) /\ DOMAIN f = 1 .. Len(P)
    BY <1>1, <1>2 DEF TaskGrade
  <2>. HIDE DEF f
  <2>. QED
    BY <2>1, TotalIs
<1>6. IsFiniteSet(1 .. Len(P))
  <2>1. 1 \in Int /\ Len(P) \in Int
    BY <1>1
  <2>. QED
    BY <2>1, FS_Interval
<1>. HIDE DEF f, P
<1>7. SumOver(f, 1 .. Len(P)) \in Int /\ SumOver(P, 1 .. Len(P)) \in Int
  BY <1>4, <1>6, SumOverType
<1>8. SumOver(f, 1 .. Len(P)) <= SumOver(P, 1 .. Len(P))
  BY <1>4, <1>6, SumOverAtMost
<1>. QED
  BY <1>3, <1>5, <1>7, <1>8

\* The grade for the style is a number.
LEMMA StyleGradeType ==
  ASSUME Sums, PointsOK(config), NEW clean \in BOOLEAN
  PROVE  StyleGrade(clean) \in Int /\ config.fields.coding_style \in Int
<1>. DEFINE cs == config.fields.coding_style
            a == AtMost80(grade)
            x == a * cs
<1>1. cs \in Nat /\ One \in Nat /\ One > 0
  BY OneAssumption DEF PointsOK
<1>2. a \in Int
  BY <1>1 DEF AtMost80, Sums
<1>. HIDE DEF a, cs
<1>3. x \in Int
  BY <1>1, <1>2, TimesNext
<1>4. 80 * One \in Nat /\ 80 * One > 0
  BY <1>1
<1>. HIDE DEF x
<1>5. (x \div (80 * One)) \in Int
  BY <1>3, <1>4, DivBound
<1>6. StyleGrade(clean) = IF clean THEN x \div (80 * One) ELSE 0
  BY DEF StyleGrade, x, a, cs
<1>. QED
  BY <1>1, <1>5, <1>6 DEF cs

Balances == Sums' /\ Balanced'

\* A task ends: what its tests do not earn is a deduction.
LEMMA EndTaskBalances ==
  ASSUME Sums, PointsOK(config), Progress, Balanced, stage = "run_tasks", EndTask
  PROVE  Balances
<1>. DEFINE k == at.task
            G == TaskGrade(k)
            p == task.points
            d == PointsOf(config, k - 1)
            e == PointsOf(config, k)
<1>1. /\ k \in 1 .. Len(config.tasks) /\ k \in Nat /\ k # 0
      /\ Len(config.tasks) \in Nat
      /\ Running /\ at.test > Len(task.test)
  BY ShapeFacts DEF Progress, EndTask, Running
<1>2. G \in Int /\ p \in Int /\ G <= p
  BY <1>1, GradeOfTask
<1>3. /\ d \in Int /\ e \in Int /\ e = d + p
  <2>1. ConfigOK(config)
    BY DEF Progress, Shape
  <2>2. k \in 0 .. Len(config.tasks) /\ k - 1 \in 0 .. Len(config.tasks)
    BY <1>1
  <2>3. d \in Int
    BY <2>1, <2>2, PointsOfType
  <2>4. e \in Int /\ e = d + config.tasks[k].points
    BY <1>1, <2>1, <2>2, PointsOfType
  <2>. QED
    BY <2>3, <2>4 DEF task
<1>4. grade = d + Total(gradeVmr)
  BY DEF Balanced, Due, TestingStages
<1>5. UpdateGrade(G)
      /\ IF G < p THEN UpdateGradeVmr(G - p) ELSE gradeVmr' = gradeVmr
  BY DEF EndTask
<1>6. /\ config' = config /\ stage' = stage
      /\ at' = [task |-> k + 1, test |-> 1, stage |-> "test"]
  BY DEF EndTask
<1>7. Balanced' <=> grade' = e + Total(gradeVmr')
  <2>1. at'.task - 1 = k
    <3>1. at'.task = k + 1
      BY <1>6
    <3>. HIDE DEF k
    <3>. QED
      BY <1>1, <3>1
  <2>. QED
    BY <1>6, <2>1 DEF Balanced, Due, TestingStages
<1>. HIDE DEF G, p, d, e
<1>8. CASE G < p
  <2>1. G - p \in Int /\ e = (d + G) - (G - p)
    BY <1>2, <1>3
  <2>. QED
    BY <1>2, <1>3, <1>4, <1>5, <1>7, <1>8, <2>1, LineBalances DEF Balances
<1>9. CASE ~(G < p)
  <2>1. G = p /\ gradeVmr' = gradeVmr /\ grade' = grade + G
    BY <1>2, <1>5, <1>9 DEF UpdateGrade
  <2>2. Total(gradeVmr) \in Int
    BY TotalOfSeq DEF Sums
  <2>. QED
    BY <1>2, <1>3, <1>4, <1>7, <2>1, <2>2 DEF Balances, Sums
<1>. QED
  BY <1>8, <1>9

\* The style and the readme: what they do not give is a deduction.
LEMMA CheckStyleBalances ==
  ASSUME Sums, PointsOK(config), ConfigOK(config), Balanced, None \notin Int, CheckStyle
  PROVE  Sums' /\ (stage' = "check_readme" => Balanced')
<1>. DEFINE d == PointsOf(config, Len(config.tasks))
            cs == config.fields.coding_style
            e == d + cs
<1>1. d \in Int /\ cs \in Nat /\ e \in Int
  <2>1. Len(config.tasks) \in 0 .. Len(config.tasks)
    BY DEF ConfigOK
  <2>2. d \in Int
    BY <2>1, PointsOfType
  <2>3. cs \in Nat
    BY DEF PointsOK
  <2>. HIDE DEF d, cs
  <2>. QED
    BY <2>2, <2>3
<1>2. stage = "check_style" /\ UNCHANGED <<config, at>>
  BY StageOfSteps, OthersLeaveTests DEF MovesTo
<1>3. grade = d + Total(gradeVmr)
  BY <1>2 DEF Balanced, Due, TestingStages, BuildStages
<1>4. stage' = "check_readme" => (Balanced' <=> grade' = e + Total(gradeVmr'))
  BY <1>2 DEF Balanced, Due, TestingStages, BuildStages
<1>5. CASE Enabled("coding_style") /\ \E clean \in BOOLEAN :
                /\ UpdateGradeVmr(StyleGrade(clean) - config.fields.coding_style)
                /\ UpdateGrade(StyleGrade(clean))
  <2>1. PICK clean \in BOOLEAN : /\ UpdateGradeVmr(StyleGrade(clean) - cs)
                                 /\ UpdateGrade(StyleGrade(clean))
    BY <1>5
  <2>. DEFINE g == StyleGrade(clean)
  <2>2. g \in Int
    BY StyleGradeType
  <2>. HIDE DEF g, d, cs
  <2>3. g - cs \in Int /\ e = (d + g) - (g - cs)
    BY <1>1, <2>2
  <2>4. UpdateGradeVmr(g - cs) /\ UpdateGrade(g)
    BY <2>1 DEF g
  <2>. HIDE DEF e
  <2>. QED
    BY <1>1, <1>3, <1>4, <2>2, <2>3, <2>4, LineBalances
<1>6. CASE Ends("check_style", -1)
  BY <1>6, FailureEnds DEF Ends, Sums
<1>7. CASE Ends("check_style", 0) /\ ~Enabled("coding_style")
  <2>1. UNCHANGED <<grade, gradeVmr>>
    BY <1>7 DEF Ends
  <2>2. cs = None \/ ~(cs > 0)
    BY <1>7 DEF Enabled
  <2>3. cs = 0
    <3>. HIDE DEF cs, d, e
    <3>1. cs # None
      BY <1>1
    <3>. QED
      BY <1>1, <2>2, <3>1
  <2>4. e = d
    BY <1>1, <2>3
  <2>. QED
    BY <1>3, <1>4, <2>1, <2>4 DEF Sums
<1>. QED
  BY <1>5, <1>6, <1>7 DEF CheckStyle

\* What a bad readme does not give is a deduction.
LEMMA CheckReadmeBalances ==
  ASSUME Sums, PointsOK(config), ConfigOK(config), Balanced, None \notin Int, CheckReadme
  PROVE  Sums' /\ (stage' = "make_clean" => Balanced')
<1>. DEFINE d == PointsOf(config, Len(config.tasks)) + config.fields.coding_style
            pr == config.fields.penalty_readme
            e == d + pr
<1>1. d \in Int
  <2>1. Len(config.tasks) \in 0 .. Len(config.tasks)
    BY DEF ConfigOK
  <2>2. PointsOf(config, Len(config.tasks)) \in Int
    BY <2>1, PointsOfType
  <2>3. config.fields.coding_style \in Nat
    BY DEF PointsOK
  <2>. QED
    BY <2>2, <2>3
<1>2. stage = "check_readme" /\ UNCHANGED <<config, at>>
  BY StageOfSteps, OthersLeaveTests DEF MovesTo
<1>3. grade = d + Total(gradeVmr)
  BY <1>2 DEF Balanced, Due, TestingStages, BuildStages
<1>4. stage' = "make_clean" => (Balanced' <=> grade' = e + Total(gradeVmr'))
  BY <1>2 DEF Balanced, Due, TestingStages, BuildStages
<1>5. pr \in Nat \cup {None}
  BY DEF PointsOK
<1>6. CASE pr = None
  <2>1. stage' = "crashed" /\ UNCHANGED <<grade, gradeVmr>>
    BY <1>6 DEF CheckReadme, Enabled
  <2>. QED
    BY <2>1 DEF Sums
<1>7. CASE pr = 0
  <2>1. UNCHANGED <<grade, gradeVmr>>
    BY <1>7 DEF CheckReadme, Enabled, Ends
  <2>2. e = d
    <3>. HIDE DEF d, pr
    <3>. QED
      BY <1>1, <1>7
  <2>. QED
    BY <1>3, <1>4, <2>1, <2>2 DEF Sums
<1>8. CASE Enabled("penalty_readme") /\ \E good \in BOOLEAN : ReadmeChecked(good)
  <2>1. PICK good \in BOOLEAN : ReadmeChecked(good)
    BY <1>8
  <2>2. pr \in Nat
    BY <1>5, <1>8 DEF Enabled
  <2>3. /\ UpdateGrade(IF good THEN pr ELSE 0)
        /\ IF good THEN gradeVmr' = gradeVmr ELSE UpdateGradeVmr(-pr)
    BY <2>1 DEF ReadmeChecked
  <2>. HIDE DEF d, pr
  <2>4. CASE good
    <3>1. gradeVmr' = gradeVmr /\ grade' = grade + pr
      BY <2>3, <2>4 DEF UpdateGrade
    <3>2. Total(gradeVmr) \in Int
      BY TotalOfSeq DEF Sums
    <3>. QED
      BY <1>1, <1>3, <1>4, <2>2, <3>1, <3>2 DEF Sums
  <2>5. CASE ~good
    <3>1. UpdateGrade(0) /\ UpdateGradeVmr(-pr)
      BY <2>3, <2>5
    <3>2. 0 \in Int /\ -pr \in Int /\ e \in Int /\ e = (d + 0) - (-pr)
      BY <1>1, <2>2
    <3>. HIDE DEF e
    <3>. QED
      BY <1>1, <1>3, <1>4, <3>1, <3>2, LineBalances
  <2>. QED
    BY <2>4, <2>5
<1>. QED
  BY <1>6, <1>7, <1>8 DEF CheckReadme

\* A fine for warnings is a deduction, and taken from the grade.
LEMMA MakeBuildBalances ==
  ASSUME Sums, PointsOK(config), Progress, Balanced, MakeBuild
  PROVE  Sums' /\ (stage' = "run_tasks" => Balanced')
<1>. DEFINE d == PointsOf(config, at.task - 1)
            pw == config.fields.penalty_warnings
<1>1. d \in Int
  <2>1. ConfigOK(config)
    BY DEF Progress, Shape
  <2>2. at.task - 1 \in 0 .. Len(config.tasks)
    BY ShapeFacts DEF Progress
  <2>. QED
    BY <2>1, <2>2, PointsOfType
<1>2. stage = "make_build" /\ UNCHANGED <<config, at>>
  BY StageOfSteps, OthersLeaveTests DEF MovesTo
<1>3. grade = d + Total(gradeVmr)
  BY <1>2 DEF Balanced, Due, TestingStages, BuildStages
<1>4. stage' = "run_tasks" => (Balanced' <=> grade' = d + Total(gradeVmr'))
  BY <1>2 DEF Balanced, Due, TestingStages, BuildStages
<1>5. CASE BuildFails
  <2>1. stage' = "finish" /\ grade' = grade
        /\ (gradeVmr' = Append(gradeVmr, -100 * One) \/ gradeVmr' = gradeVmr)
    BY <1>5, FailureEnds DEF BuildFails, UpdateGradeVmr
  <2>2. -100 * One \in Int
    BY OneAssumption
  <2>3. Append(gradeVmr, -100 * One) \in Seq(Int)
    BY <2>2, TotalAppend DEF Sums
  <2>. QED
    BY <2>1, <2>3 DEF Sums
<1>6. CASE BuildWarns
  <2>1. pw \in Nat /\ UpdateGrade(-pw) /\ UpdateGradeVmr(-pw)
    BY <1>6 DEF BuildWarns, Enabled, PointsOK
  <2>. HIDE DEF d, pw
  <2>2. -pw \in Int /\ d = (d + (-pw)) - (-pw)
    BY <1>1, <2>1
  <2>. QED
    BY <1>1, <1>3, <1>4, <2>1, <2>2, LineBalances
<1>7. CASE Ends("make_build", 0)
  BY <1>3, <1>4, <1>7 DEF Ends, Sums
<1>. QED
  BY <1>5, <1>6, <1>7 DEF MakeBuild

\* A make clean that fails is followed by the end, without grade.vmr.
LEMMA MakeCleanBalances ==
  ASSUME Sums, Balanced, MakeClean
  PROVE  Sums' /\ (stage' = "print_grade_vmr" => Balanced')
<1>1. stage = "make_clean" /\ UNCHANGED <<config, at>>
  BY StageOfSteps, OthersLeaveTests DEF MovesTo
<1>2. CASE CleanFails
  <2>1. stage' = "finish" /\ grade' = grade + (-grade) /\ gradeVmr' = Append(gradeVmr, 0)
    BY <1>2, FailureEnds DEF CleanFails, UpdateGrade, UpdateGradeVmr
  <2>2. Append(gradeVmr, 0) \in Seq(Int)
    BY TotalAppend DEF Sums
  <2>. QED
    BY <2>1, <2>2 DEF Sums
<1>3. CASE Ends("make_clean", 0)
  <2>1. UNCHANGED <<grade, gradeVmr>>
    BY <1>3 DEF Ends
  <2>2. stage' = "print_grade_vmr" => Due(config', at', stage') = Due(config, at, stage)
    BY <1>1 DEF Due, TestingStages, BuildStages
  <2>. QED
    BY <2>1, <2>2 DEF Sums, Balanced
<1>4. CASE Ends("make_clean", -1)
  BY <1>4, FailureEnds DEF Ends, Sums
<1>. QED
  BY <1>2, <1>3, <1>4 DEF MakeClean

\* Nothing is earned and nothing deducted at the beginning.
LEMMA BalanceInit ==
  ASSUME Init
  PROVE  BalanceInv
<1>1. CheckerInv
  BY CheckerInit
<1>2. gradeVmr = <<>> /\ grade = 0 /\ stage = "get_config" /\ vmrFile = None
  BY DEF Init
<1>. QED
  BY <1>1, <1>2 DEF BalanceInv, Sums, TestingStages, BuildStages, LastStages

\* Every step keeps the grade and the deductions balanced.
LEMMA BalanceNext ==
  ASSUME PointsAddUp, BalanceInv, [Next]_vars
  PROVE  BalanceInv'
<1>1. CheckerInv' /\ CheckerInv /\ Sums /\ None \notin Int
  BY CheckerNext DEF BalanceInv, PointsAddUp
<1>. USE DEF TestingStages, BuildStages, LastStages
<1>2. CASE GetConfig
  <2>1. MovesTo("get_config", {"crashed", "check_deps"})
    BY <1>2, StageOfSteps
  <2>2. /\ config' = Configured /\ UNCHANGED <<at, grade, gradeVmr, vmrFile>>
        /\ stage' = IF Worthless(Configured) THEN "crashed" ELSE "check_deps"
    BY <1>2 DEF GetConfig
  <2>3. stage' = "check_deps" => PointsOK(config')
    BY <1>1, <2>2, ConfiguredPoints DEF CheckerInv
  <2>4. at'.task = 1 /\ grade' = 0 /\ gradeVmr' = <<>> /\ vmrFile' = None
    BY <1>1, <2>1, <2>2 DEF BalanceInv, CheckerInv, Beginning, MovesTo
  <2>5. PointsOf(config', 0) = 0
    <3>1. 1 .. 0 = {}
      OBVIOUS
    <3>. QED
      BY <3>1, SumOverEmpty DEF PointsOf
  <2>6. Total(<<>>) = 0
    <3>1. DOMAIN <<>> = {}
      OBVIOUS
    <3>. QED
      BY <3>1, TotalIs, SumOverEmpty
  <2>7. stage' = "check_deps" => Balanced'
    BY <2>4, <2>5, <2>6 DEF Balanced, Due
  <2>. QED
    BY <1>1, <2>1, <2>2, <2>3, <2>4, <2>7 DEF BalanceInv, Sums, MovesTo
<1>3. CASE CheckDeps
  <2>1. MovesTo("check_deps", {"make_build", "finish"})
        /\ UNCHANGED <<config, at, grade, gradeVmr, vmrFile>>
    BY <1>3, StageOfSteps, OthersLeaveTests DEF CheckDeps, Ends
  <2>2. stage' = "make_build" => Balanced'
    BY <2>1 DEF BalanceInv, Balanced, Due, MovesTo
  <2>. QED
    BY <1>1, <2>1, <2>2 DEF BalanceInv, Sums, MovesTo
<1>4. CASE MakeBuild
  <2>1. MovesTo("make_build", {"run_tasks", "finish"})
        /\ UNCHANGED <<config, at, vmrFile>>
    BY <1>4, StageOfSteps, OthersLeaveTests DEF MakeBuild
  <2>2. Progress /\ PointsOK(config) /\ Balanced
    BY <1>1, <2>1 DEF BalanceInv, CheckerInv, MovesTo
  <2>3. Sums' /\ (stage' = "run_tasks" => Balanced')
    BY <1>1, <1>4, <2>2, MakeBuildBalances
  <2>. QED
    BY <1>1, <2>1, <2>2, <2>3 DEF BalanceInv, MovesTo
<1>5. CASE StartTest \/ RunTest \/ GradeTest \/ EndTest
  <2>1. MovesTo("run_tasks", {"run_tasks"}) /\ config' = config
        /\ UNCHANGED <<gradeVmr, vmrFile>>
    BY <1>5, StageOfSteps, TestsLeaveRest DEF StartTest, RunTest, GradeTest, EndTest
  <2>2. Progress /\ PointsOK(config) /\ Balanced
    BY <1>1, <2>1 DEF BalanceInv, CheckerInv, MovesTo
  <2>3. at'.task = at.task /\ grade' = grade
    BY <1>5, <2>2, OtherResultsStay
  <2>4. Balanced'
    BY <2>1, <2>2, <2>3 DEF Balanced, Due, MovesTo
  <2>. QED
    BY <1>1, <2>1, <2>2, <2>3, <2>4 DEF BalanceInv, Sums, MovesTo
<1>6. CASE EndTask
  <2>1. MovesTo("run_tasks", {"run_tasks"}) /\ config' = config /\ vmrFile' = vmrFile
    BY <1>6, StageOfSteps, TestsLeaveRest DEF EndTask
  <2>2. Progress /\ PointsOK(config) /\ Balanced /\ stage = "run_tasks"
    BY <1>1, <2>1 DEF BalanceInv, CheckerInv, MovesTo
  <2>3. Sums' /\ Balanced'
    BY <1>1, <1>6, <2>2, EndTaskBalances DEF Balances
  <2>. QED
    BY <1>1, <2>1, <2>2, <2>3 DEF BalanceInv, MovesTo
<1>7. CASE EndTasks
  <2>1. /\ MovesTo("run_tasks", {"check_style", "finish"})
        /\ UNCHANGED <<config, at, grade, gradeVmr, vmrFile>>
    BY <1>7, StageOfSteps, OthersLeaveTests DEF EndTasks, Ends
  <2>2. at.task - 1 = Len(config.tasks)
    <3>1. Progress
      BY <1>1, <2>1 DEF CheckerInv, MovesTo
    <3>2. at.task \in Nat /\ at.task <= Len(config.tasks) + 1 /\ Len(config.tasks) \in Nat
      BY <3>1, ShapeFacts DEF Progress
    <3>. QED
      BY <1>7, <3>2 DEF EndTasks
  <2>3. stage' = "check_style" => Balanced'
    BY <2>1, <2>2 DEF BalanceInv, Balanced, Due, MovesTo
  <2>. QED
    BY <1>1, <2>1, <2>3 DEF BalanceInv, Sums, MovesTo
<1>8. CASE CheckStyle
  <2>1. MovesTo("check_style", {"check_readme", "finish"})
        /\ UNCHANGED <<config, at, vmrFile>>
    BY <1>8, StageOfSteps, OthersLeaveTests DEF CheckStyle
  <2>2. ConfigOK(config) /\ PointsOK(config) /\ Balanced
    BY <1>1, <2>1 DEF BalanceInv, CheckerInv, MovesTo, Progress, Shape
  <2>3. Sums' /\ (stage' = "check_readme" => Balanced')
    BY <1>1, <1>8, <2>2, CheckStyleBalances
  <2>. QED
    BY <1>1, <2>1, <2>2, <2>3 DEF BalanceInv, MovesTo
<1>9. CASE CheckReadme
  <2>1. MovesTo("check_readme", {"make_clean", "crashed"})
        /\ UNCHANGED <<config, at, vmrFile>>
    BY <1>9, StageOfSteps, OthersLeaveTests DEF CheckReadme
  <2>2. ConfigOK(config) /\ PointsOK(config) /\ Balanced
    BY <1>1, <2>1 DEF BalanceInv, CheckerInv, MovesTo, Progress, Shape
  <2>3. Sums' /\ (stage' = "make_clean" => Balanced')
    BY <1>1, <1>9, <2>2, CheckReadmeBalances
  <2>. QED
    BY <1>1, <2>1, <2>2, <2>3 DEF BalanceInv, MovesTo
<1>10. CASE MakeClean
  <2>1. MovesTo("make_clean", {"print_grade_vmr", "finish"})
        /\ UNCHANGED <<config, at, vmrFile>>
    BY <1>10, StageOfSteps, OthersLeaveTests DEF MakeClean
  <2>2. PointsOK(config) /\ Balanced
    BY <2>1 DEF BalanceInv, MovesTo
  <2>3. Sums' /\ (stage' = "print_grade_vmr" => Balanced')
    BY <1>1, <1>10, <2>2, MakeCleanBalances
  <2>. QED
    BY <1>1, <2>1, <2>2, <2>3 DEF BalanceInv, MovesTo
<1>11. CASE PrintGradeVmr
  <2>1. MovesTo("print_grade_vmr", {"finish"})
        /\ UNCHANGED <<config, at, grade, gradeVmr>>
    BY <1>11, StageOfSteps, OthersLeaveTests DEF PrintGradeVmr, Ends
  <2>2. vmrFile' = IF raw.judge /\ gradeVmr # <<>> THEN gradeVmr ELSE vmrFile
    BY <1>11 DEF PrintGradeVmr
  <2>3. vmrFile = None /\ Balanced
    BY <2>1 DEF BalanceInv, MovesTo
  <2>4. vmrFile' # None => vmrFile' = gradeVmr'
    BY <2>1, <2>2, <2>3
  <2>5. grade' = Due(config', at', "finish") + Total(gradeVmr')
    BY <2>1, <2>3 DEF Balanced, Due, MovesTo
  <2>. QED
    BY <1>1, <2>1, <2>4, <2>5 DEF BalanceInv, Sums, MovesTo
<1>12. CASE Finish
  <2>1. MovesTo("finish", {"done"}) /\ UNCHANGED <<config, at, gradeVmr>>
    BY <1>12, StageOfSteps, OthersLeaveTests DEF Finish
  <2>2. grade' \in Int
    BY <1>1, <1>12 DEF Finish, Sums
  <2>. QED
    BY <1>1, <2>1, <2>2 DEF BalanceInv, Sums, MovesTo
<1>13. CASE UNCHANGED vars
  BY <1>1, <1>13 DEF vars, BalanceInv, Sums, Balanced
<1>. QED
  BY <1>2, <1>3, <1>4, <1>5, <1>6, <1>7, <1>8, <1>9, <1>10, <1>11, <1>12, <1>13 DEF Next

\* The deductions of grade.vmr are what the grade lacks of all that could be
\* earned, for every configuration whose points add up (print_grade_vmr).
THEOREM VmrListsDeductions ==
  ASSUME PointsAddUp
  PROVE  Spec => []VmrExplainsGrade
<1>1. Init => BalanceInv
  BY BalanceInit
<1>2. BalanceInv /\ [Next]_vars => BalanceInv'
  BY BalanceNext
<1>3. BalanceInv => VmrExplainsGrade
  <2>. SUFFICES ASSUME BalanceInv, stage = "finish", vmrFile # None
                PROVE  grade = Total([i \in DOMAIN config.tasks |-> config.tasks[i].points])
                               + config.fields.coding_style + config.fields.penalty_readme
                               + Total(vmrFile)
    BY DEF VmrExplainsGrade
  <2>. DEFINE f == [i \in DOMAIN config.tasks |-> config.tasks[i].points]
  <2>1. /\ vmrFile = gradeVmr
        /\ grade = Due(config, at, "finish") + Total(gradeVmr)
    BY DEF BalanceInv
  <2>2. DOMAIN config.tasks = 1 .. Len(config.tasks)
    BY DEF BalanceInv, CheckerInv, Progress, Shape, ConfigOK
  <2>3. Total(f) = SumOver(f, DOMAIN f) /\ DOMAIN f = DOMAIN config.tasks
    BY TotalIs
  <2>4. Total(f) = PointsOf(config, Len(config.tasks))
    BY <2>2, <2>3 DEF PointsOf
  <2>5. Due(config, at, "finish") = Total(f) + config.fields.coding_style
                                    + config.fields.penalty_readme
    BY <2>4 DEF Due, TestingStages, BuildStages
  <2>. QED
    BY <2>1, <2>5
<1>. QED
  BY <1>1, <1>2, <1>3, PTL DEF Spec
=============================================================================
