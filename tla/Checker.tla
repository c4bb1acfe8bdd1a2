------------------------------- MODULE Checker -------------------------------
(***************************************************************************)
(* The checker of the segregated free lists (check_utils/): it reads       *)
(* tasks/config.json, and runs its stages in a fixed order until one       *)
(* fails.  What the stages run (the compiler, the program, valgrind, the   *)
(* style script) is the environment: it may answer anything the stage      *)
(* tells apart.  A grade is counted in fractions of a point, One to a      *)
(* point, so that the proportional grade of the coding style is whole.     *)
(* The log, the sounds and the copying of a test's dependencies are left   *)
(* out.                                                                    *)
(***************************************************************************)
EXTENDS Integers, Sequences, FiniteSets, Functions

CONSTANTS RawConfigs,   \* what tasks/config.json may hold
          None,         \* a field it does not hold, a file that is not there
          One           \* a point

ASSUME OneAssumption == One \in Nat \ {0}

\* The tasks of the file are a list, which is not empty, and each names how
\* many tests it has.
ASSUME ConfigsAssumption ==
    \A file \in RawConfigs :
        /\ Len(file.tasks) \in Nat \ {0}
        /\ DOMAIN file.tasks = 1..Len(file.tasks)
        /\ \A i \in DOMAIN file.tasks : file.tasks[i].tests \in Nat

VARIABLES raw,        \* the file, the option --task, and ONLINE_JUDGE
          config,     \* what get_config returns
          stage,      \* the check that is next
          at,         \* the test that is next: its task, its number, its stage
          tests,      \* per task and test, its grade and how its stages ended
          grade,      \* config.grade
          gradeVmr,   \* config.grade_vmr: the points of its lines
          gradeFile,  \* .check.grade
          vmrFile     \* grade.vmr

vars == <<raw, config, stage, at, tests, grade, gradeVmr, gradeFile, vmrFile>>
counts == <<at, tests, gradeFile>>

Total(f) == FoldFunction(LAMBDA x, y : x + y, 0, f)

-----------------------------------------------------------------------------
(* parser.py                                                               *)

\* A field the file lacks: 0 for coding_style, None for the penalties (the
\* branch with five points asks for names that are no fields).
Default(field) == IF field = "coding_style" THEN 0 ELSE None

ParseConfig(file) ==
    [field \in {"coding_style", "penalty_warnings", "penalty_readme"} |->
        IF field \in DOMAIN file.fields THEN file.fields[field]
        ELSE Default(field)]

\* The tests without points of their own share what is left equally.
TestPoints(t) ==
    LET given == t.points_distribution
        rest  == t.tests - Cardinality(DOMAIN given)
        share == IF rest = 0 THEN 0 ELSE (t.points - Total(given)) \div rest
    IN  [n \in 1..t.tests |-> IF n \in DOMAIN given THEN given[n] ELSE share]

\* What becomes of a task of the file: points, tests, and who asks for
\* valgrind.
Task(t) == [points   |-> t.points,
            test     |-> TestPoints(t),
            valgrind |-> [n \in 1..t.tests |->
                             t.valgrind \/ n \in t.tests_valgrind]]

\* --task keeps one of the tasks; tests_points was summed before.
ApplyArgs(file, args) ==
    IF args = None THEN file.tasks ELSE <<file.tasks[args]>>

Configured ==
    LET file  == raw.file
        tasks == ApplyArgs(file, raw.args)
    IN  [fields       |-> ParseConfig(file),
         tests_points |-> Total([i \in DOMAIN file.tasks |->
                                    file.tasks[i].points]),
         tasks        |-> [i \in DOMAIN tasks |-> Task(tasks[i])]]

\* get_test asserts that every test is worth something.
Worthless(c) == \E i \in DOMAIN c.tasks :
                    \E n \in DOMAIN c.tasks[i].test : c.tasks[i].test[n] <= 0

GetConfig ==
    /\ stage = "get_config"
    /\ LET c == Configured IN
       /\ config' = c
       /\ stage' = IF Worthless(c) THEN "crashed" ELSE "check_deps"
       /\ tests' = [i \in DOMAIN c.tasks |-> <<>>]
    /\ UNCHANGED <<raw, at, grade, gradeVmr, gradeFile, vmrFile>>

-----------------------------------------------------------------------------
(* checks.py                                                               *)

Init ==
    /\ raw \in [file : RawConfigs, args : {None, 1}, judge : BOOLEAN]
    /\ config = None
    /\ stage = "get_config"
    /\ at = [task |-> 1, test |-> 1, stage |-> "test"]
    /\ tests = <<>>
    /\ grade = 0 /\ gradeVmr = <<>>
    /\ gradeFile = None /\ vmrFile = None

Stages == <<"check_deps", "make_build", "run_tasks", "check_style",
            "check_readme", "make_clean", "print_grade_vmr", "finish">>

\* The loop of checker_run stops at the first stage that does not return 0.
After(name, ret) ==
    IF ret # 0 THEN "finish"
    ELSE Stages[1 + CHOOSE i \in 1..7 : Stages[i] = name]

UpdateGrade(points) == grade' = grade + points

UpdateGradeVmr(points) == gradeVmr' = Append(gradeVmr, points)

\* A stage that leaves the grade and its lines as they are.
Ends(name, ret) ==
    /\ stage = name
    /\ stage' = After(name, ret)
    /\ UNCHANGED <<grade, gradeVmr>>

\* uname, which and --version answer for every dependency, or one does not.
CheckDeps ==
    /\ \E ret \in {0, 1} : Ends("check_deps", ret)
    /\ UNCHANGED <<raw, config, counts, vmrFile>>

Enabled(field) == config.fields[field] # None /\ config.fields[field] > 0

\* No Makefile or a compile error costs 100 points in a line that is never
\* written, because the loop stops; an exception costs nothing.
BuildFails ==
    /\ stage = "make_build"
    /\ stage' = After("make_build", -1)
    /\ UpdateGradeVmr(-100 * One) \/ UNCHANGED gradeVmr
    /\ UNCHANGED grade

BuildWarns ==
    LET penalty == config.fields.penalty_warnings IN
    /\ stage = "make_build"
    /\ Enabled("penalty_warnings")
    /\ UpdateGrade(-penalty)
    /\ UpdateGradeVmr(-penalty)
    /\ stage' = After("make_build", 0)

MakeBuild ==
    /\ BuildFails \/ BuildWarns \/ Ends("make_build", 0)
    /\ UNCHANGED <<raw, config, counts, vmrFile>>

-----------------------------------------------------------------------------
(* run_tasks, run_task, run_test, check_test and grader.py                 *)

task == config.tasks[at.task]

\* Grader.exit writes what was earned, all the points or none, before it
\* leaves with 0 or with an error.
Graders(points) == {[code |-> 0, file |-> points], [code |-> -1, file |-> 0]}

\* check_test: an old grade file is removed; a grader that fails leaves its
\* file behind, one that succeeds is read and its file removed.
CheckTest(g) == [code  |-> g.code,
                 grade |-> IF g.code = 0 THEN g.file ELSE 0,
                 file  |-> IF g.code = 0 THEN None ELSE g.file]

\* The stages a test has: it runs, its output is graded, and it runs again
\* under valgrind when the task or the test asks for it.
NextTestStage ==
    CASE at.stage = "test" -> "check"
      [] at.stage = "check" /\ task.valgrind[at.test] -> "valgrind"
      [] OTHER -> "end"

\* Faulty variant: a test that fails keeps what the grader gave it.
FaultyTestAfter(t, code) == [t EXCEPT !.code = code]

\* The stages run until one fails, and then the test is worth nothing.
TestAfter(t, code) == [t EXCEPT !.code = code,
                                !.grade = IF code # 0 THEN 0 ELSE @]

StageOfTestEnds(t, code) ==
    /\ tests' = [tests EXCEPT ![at.task] =
                    [@ EXCEPT ![at.test] = TestAfter(t, code)]]
    /\ at' = [at EXCEPT !.stage = IF code # 0 THEN "end" ELSE NextTestStage]

Running == stage = "run_tasks" /\ at.task <= Len(config.tasks)

StartTest ==
    /\ Running
    /\ at.test <= Len(task.test)
    /\ Len(tests[at.task]) < at.test
    /\ tests' = [tests EXCEPT ![at.task] =
                    Append(@, [grade |-> 0, code |-> 0, passed |-> {}])]
    /\ UNCHANGED <<raw, config, stage, at, grade, gradeVmr, gradeFile, vmrFile>>

\* 0, or an exit code, or -1 for a timeout or an exception.
RunTest ==
    /\ Running
    /\ at.stage \in {"test", "valgrind"}
    /\ Len(tests[at.task]) = at.test
    /\ \E code \in {0, 1, -1} :
          LET t == tests[at.task][at.test] IN
          StageOfTestEnds(IF code = 0 THEN [t EXCEPT !.passed = @ \union {at.stage}]
                          ELSE t, code)
    /\ UNCHANGED <<raw, config, stage, grade, gradeVmr, gradeFile, vmrFile>>

GradeTest ==
    /\ Running
    /\ at.stage = "check"
    /\ \E g \in Graders(task.test[at.test]) :
          LET t == tests[at.task][at.test]
              c == CheckTest(g)
          IN  /\ StageOfTestEnds([t EXCEPT !.grade = c.grade,
                                    !.passed = IF c.code = 0 THEN @ \union {"check"}
                                               ELSE @], c.code)
              /\ gradeFile' = c.file
    /\ UNCHANGED <<raw, config, stage, grade, gradeVmr, vmrFile>>

EndTest ==
    /\ Running
    /\ at.stage = "end"
    /\ at' = [at EXCEPT !.test = @ + 1, !.stage = "test"]
    /\ UNCHANGED <<raw, config, stage, tests, grade, gradeVmr, gradeFile, vmrFile>>

TaskGrade(i) == Total([n \in DOMAIN tests[i] |-> tests[i][n].grade])

EndTask ==
    /\ Running
    /\ at.test > Len(task.test)
    /\ UpdateGrade(TaskGrade(at.task))
    /\ IF TaskGrade(at.task) < task.points
       THEN UpdateGradeVmr(TaskGrade(at.task) - task.points)
       ELSE UNCHANGED gradeVmr
    /\ at' = [task |-> at.task + 1, test |-> 1, stage |-> "test"]
    /\ UNCHANGED <<raw, config, stage, tests, gradeFile, vmrFile>>

\* Faulty variant: the stages go on without a point.
FaultyAllTasksRun(g) == 0

\* run_tasks returns 0, and the stage fails when the grade is 0.
AllTasksRun(g) == IF g = 0 THEN 1 ELSE 0

EndTasks ==
    /\ stage = "run_tasks"
    /\ at.task > Len(config.tasks)
    /\ Ends("run_tasks", AllTasksRun(grade))
    /\ UNCHANGED <<raw, config, counts, vmrFile>>

-----------------------------------------------------------------------------
(* check_style, check_readme, make_clean, print_grade_vmr, checker_run     *)

AtMost80(g) == IF g < 0 THEN 0 ELSE IF g > 80 * One THEN 80 * One ELSE g

\* No errors: the points are in proportion to what the tests earned.
StyleGrade(clean) ==
    IF clean THEN (AtMost80(grade) * config.fields.coding_style) \div (80 * One)
    ELSE 0

\* Every way the stage can end leaves a line.
CheckStyle ==
    /\ \/ /\ stage = "check_style"
          /\ Enabled("coding_style")
          /\ \E clean \in BOOLEAN :
                /\ UpdateGradeVmr(StyleGrade(clean) - config.fields.coding_style)
                /\ UpdateGrade(StyleGrade(clean))
          /\ stage' = After("check_style", 0)
       \/ Ends("check_style", -1) /\ Enabled("coding_style")
       \/ Ends("check_style", 0) /\ ~Enabled("coding_style")
    /\ UNCHANGED <<raw, config, counts, vmrFile>>

\* Faulty variant: a bad readme is paid twice.
FaultyReadmeChecked(good) ==
    LET points == config.fields.penalty_readme IN
    /\ UpdateGrade(IF good THEN points ELSE -points)
    /\ IF good THEN UNCHANGED gradeVmr ELSE UpdateGradeVmr(-points)

\* README.md or README, missing, empty or shorter than 64 bytes earns nothing.
ReadmeChecked(good) ==
    LET points == config.fields.penalty_readme IN
    /\ UpdateGrade(IF good THEN points ELSE 0)
    /\ IF good THEN UNCHANGED gradeVmr ELSE UpdateGradeVmr(-points)

\* A file without penalty_readme leaves None there: it is compared with 0
\* and the checker dies of the TypeError.
CheckReadme ==
    /\ \/ /\ stage = "check_readme"
          /\ Enabled("penalty_readme")
          /\ \E good \in BOOLEAN : ReadmeChecked(good)
          /\ stage' = After("check_readme", 0)
       \/ /\ stage = "check_readme"
          /\ config.fields.penalty_readme = 0
          /\ Ends("check_readme", 0)
       \/ /\ stage = "check_readme"
          /\ config.fields.penalty_readme = None
          /\ stage' = "crashed"
          /\ UNCHANGED <<grade, gradeVmr>>
    /\ UNCHANGED <<raw, config, counts, vmrFile>>

\* A failure takes the whole grade; the line is computed from the grade that
\* is left, which is 0.
CleanFails ==
    /\ stage = "make_clean"
    /\ UpdateGrade(-grade)
    /\ UpdateGradeVmr(0)
    /\ stage' = After("make_clean", 2)

MakeClean ==
    /\ CleanFails \/ Ends("make_clean", 0) \/ Ends("make_clean", -1)
    /\ UNCHANGED <<raw, config, counts, vmrFile>>

\* Only the online judge asks for the file, and only when there are lines.
PrintGradeVmr ==
    /\ Ends("print_grade_vmr", 0)
    /\ vmrFile' = IF raw.judge /\ gradeVmr # <<>> THEN gradeVmr ELSE vmrFile
    /\ UNCHANGED <<raw, config, counts>>

\* No negative grades.
Finish ==
    /\ stage = "finish"
    /\ grade' = IF grade > 0 THEN grade ELSE 0
    /\ stage' = "done"
    /\ UNCHANGED <<raw, config, counts, gradeVmr, vmrFile>>

Next ==
    \/ GetConfig \/ CheckDeps \/ MakeBuild
    \/ StartTest \/ RunTest \/ GradeTest \/ EndTest \/ EndTask \/ EndTasks
    \/ CheckStyle \/ CheckReadme \/ MakeClean \/ PrintGradeVmr \/ Finish

Spec == Init /\ [][Next]_vars

-----------------------------------------------------------------------------
(* Properties                                                              *)

\* What the stages that ran say of a test that is over and what it is worth.
Over(i, n) == i < at.task \/ n < at.test

Demanded(i, n) == {"test", "check"} \union
                  (IF config.tasks[i].valgrind[n] THEN {"valgrind"} ELSE {})

\* A test that is over is worth its points when it ran, was graded and, where
\* the task or the test asks for it, passed valgrind, and nothing otherwise:
\* points given by the grader do not survive a leak found afterwards
\* (run_task, check_test).
EarnedByAllStages ==
    \A i \in DOMAIN tests : \A n \in DOMAIN tests[i] :
        Over(i, n) => tests[i][n].grade =
                          IF tests[i][n].passed = Demanded(i, n)
                          THEN config.tasks[i].test[n] ELSE 0

\* What VmrExplainsGrade takes for granted of the file, and no code checks: its
\* fields are numbers, points are given to tests the task has, and a task that
\* gives points to all of its tests gives them no more than it has.
PointsAddUp ==
    /\ None \notin Int
    /\ \A file \in RawConfigs :
        /\ \A field \in DOMAIN file.fields : file.fields[field] \in Nat
        /\ \A i \in DOMAIN file.tasks :
            LET t     == file.tasks[i]
                given == t.points_distribution
            IN  /\ t.points \in Int
                /\ DOMAIN given \subseteq 1..t.tests
                /\ \A n \in DOMAIN given : given[n] \in Int
                /\ DOMAIN given = 1..t.tests => Total(given) <= t.points

\* The deductions listed in grade.vmr are exactly what the grade lacks of all
\* the points of the tasks that ran, the coding style and the readme
\* (print_grade_vmr against every update_grade).
VmrExplainsGrade ==
    stage = "finish" /\ vmrFile # None =>
        grade = Total([i \in DOMAIN config.tasks |-> config.tasks[i].points])
                + config.fields.coding_style + config.fields.penalty_readme
                + Total(vmrFile)

\* A program that passes no test gets no grade for style or readme, unless
\* its warnings were fined: the fine makes the grade of the tests other than
\* 0, and the checks that follow are not skipped (checker_run).
NoTestsNoGrade ==
    /\ stage = "done"
    /\ \A i \in DOMAIN tests : TaskGrade(i) = 0
    /\ config.fields.penalty_warnings = None
    => grade = 0
=============================================================================
