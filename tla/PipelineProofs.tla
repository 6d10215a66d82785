--------------------------- MODULE PipelineProofs ---------------------------
(***************************************************************************)
(* For any number of runs of the compiler, with whatever options, and      *)
(* whatever fails: a run links and saves only what it made itself, its     *)
(* directories stay until it ends and no longer than it may keep them, and *)
(* the seeds it reads are those the game recorded.                         *)
(*                                                                         *)
(* The inductive invariant of the builds says, for every step of a run,    *)
(* what lies in its work directory then (Contents).  Other runs cannot     *)
(* touch it, as every directory belongs to the run that made it            *)
(* (Directories).                                                          *)
(*                                                                         *)
(* That of the seeds (SeedInv) says that the file is how some dump begins  *)
(* (FileOK), and that what a run has read of it is, line by line, of some  *)
(* dump, but for at most one line per chunk: the one that the end of the   *)
(* chunk tore (ReadOK).  It rests on a line being read as the address it   *)
(* was written for (NumberOfLine).                                         *)
(***************************************************************************)
EXTENDS Pipeline, FiniteSetTheorems, SequenceTheorems, WellFoundedInduction, TLAPS

Early   == {"parseFlags", "open", "read", "analyze"}
Working == {"generate", "opt", "save", "extract", "compile", "compileRuntime", "link", "return"}
Built   == {"compile", "compileRuntime", "link", "return"}
Steps   == Early \cup Working \cup {"ok", "failed"}

TypeOK ==
    /\ pc \in [RUNS -> Steps]
    /\ work \in [RUNS -> NAMES \cup {None}] /\ runtimeDir \in [RUNS -> NAMES \cup {None}]
    /\ DOMAIN temp \subseteq NAMES
    /\ temp = [d \in DOMAIN temp |-> temp[d]]
    /\ \A d \in DOMAIN temp :
          temp[d] = [owner |-> temp[d].owner, ll |-> temp[d].ll, romObj |-> temp[d].romObj, libObj |-> temp[d].libObj]

\* Which directories a run has made so far.
Made ==
    \A r \in RUNS :
        /\ pc[r] \in Early => work[r] = None /\ runtimeDir[r] = None
        /\ pc[r] \in Working => work[r] \in NAMES
        /\ pc[r] \in Working \ Built => runtimeDir[r] = None
        /\ pc[r] \in Built => runtimeDir[r] \in NAMES

\* What a run makes: the IR, the same optimized, and the compiled runtime.
Generated(r) == [by |-> r, optimized |-> FALSE]
Optimized(r) == [by |-> r, optimized |-> TRUE]
Library(r)   == [by |-> r]

\* What is in its work directory.
Contents ==
    \A r \in RUNS : pc[r] \in Working =>
        LET dir == temp[work[r]]
            own == Optimized(r)
        IN  /\ pc[r] = "opt" => dir.ll = Generated(r)
            /\ pc[r] \in Working \ {"generate", "opt"} => dir.ll = own
            /\ pc[r] \in {"compileRuntime", "link"} => dir.romObj = own
            /\ pc[r] = "link" => dir.libObj = Library(r)

IInv == TypeOK /\ Made /\ Directories /\ Contents

\* The variables the invariant speaks of.
built_vars == <<pc, work, runtimeDir, temp>>

\* A directory a run works in exists and is its own.
LEMMA WorkExists ==
    ASSUME IInv, NEW r \in RUNS, pc[r] \in Working
    PROVE  /\ work[r] \in DOMAIN temp /\ temp[work[r]].owner = r /\ work[r] \in NAMES
           /\ runtimeDir[r] # None => runtimeDir[r] \in DOMAIN temp /\ temp[runtimeDir[r]].owner = r
<1>1. work[r] \in NAMES /\ work[r] # None
  BY PipelineAssumption DEF IInv, Made
<1>2. pc[r] # "ok"
  BY DEF Working
<1>3. {d \in DOMAIN temp : temp[d].owner = r} = {work[r], runtimeDir[r]} \ {None}
  BY <1>2 DEF IInv, Directories
<1> QED
  BY <1>1, <1>3

LEMMA StutterKeeps == IInv /\ UNCHANGED built_vars => IInv'
BY DEF IInv, TypeOK, Made, Directories, Contents, built_vars

LEMMA InitHolds == Init => IInv
BY DEF Init, IInv, TypeOK, Made, Directories, Contents, Early, Working, Built, Steps

\* A step of a run that makes and removes no directory and writes into none.
LEMMA QuietStep ==
    ASSUME IInv, NEW r \in RUNS, UNCHANGED <<work, runtimeDir, temp>>,
           NEW s \in Steps, pc' = [pc EXCEPT ![r] = s],
           \/ pc[r] \in Early /\ s \in Early
           \/ pc[r] # "ok" /\ s = "failed"
           \/ pc[r] = "save" /\ s = "extract"
           \/ pc[r] = "link" /\ s = "return"
    PROVE  IInv'
<1>1. TypeOK'
  BY DEF IInv, TypeOK
<1>2. pc'[r] = s /\ \A q \in RUNS \ {r} : pc'[q] = pc[q]
  BY DEF IInv, TypeOK
<1>3. Made'
  BY <1>2 DEF IInv, Made, Early, Working, Built
<1>4. Directories'
  BY <1>2 DEF IInv, Directories, Early
<1>5. Contents'
  BY <1>2 DEF IInv, Contents, Early, Working, Built
<1> QED
  BY <1>1, <1>3, <1>4, <1>5 DEF IInv

\* A run makes a directory: the work directory, or the one of the runtime.
LEMMA MakeStep ==
    ASSUME IInv, NEW r \in RUNS, NEW d \in NAMES, MkdirTemp(d), temp' = MakeDir(d, r),
           \/ /\ pc[r] = "analyze" /\ pc' = [pc EXCEPT ![r] = "generate"]
              /\ work' = [work EXCEPT ![r] = d] /\ runtimeDir' = runtimeDir
           \/ /\ pc[r] = "extract" /\ pc' = [pc EXCEPT ![r] = "compile"]
              /\ runtimeDir' = [runtimeDir EXCEPT ![r] = d] /\ work' = work
    PROVE  IInv'
<1>1. d \notin DOMAIN temp /\ DOMAIN temp' = DOMAIN temp \cup {d} /\ d # None
  BY PipelineAssumption DEF MkdirTemp, MakeDir
<1>2. /\ temp'[d] = [owner |-> r, ll |-> None, romObj |-> None, libObj |-> None]
      /\ \A n \in DOMAIN temp : temp'[n] = temp[n]
  BY <1>1 DEF MakeDir
<1>3. TypeOK'
  <2>1. pc' \in [RUNS -> Steps] /\ work' \in [RUNS -> NAMES \cup {None}] /\ runtimeDir' \in [RUNS -> NAMES \cup {None}]
    BY DEF IInv, TypeOK, Steps, Working
  <2>2. DOMAIN temp' \subseteq NAMES
    BY <1>1 DEF IInv, TypeOK
  <2>3. temp' = [n \in DOMAIN temp' |-> temp'[n]]
    BY DEF MakeDir
  <2>4. \A n \in DOMAIN temp' :
           temp'[n] = [owner |-> temp'[n].owner, ll |-> temp'[n].ll, romObj |-> temp'[n].romObj, libObj |-> temp'[n].libObj]
    BY <1>1, <1>2 DEF IInv, TypeOK
  <2> QED
    BY <2>1, <2>2, <2>3, <2>4 DEF TypeOK
<1>4. \A q \in RUNS \ {r} : pc'[q] = pc[q] /\ work'[q] = work[q] /\ runtimeDir'[q] = runtimeDir[q]
  BY DEF IInv, TypeOK
<1>5. \/ pc[r] = "analyze" /\ pc'[r] = "generate" /\ work'[r] = d /\ runtimeDir'[r] = runtimeDir[r]
      \/ pc[r] = "extract" /\ pc'[r] = "compile" /\ work'[r] = work[r] /\ runtimeDir'[r] = d
  BY DEF IInv, TypeOK
<1>6. Made'
  <2>1. pc[r] = "analyze" => work[r] = None /\ runtimeDir[r] = None
    BY DEF IInv, Made, Early
  <2>2. pc[r] = "extract" => work[r] \in NAMES /\ runtimeDir[r] = None
    BY DEF IInv, Made, Working, Built
  <2>3. ASSUME NEW q \in RUNS \ {r}
        PROVE  /\ pc'[q] \in Early => work'[q] = None /\ runtimeDir'[q] = None
               /\ pc'[q] \in Working => work'[q] \in NAMES
               /\ pc'[q] \in Working \ Built => runtimeDir'[q] = None
               /\ pc'[q] \in Built => runtimeDir'[q] \in NAMES
    BY <1>4 DEF IInv, Made
  <2> QED
    BY <1>5, <2>1, <2>2, <2>3 DEF Made, Early, Working, Built
<1>7. Directories'
  <2>1. ASSUME NEW q \in RUNS \ {r}
        PROVE  {n \in DOMAIN temp' : temp'[n].owner = q} = {n \in DOMAIN temp : temp[n].owner = q}
    BY <1>1, <1>2
  <2>2. {n \in DOMAIN temp' : temp'[n].owner = r} = {n \in DOMAIN temp : temp[n].owner = r} \cup {d}
    BY <1>1, <1>2
  <2>3. pc[r] = "analyze" => work[r] = None /\ runtimeDir[r] = None
    BY DEF IInv, Made, Early
  <2>4. pc[r] = "extract" => runtimeDir[r] = None
    BY DEF IInv, Made, Working, Built
  <2>5. {n \in DOMAIN temp : temp[n].owner = r} = {work[r], runtimeDir[r]} \ {None}
    BY <1>5 DEF IInv, Directories
  <2>6. {n \in DOMAIN temp' : temp'[n].owner = r} = {work'[r], runtimeDir'[r]} \ {None}
    BY <1>1, <1>5, <2>2, <2>3, <2>4, <2>5
  <2> QED
    BY <1>4, <1>5, <2>1, <2>6 DEF IInv, Directories
<1>8. Contents'
  <2>1. ASSUME NEW q \in RUNS, pc[q] \in Working PROVE temp'[work[q]] = temp[work[q]]
    BY <2>1, <1>2, WorkExists
  <2>2. ASSUME NEW q \in RUNS, pc'[q] \in Working \ {"generate"}
        PROVE  pc[q] \in Working /\ work'[q] = work[q]
    BY <2>2, <1>4, <1>5 DEF Working
  <2> QED
    BY <1>4, <1>5, <2>1, <2>2 DEF IInv, Contents, Working
<1> QED
  BY <1>3, <1>6, <1>7, <1>8 DEF IInv

\* A run writes a file into its work directory.
LEMMA PutStep ==
    ASSUME IInv, NEW r \in RUNS, NEW v, UNCHANGED <<work, runtimeDir>>,
           \/ pc[r] = "generate" /\ pc' = [pc EXCEPT ![r] = "opt"] /\ Put(work[r], "ll", v)
              /\ v = Generated(r)
           \/ pc[r] = "opt" /\ pc' = [pc EXCEPT ![r] = "save"] /\ Put(work[r], "ll", v)
              /\ v = Optimized(r)
           \/ pc[r] = "compile" /\ pc' = [pc EXCEPT ![r] = "compileRuntime"] /\ Put(work[r], "romObj", v)
              /\ v = Optimized(r)
           \/ pc[r] = "compileRuntime" /\ pc' = [pc EXCEPT ![r] = "link"] /\ Put(work[r], "libObj", v)
              /\ v = Library(r)
    PROVE  IInv'
<1> DEFINE w == work[r]
<1>1. pc \in [RUNS -> Steps]
  BY DEF IInv, TypeOK
<1>2. pc[r] \in Working /\ pc'[r] \in Working /\ \A q \in RUNS \ {r} : pc'[q] = pc[q]
  BY DEF IInv, TypeOK, Working
<1>3. w \in DOMAIN temp /\ temp[w].owner = r /\ w \in NAMES
  BY <1>2, WorkExists
<1>4. /\ DOMAIN temp' = DOMAIN temp
      /\ \A n \in DOMAIN temp \ {w} : temp'[n] = temp[n]
      /\ temp' = [n \in DOMAIN temp |-> temp'[n]]
  BY <1>3 DEF Put
<1>5. temp[w] = [owner |-> r, ll |-> temp[w].ll, romObj |-> temp[w].romObj, libObj |-> temp[w].libObj]
  BY <1>3 DEF IInv, TypeOK
<1> DEFINE Written(next, name) == pc' = [pc EXCEPT ![r] = next] /\ temp' = [temp EXCEPT ![w][name] = v]
<1>6. /\ pc[r] = "generate" => Written("opt", "ll") /\ v = Generated(r)
      /\ pc[r] = "opt" => Written("save", "ll") /\ v = Optimized(r)
      /\ pc[r] = "compile" => Written("compileRuntime", "romObj") /\ v = Optimized(r)
      /\ pc[r] = "compileRuntime" => Written("link", "libObj") /\ v = Library(r)
      /\ pc[r] \in {"generate", "opt", "compile", "compileRuntime"}
  BY DEF Put
<1>7. ASSUME NEW next, NEW name, Written(next, name)
      PROVE  pc'[r] = next /\ temp'[w] = [temp[w] EXCEPT ![name] = v]
  BY <1>7, <1>3 DEF IInv, TypeOK
<1>8. /\ [temp[w] EXCEPT !["ll"] = v] = [owner |-> r, ll |-> v, romObj |-> temp[w].romObj, libObj |-> temp[w].libObj]
      /\ [temp[w] EXCEPT !["romObj"] = v] = [owner |-> r, ll |-> temp[w].ll, romObj |-> v, libObj |-> temp[w].libObj]
      /\ [temp[w] EXCEPT !["libObj"] = v] = [owner |-> r, ll |-> temp[w].ll, romObj |-> temp[w].romObj, libObj |-> v]
  BY <1>5
<1>9. pc[r] \in {"generate", "opt"} =>
            temp'[w] = [owner |-> r, ll |-> v, romObj |-> temp[w].romObj, libObj |-> temp[w].libObj]
  <2>1. CASE pc[r] = "generate"
    BY <2>1, <1>6, <1>7, <1>8
  <2>2. CASE pc[r] = "opt"
    BY <2>2, <1>6, <1>7, <1>8
  <2> QED
    BY <2>1, <2>2
<1>10. pc[r] = "compile" =>
            temp'[w] = [owner |-> r, ll |-> temp[w].ll, romObj |-> v, libObj |-> temp[w].libObj]
  BY <1>6, <1>7, <1>8
<1>11. pc[r] = "compileRuntime" =>
            temp'[w] = [owner |-> r, ll |-> temp[w].ll, romObj |-> temp[w].romObj, libObj |-> v]
  BY <1>6, <1>7, <1>8
<1>12. /\ pc[r] = "generate" => pc'[r] = "opt"
       /\ pc[r] = "opt" => pc'[r] = "save"
       /\ pc[r] = "compile" => pc'[r] = "compileRuntime"
       /\ pc[r] = "compileRuntime" => pc'[r] = "link"
  BY <1>6, <1>7
<1> HIDE DEF Written
<1>13. /\ pc[r] = "generate" => v = Generated(r)
       /\ pc[r] \in {"opt", "compile"} => v = Optimized(r)
       /\ pc[r] = "compileRuntime" => v = Library(r)
       /\ pc[r] \in {"generate", "opt", "compile", "compileRuntime"}
  BY <1>6
<1>14. /\ pc[r] \in {"generate", "opt"} => temp'[w].ll = v
       /\ pc[r] \in {"compile", "compileRuntime"} => temp'[w].ll = temp[w].ll
       /\ pc[r] = "compile" => temp'[w].romObj = v
       /\ pc[r] = "compileRuntime" => temp'[w].romObj = temp[w].romObj /\ temp'[w].libObj = v
  BY <1>9, <1>10, <1>11
<1>15. /\ temp'[w].owner = r
       /\ temp'[w] = [owner |-> r, ll |-> temp'[w].ll, romObj |-> temp'[w].romObj, libObj |-> temp'[w].libObj]
  BY <1>9, <1>10, <1>11, <1>13
<1>16. TypeOK'
  <2>1. pc' \in [RUNS -> Steps]
    BY DEF IInv, TypeOK, Steps, Working
  <2>2. \A n \in DOMAIN temp' :
           temp'[n] = [owner |-> temp'[n].owner, ll |-> temp'[n].ll, romObj |-> temp'[n].romObj, libObj |-> temp'[n].libObj]
    <3>1. ASSUME NEW n \in DOMAIN temp'
          PROVE  temp'[n] = [owner |-> temp'[n].owner, ll |-> temp'[n].ll,
                             romObj |-> temp'[n].romObj, libObj |-> temp'[n].libObj]
      <4>1. CASE n = w
        BY <4>1, <1>15
      <4>2. CASE n # w
        BY <4>2, <1>4 DEF IInv, TypeOK
      <4> QED
        BY <4>1, <4>2
    <3> QED
      BY <3>1
  <2> QED
    BY <1>4, <2>1, <2>2 DEF IInv, TypeOK
<1>17. Made'
  <2>1. ASSUME NEW q \in RUNS
        PROVE  /\ pc'[q] \in Early => work[q] = None /\ runtimeDir[q] = None
               /\ pc'[q] \in Working => work[q] \in NAMES
               /\ pc'[q] \in Working \ Built => runtimeDir[q] = None
               /\ pc'[q] \in Built => runtimeDir[q] \in NAMES
    <3>1. CASE q = r
      <4>1. pc'[r] \notin Early
        BY <1>2 DEF Early, Working
      <4>2. work[r] \in NAMES
        BY <1>3
      <4>3. pc'[r] \in Built => pc[r] \in Built
        BY <1>1, <1>12, <1>13 DEF Built
      <4>4. pc'[r] \in Working \ Built => pc[r] \in Working \ Built
        BY <1>2, <1>1, <1>12, <1>13 DEF Built
      <4> QED
        BY <3>1, <4>1, <4>2, <4>3, <4>4 DEF IInv, Made
    <3>2. CASE q # r
      BY <3>2, <1>2 DEF IInv, Made
    <3> QED
      BY <3>1, <3>2
  <2> QED
    BY <2>1 DEF Made
<1>18. Directories'
  <2>1. ASSUME NEW q \in RUNS
        PROVE  {n \in DOMAIN temp' : temp'[n].owner = q} = {n \in DOMAIN temp : temp[n].owner = q}
    BY <1>3, <1>4, <1>15
  <2> QED
    BY <1>2, <2>1 DEF IInv, Directories, Working
<1>19. Contents'
  <2> DEFINE Holds(q) ==
                LET dir == temp'[work'[q]]
                    own == Optimized(q)
                IN  /\ pc'[q] = "opt" => dir.ll = Generated(q)
                    /\ pc'[q] \in Working \ {"generate", "opt"} => dir.ll = own
                    /\ pc'[q] \in {"compileRuntime", "link"} => dir.romObj = own
                    /\ pc'[q] = "link" => dir.libObj = Library(q)
  <2>1. ASSUME NEW q \in RUNS \ {r}, pc[q] \in Working PROVE temp'[work[q]] = temp[work[q]]
    BY <2>1, <1>3, <1>4, WorkExists
  <2>2. ASSUME NEW q \in RUNS \ {r}, pc'[q] \in Working PROVE Holds(q)
    BY <1>2, <2>1, <2>2 DEF IInv, Contents
  <2>3. /\ pc[r] \in Working \ {"generate", "opt"} => temp[w].ll = Optimized(r)
        /\ pc[r] = "compileRuntime" => temp[w].romObj = Optimized(r)
    BY <1>2 DEF IInv, Contents
  <2>4. work'[r] = w /\ pc \in [RUNS -> Steps]
    BY DEF IInv, TypeOK
  <2>5. Holds(r)
    <3>1. CASE pc[r] = "generate"
      <4>1. pc'[r] = "opt" /\ temp'[w].ll = Generated(r)
        BY <3>1, <1>1, <1>12, <1>13, <1>14
      <4> QED
        BY <4>1, <2>4
    <3>2. CASE pc[r] = "opt"
      <4>1. pc'[r] = "save" /\ temp'[w].ll = Optimized(r)
        BY <3>2, <1>1, <1>12, <1>13, <1>14
      <4> QED
        BY <4>1, <2>4
    <3>3. CASE pc[r] = "compile"
      <4>1. /\ pc'[r] = "compileRuntime"
            /\ temp'[w].ll = Optimized(r) /\ temp'[w].romObj = Optimized(r)
        BY <2>3, <3>3, <1>2, <1>12, <1>13, <1>14 DEF Working
      <4> QED
        BY <4>1, <2>4
    <3>4. CASE pc[r] = "compileRuntime"
      <4>1. /\ pc'[r] = "link" /\ temp'[w].ll = Optimized(r)
            /\ temp'[w].romObj = Optimized(r) /\ temp'[w].libObj = Library(r)
        BY <2>3, <3>4, <1>2, <1>12, <1>13, <1>14 DEF Working
      <4> QED
        BY <4>1, <2>4
    <3> QED
      BY <3>1, <3>2, <3>3, <3>4, <1>13
  <2> QED
    BY <2>2, <2>5 DEF Contents
<1> QED
  BY <1>16, <1>17, <1>18, <1>19 DEF IInv

\* A run that returns removes its directories.
LEMMA FinishStep ==
    ASSUME IInv, NEW r \in RUNS, pc[r] \in {"save", "return"}, finish(r), UNCHANGED <<work, runtimeDir>>
    PROVE  IInv'
<1>1. pc'[r] = "ok" /\ pc' = [pc EXCEPT ![r] = "ok"] /\ \A q \in RUNS \ {r} : pc'[q] = pc[q]
  BY DEF IInv, TypeOK, finish, Goto
<1>2. /\ DOMAIN temp' = DOMAIN temp \ {work[r], runtimeDir[r]}
      /\ \A n \in DOMAIN temp' : temp'[n] = temp[n]
      /\ temp' = [n \in DOMAIN temp' |-> temp'[n]]
  BY DEF finish, RemoveAll
<1>3. {n \in DOMAIN temp : temp[n].owner = r} = {work[r], runtimeDir[r]} \ {None}
  BY DEF IInv, Directories
<1>4. None \notin DOMAIN temp
  BY PipelineAssumption DEF IInv, TypeOK
<1>5. TypeOK'
  BY <1>1, <1>2 DEF IInv, TypeOK, Steps
<1>6. Made'
  BY <1>1 DEF IInv, Made, Early, Working, Built
<1>7. \A q \in RUNS \ {r} : {n \in DOMAIN temp' : temp'[n].owner = q} = {n \in DOMAIN temp : temp[n].owner = q}
  BY <1>2, <1>3, <1>4
<1>8. {n \in DOMAIN temp' : temp'[n].owner = r} = {}
  BY <1>2, <1>3, <1>4
<1>9. Directories'
  BY <1>1, <1>7, <1>8 DEF IInv, Directories
<1>10. Contents'
  <2>1. ASSUME NEW q \in RUNS \ {r}, pc[q] \in Working PROVE temp'[work[q]] = temp[work[q]]
    <3>1. work[q] \in DOMAIN temp /\ temp[work[q]].owner = q
      BY <2>1, WorkExists
    <3> QED
      BY <3>1, <1>2, <1>3, <1>4
  <2> QED
    BY <1>1, <2>1 DEF IInv, Contents, Working
<1> QED
  BY <1>5, <1>6, <1>9, <1>10 DEF IInv
\* Every step keeps the invariant.
LEMMA NextHolds == IInv /\ [Next]_vars => IInv'
<1> SUFFICES ASSUME IInv, [Next]_vars PROVE IInv'
  OBVIOUS
<1>1. ASSUME NEW r \in RUNS, Run(r) PROVE IInv'
  <2>1. CASE must(r)
    BY <2>1, QuietStep DEF must, Goto, Keep, Steps
  <2>2. CASE parseFlags(r)
    <3>1. CASE scenario.options[r].profile
      BY <2>2, <3>1, QuietStep DEF parseFlags, At, Goto, Keep, Steps, Early
    <3>2. CASE ~scenario.options[r].profile
      BY <2>2, <3>2, QuietStep DEF parseFlags, At, Goto, Keep, Steps, Early
    <3> QED
      BY <3>1, <3>2
  <2>3. CASE open(r)
    BY <2>3, QuietStep DEF open, Goto, Keep, Steps, Early
  <2>4. CASE read(r)
    <3>1. CASE Refilled(buf[r], file) # buf[r]
      BY <2>4, <3>1, StutterKeeps DEF read, At, built_vars
    <3>2. CASE Refilled(buf[r], file) = buf[r]
      BY <2>4, <3>2, QuietStep DEF read, At, Goto, Steps, Early
    <3> QED
      BY <3>1, <3>2
  <2>5. CASE analyze(r)
    BY <2>5, MakeStep DEF analyze, At, Goto
  <2>6. CASE generate(r)
    <3>1. Put(work[r], "ll", Generated(r))
      BY <2>6 DEF generate, Generated
    <3> QED
      BY <2>6, <3>1, PutStep DEF generate, At, Goto, Keep
  <2>7. CASE opt(r)
    <3>1. InWork(r, "ll") = Generated(r)
      BY <2>7, WorkExists DEF opt, At, InWork, IInv, Contents, Working
    <3>2. [Generated(r) EXCEPT !.optimized = TRUE] = Optimized(r)
      <4>1. ASSUME NEW old, NEW new
            PROVE  [[by |-> r, optimized |-> old] EXCEPT !.optimized = new] = [by |-> r, optimized |-> new]
        OBVIOUS
      <4> QED
        BY <4>1, Zenon DEF Generated, Optimized
    <3>3. Put(work[r], "ll", Optimized(r))
      BY <2>7, <3>1, <3>2 DEF opt
    <3> QED
      BY <2>7, <3>3, PutStep DEF opt, At, Goto, Keep
  <2>8. CASE save(r)
    <3>1. CASE scenario.options[r].onlyIR
      BY <2>8, <3>1, FinishStep DEF save, At, Keep
    <3>2. CASE ~scenario.options[r].onlyIR
      BY <2>8, <3>2, QuietStep DEF save, At, Goto, Keep, Steps, Working
    <3> QED
      BY <3>1, <3>2
  <2>9. CASE extractRuntime(r)
    <3>1. CASE Goto(r, "failed") /\ UNCHANGED <<temp, runtimeDir>>
      BY <2>9, <3>1, QuietStep DEF extractRuntime, At, Goto, Steps
    <3>2. CASE ~(Goto(r, "failed") /\ UNCHANGED <<temp, runtimeDir>>)
      BY <2>9, <3>2, MakeStep DEF extractRuntime, At, Goto
    <3> QED
      BY <3>1, <3>2
  <2>10. CASE compile(r)
    <3>1. InWork(r, "ll") = Optimized(r)
      BY <2>10, WorkExists DEF compile, At, InWork, IInv, Contents, Working
    <3>2. Put(work[r], "romObj", Optimized(r))
      BY <2>10, <3>1 DEF compile
    <3> QED
      BY <2>10, <3>2, PutStep DEF compile, At, Goto, Keep
  <2>11. CASE compileRuntime(r)
    <3>1. temp[runtimeDir[r]].owner = r
      BY <2>11, WorkExists, PipelineAssumption DEF compileRuntime, At, IInv, TypeOK, Working
    <3>2. Put(work[r], "libObj", Library(r))
      BY <2>11, <3>1 DEF compileRuntime, Library
    <3> QED
      BY <2>11, <3>2, PutStep DEF compileRuntime, At, Goto, Keep
  <2>12. CASE link(r)
    <3>1. CASE Goto(r, "return")
      BY <2>12, <3>1, QuietStep DEF link, At, Goto, Keep, Steps, Working
    <3>2. CASE Goto(r, "failed")
      BY <2>12, <3>2, QuietStep DEF link, At, Goto, Keep, Steps
    <3> QED
      BY <2>12, <3>1, <3>2 DEF link
  <2>13. CASE return(r)
    BY <2>13, FinishStep DEF return, At, Keep
  <2> QED
    BY <1>1, <2>1, <2>2, <2>3, <2>4, <2>5, <2>6, <2>7, <2>8, <2>9, <2>10, <2>11, <2>12, <2>13 DEF Run
<1>2. CASE start \/ (\E a \in RECORDED : profile_record(a)) \/ profile_dump \/ flush \/ stop
  BY <1>2, StutterKeeps
  DEF start, profile_record, profile_dump, flush, stop, Others, run_vars, built_vars
<1>3. CASE UNCHANGED vars
  BY <1>3, StutterKeeps DEF vars, run_vars, built_vars
<1> QED
  BY <1>1, <1>2, <1>3 DEF Next

\* The output directory holds a binary and the saved IR.
OutOK == DOMAIN out = {"binary", "ll"}

LEMMA OutKept == Spec => []OutOK
<1>1. Init => OutOK
  BY DEF Init, OutOK
<1>2. OutOK /\ [Next]_vars => OutOK'
  <2> SUFFICES ASSUME OutOK, [Next]_vars PROVE OutOK'
    OBVIOUS
  <2>1. ASSUME NEW r \in RUNS, save(r) \/ link(r) PROVE OutOK'
    BY <2>1 DEF save, link, OutOK
  <2>2. ASSUME NEW r \in RUNS, Run(r), ~save(r), ~link(r) PROVE out' = out
    BY <2>2 DEF Run, must, parseFlags, open, read, analyze, generate, opt, extractRuntime, compile, compileRuntime, return
  <2>3. CASE start \/ (\E a \in RECORDED : profile_record(a)) \/ profile_dump \/ flush \/ stop
    BY <2>3 DEF start, profile_record, profile_dump, flush, stop, Others, OutOK
  <2>4. CASE UNCHANGED vars
    BY <2>4 DEF vars, OutOK
  <2> QED
    BY <2>1, <2>2, <2>3, <2>4 DEF Next, OutOK
<1> QED
  BY <1>1, <1>2, PTL DEF Spec

\* What a run links and saves in a step is its own.
LEMMA StepOwn ==
    ASSUME IInv, OutOK, NEW r \in RUNS
    PROVE  /\ link(r) /\ pc'[r] = "return" => out'.binary = [rom |-> Optimized(r), lib |-> Library(r)]
           /\ save(r) /\ out' # out => out'.ll = Optimized(r)
<1>1. ASSUME link(r), pc'[r] = "return" PROVE out'.binary = [rom |-> Optimized(r), lib |-> Library(r)]
  <2>1. pc[r] = "link" /\ InWork(r, "romObj") = Optimized(r) /\ InWork(r, "libObj") = Library(r)
    BY <1>1, WorkExists DEF link, At, InWork, IInv, Contents, Working
  <2>2. pc' # [pc EXCEPT ![r] = "failed"]
    BY <1>1 DEF IInv, TypeOK
  <2> QED
    BY <1>1, <2>1, <2>2 DEF link, Goto, OutOK
<1>2. ASSUME save(r), out' # out PROVE out'.ll = Optimized(r)
  <2>1. InWork(r, "ll") = Optimized(r)
    BY <1>2, WorkExists DEF save, At, InWork, IInv, Contents, Working
  <2> QED
    BY <1>2, <2>1 DEF save, OutOK
<1> QED
  BY <1>1, <1>2

LEMMA Invariant == Spec => []IInv
BY InitHolds, NextHolds, PTL DEF Spec

\* A run never loses a directory before its end, leaves none behind when it succeeds, and
\* when it fails at most the two it made (MkdirTemp and the deferred RemoveAll), for
\* any number of runs.
THEOREM DirectoriesKept == Spec => []Directories
<1>1. IInv => Directories
  BY DEF IInv
<1> QED
  BY <1>1, Invariant, PTL

\* What a run links and saves it made itself, whatever other runs do meanwhile (link, save),
\* for any number of runs.
THEOREM RunsKeepApart == Spec => OwnBuild
<1>1. IInv /\ OutOK => \A r \in RUNS :
        /\ link(r) /\ pc'[r] = "return" => out'.binary = [rom |-> [by |-> r, optimized |-> TRUE], lib |-> [by |-> r]]
        /\ save(r) /\ out' # out => out'.ll = [by |-> r, optimized |-> TRUE]
  BY StepOwn DEF Optimized, Library
<1> QED
  BY <1>1, Invariant, OutKept, PTL DEF OwnBuild
-----------------------------------------------------------------------------
(* Lines and bytes *)

\* Induction, for a set instead of a predicate.
LEMMA NatSetInduction ==
    ASSUME NEW S, 0 \in S, \A n \in Nat : n \in S => n + 1 \in S
    PROVE  \A n \in Nat : n \in S
<1> DEFINE R == OpToRel(<, Nat)
           T == Nat \ S
<1>1. IsWellFoundedOn(R, Nat)
  BY NatLessThanWellFounded
<1>2. \A i, j \in Nat : i < j => <<i, j>> \in R
  BY DEF OpToRel
<1> HIDE DEF R
<1>3. ASSUME T # {} PROVE FALSE
  <2>1. PICK x \in T : \A y \in T : ~ (<<y, x>> \in R)
    BY <1>1, <1>3, WFMin
  <2>2. x \in Nat /\ x # 0
    OBVIOUS
  <2>3. x - 1 \in Nat /\ x - 1 < x
    BY <2>2
  <2>4. x - 1 \notin T
    BY <2>1, <2>2, <2>3, <1>2
  <2>5. (x - 1) + 1 \in S
    BY <2>3, <2>4
  <2> QED
    BY <2>2, <2>5
<1> QED
  BY <1>3

LEMMA Sizes ==
    /\ DIGITS \in Nat /\ DIGITS >= 1 /\ WIDTH \in Nat /\ WIDTH = DIGITS + 1
    /\ BASE \in Nat /\ BASE >= 2 /\ EOL = BASE /\ CHUNK \in Nat /\ CHUNK >= 1 /\ ROM_END \in Nat
BY ProfileAssumption DEF WIDTH, EOL

\* A multiple that is not zero is at least one.
LEMMA AtLeastOnce ==
    ASSUME NEW d \in Nat \ {0}, NEW q \in Int, q >= 1
    PROVE  d * q >= d
OBVIOUS

\* Lines do not overlap: of two, all of one lies before the other.
LEMMA LinesApart ==
    ASSUME NEW i \in Int, NEW j \in Int, i < j
    PROVE  /\ i * WIDTH \in Int /\ j * WIDTH \in Int
           /\ i * WIDTH + WIDTH <= j * WIDTH
<1> DEFINE w == WIDTH
<1>1. w \in Nat \ {0}
  BY Sizes
<1> HIDE DEF w
<1>2. w * (j - i) >= w
  BY <1>1, AtLeastOnce
<1>3. w * (j - i) = j * w - i * w /\ i * w \in Int /\ j * w \in Int
  BY <1>1
<1>4. i * w + w <= j * w
  BY <1>1, <1>2, <1>3
<1> QED
  BY <1>3, <1>4 DEF w

\* The line a byte lies in.
LEMMA LineOfByte ==
    ASSUME NEW e \in Nat
    PROVE  /\ e \div WIDTH \in Nat /\ (e \div WIDTH) * WIDTH \in Nat /\ e % WIDTH \in Nat /\ e % WIDTH < WIDTH
           /\ e = (e \div WIDTH) * WIDTH + (e % WIDTH)
<1> DEFINE w == WIDTH
           q == e \div w
           r == e % w
<1>1. w \in Nat \ {0}
  BY Sizes
<1>2. /\ q \in Int /\ r \in Nat /\ r < w
      /\ e = w * q + r
  <2> HIDE DEF w
  <2> QED
    BY <1>1
<1> HIDE DEF w, q, r
<1>3. w * q = q * w /\ q * w \in Int
  BY <1>1, <1>2
<1>4. q \in Nat
  <2>1. CASE q <= 0 - 1
    <3>1. w * (0 - q) >= w
      BY <1>1, <1>2, <2>1, AtLeastOnce
    <3>2. w * (0 - q) = 0 - w * q
      BY <1>1, <1>2
    <3> QED
      BY <1>1, <1>2, <3>1, <3>2
  <2> QED
    BY <1>2, <2>1
<1>5. q * w \in Nat
  BY <1>1, <1>4
<1> QED
  BY <1>1, <1>2, <1>3, <1>4, <1>5 DEF w, q, r

LEMMA LineIs ==
    ASSUME NEW i \in Nat, NEW n \in Nat, n < WIDTH
    PROVE  /\ i * WIDTH \in Nat /\ (i * WIDTH + n) \div WIDTH = i /\ (i * WIDTH + n) % WIDTH = n
<1> DEFINE e == i * WIDTH + n
           q == e \div WIDTH
           r == e % WIDTH
<1>1. WIDTH \in Nat
  BY Sizes
<1>2. i * WIDTH \in Nat
  BY <1>1
<1>3. e \in Nat
  BY <1>2
<1>4. q \in Nat /\ q * WIDTH \in Nat /\ r \in Nat /\ r < WIDTH /\ e = q * WIDTH + r
  BY <1>3, LineOfByte
<1> HIDE DEF q, r
<1>5. ~(i < q)
  <2>1. ASSUME i < q PROVE FALSE
    <3>1. i * WIDTH + WIDTH <= q * WIDTH
      BY <1>4, <2>1, LinesApart
    <3> QED
      BY <1>1, <1>2, <1>4, <3>1
  <2> QED
    BY <2>1
<1>6. ~(q < i)
  <2>1. ASSUME q < i PROVE FALSE
    <3>1. q * WIDTH + WIDTH <= i * WIDTH
      BY <1>4, <2>1, LinesApart
    <3> QED
      BY <1>1, <1>2, <1>4, <3>1
  <2> QED
    BY <2>1
<1>7. q = i
  BY <1>4, <1>5, <1>6
<1>8. r = n
  BY <1>2, <1>4, <1>7
<1> QED
  BY <1>2, <1>7, <1>8 DEF q, r

\* A line that begins before the end of a buffer is whole, unless the end lies in it.
LEMMA WholeLine ==
    ASSUME NEW e \in Nat, NEW i \in Nat, i * WIDTH < e, i # e \div WIDTH
    PROVE  i * WIDTH + WIDTH <= e /\ i * WIDTH \in Nat
<1> DEFINE q == e \div WIDTH
           r == e % WIDTH
<1>1. q \in Nat /\ q * WIDTH \in Nat /\ r \in Nat /\ r < WIDTH /\ e = q * WIDTH + r
  BY LineOfByte
<1>2. WIDTH \in Nat
  BY Sizes
<1>3. i * WIDTH \in Nat
  BY <1>2
<1>4. i # q
  OBVIOUS
<1> HIDE DEF q, r
<1>5. CASE i < q
  <2>1. i * WIDTH + WIDTH <= q * WIDTH
    BY <1>1, <1>5, LinesApart
  <2> QED
    BY <1>1, <1>2, <1>3, <2>1
<1>6. CASE q < i
  <2>1. q * WIDTH + WIDTH <= i * WIDTH
    BY <1>1, <1>6, LinesApart
  <2> QED
    BY <1>1, <1>2, <1>3, <2>1
<1> QED
  BY <1>1, <1>4, <1>5, <1>6

LEMMA MinIs ==
    ASSUME NEW a \in Int, NEW b \in Int
    PROVE  Min({a, b}) = IF a <= b THEN a ELSE b
<1>1. CASE a <= b
  BY <1>1 DEF Min
<1>2. CASE ~(a <= b)
  BY <1>2 DEF Min
<1> QED
  BY <1>1, <1>2

-----------------------------------------------------------------------------
(* Digits: what is written for an address is read as that address *)

RestOf(a, k, f) == [n \in 0..k |-> IF n = 0 THEN a ELSE f[n - 1] \div BASE]

LEMMA RestDefined == ASSUME NEW a, NEW k \in Nat PROVE \E f : f = RestOf(a, k, f)
<1> DEFINE S == {n \in Nat : \E f : f = RestOf(a, n, f)}
<1>1. 0 \in S
  <2> DEFINE f == [j \in 0..0 |-> a]
  <2>1. f = RestOf(a, 0, f)
    BY DEF RestOf
  <2> QED BY <2>1
<1>2. ASSUME NEW n \in Nat, n \in S PROVE n + 1 \in S
  <2>1. PICK f : f = RestOf(a, n, f)
    BY <1>2
  <2>2. f = [j \in 0..n |-> IF j = 0 THEN a ELSE f[j - 1] \div BASE]
    BY <2>1 DEF RestOf
  <2> DEFINE g == [j \in 0..n + 1 |-> IF j = n + 1 THEN f[n] \div BASE ELSE f[j]]
  <2>3. ASSUME NEW j \in 0..n + 1 PROVE g[j] = IF j = 0 THEN a ELSE g[j - 1] \div BASE
    <3>1. CASE j = n + 1
      <4>1. j # 0 /\ j - 1 = n /\ n \in 0..n + 1 /\ n # n + 1
        BY <3>1
      <4>2. g[j - 1] = f[n] /\ g[j] = f[n] \div BASE
        BY <3>1, <4>1
      <4> QED BY <4>1, <4>2
    <3>2. CASE j # n + 1 /\ j = 0
      <4>1. 0 \in 0..n
        OBVIOUS
      <4>2. f[0] = a
        BY <2>2, <4>1
      <4> QED BY <3>2, <4>2
    <3>3. CASE j # n + 1 /\ j # 0
      <4>1. j \in 0..n /\ j - 1 \in 0..n + 1 /\ j - 1 # n + 1
        BY <3>3
      <4>2. f[j] = f[j - 1] \div BASE
        BY <2>2, <3>3, <4>1
      <4>3. g[j] = f[j] /\ g[j - 1] = f[j - 1]
        BY <3>3, <4>1
      <4> QED BY <3>3, <4>2, <4>3
    <3> QED BY <3>1, <3>2, <3>3
  <2>4. g = [j \in 0..n + 1 |-> IF j = 0 THEN a ELSE g[j - 1] \div BASE]
    BY <2>3
  <2> HIDE DEF g
  <2>5. g = RestOf(a, n + 1, g)
    BY <2>4 DEF RestOf
  <2> QED BY <2>5
<1> HIDE DEF S
<1>3. \A n \in Nat : n \in S
  BY <1>1, <1>2, NatSetInduction
<1> QED BY <1>3 DEF S

\* Each step leaves one digit less.
LEMMA ShiftedTurn ==
    ASSUME NEW a
    PROVE  LET c == Shifted(a)
           IN  c[0] = a /\ \A n \in Nat : n + 1 <= DIGITS => c[n + 1] = c[n] \div BASE
<1> DEFINE c == Shifted(a)
<1>1. DIGITS \in Nat
  BY Sizes
<1>2. Shifted(a) = CHOOSE f : f = RestOf(a, DIGITS, f)
  BY DEF Shifted, RestOf
<1>3. c = RestOf(a, DIGITS, c)
  BY <1>1, <1>2, RestDefined
<1> HIDE DEF c
<1>4. c[0] = a
  <2>1. 0 \in 0..DIGITS
    BY <1>1
  <2>2. c[0] = RestOf(a, DIGITS, c)[0]
    BY <1>3
  <2> QED BY <2>1, <2>2 DEF RestOf
<1>5. ASSUME NEW n \in Nat, n + 1 <= DIGITS PROVE c[n + 1] = c[n] \div BASE
  <2>1. n + 1 \in 0..DIGITS /\ n + 1 # 0 /\ (n + 1) - 1 = n
    BY <1>1, <1>5
  <2>2. c[n + 1] = RestOf(a, DIGITS, c)[n + 1]
    BY <1>3
  <2> QED BY <2>1, <2>2 DEF RestOf
<1> QED BY <1>4, <1>5 DEF c

\* A digit is what is lost.
LEMMA Euclid ==
    ASSUME NEW x \in Nat
    PROVE  /\ x \div BASE \in Nat /\ x % BASE \in Nat /\ x % BASE < BASE
           /\ (x \div BASE) * BASE + (x % BASE) = x
<1> DEFINE b == BASE
           q == x \div b
           r == x % b
<1>1. b \in Nat \ {0}
  BY Sizes
<1>2. q \in Int /\ r \in Nat /\ r < b /\ x = b * q + r
  <2> HIDE DEF b
  <2> QED
    BY <1>1
<1> HIDE DEF b, q, r
<1>3. b * q = q * b /\ q * b \in Int
  BY <1>1, <1>2
<1>4. q \in Nat
  <2>1. CASE q <= 0 - 1
    <3>1. b * (0 - q) >= b
      BY <1>1, <1>2, <2>1, AtLeastOnce
    <3>2. b * (0 - q) = 0 - b * q
      BY <1>1, <1>2
    <3> QED
      BY <1>1, <1>2, <3>1, <3>2
  <2> QED
    BY <1>2, <2>1
<1> QED
  BY <1>2, <1>3, <1>4 DEF b, q, r

LEMMA ShiftedType == ASSUME NEW a \in Nat PROVE \A n \in Nat : n <= DIGITS => Shifted(a)[n] \in Nat
<1> DEFINE c == Shifted(a)
           S == {n \in Nat : n <= DIGITS => c[n] \in Nat}
<1>0. /\ c[0] = a
      /\ \A n \in Nat : n + 1 <= DIGITS => c[n + 1] = c[n] \div BASE
  BY ShiftedTurn
<1> HIDE DEF c
<1>1. 0 \in S
  BY <1>0
<1>2. ASSUME NEW n \in Nat, n \in S PROVE n + 1 \in S
  <2> SUFFICES ASSUME n + 1 <= DIGITS PROVE c[n + 1] \in Nat
    OBVIOUS
  <2>1. c[n] \in Nat
    BY <1>2, Sizes
  <2>2. c[n + 1] = c[n] \div BASE
    BY <1>0
  <2> QED BY <2>1, <2>2, Euclid
<1> HIDE DEF S
<1>3. \A n \in Nat : n \in S
  BY <1>1, <1>2, NatSetInduction
<1> QED BY <1>3 DEF S, c

ValueOf(buffer, i, k, f) ==
    [n \in 0..k |-> IF n = 0 THEN 0
                    ELSE IF (i * WIDTH) + n > Len(buffer) THEN f[n - 1]
                    ELSE (f[n - 1] * BASE) + buffer[(i * WIDTH) + n]]

LEMMA ValueDefined == ASSUME NEW buffer, NEW i, NEW k \in Nat PROVE \E f : f = ValueOf(buffer, i, k, f)
<1> DEFINE S == {n \in Nat : \E f : f = ValueOf(buffer, i, n, f)}
           more(f, j) == IF (i * WIDTH) + j > Len(buffer) THEN f[j - 1] ELSE (f[j - 1] * BASE) + buffer[(i * WIDTH) + j]
<1>0. \A n, f : ValueOf(buffer, i, n, f) = [j \in 0..n |-> IF j = 0 THEN 0 ELSE more(f, j)]
  BY DEF ValueOf
<1>1. 0 \in S
  <2> DEFINE f == [j \in 0..0 |-> 0]
  <2>1. f = ValueOf(buffer, i, 0, f)
    BY DEF ValueOf
  <2> QED BY <2>1
<1>2. ASSUME NEW n \in Nat, n \in S PROVE n + 1 \in S
  <2>1. PICK f : f = ValueOf(buffer, i, n, f)
    BY <1>2
  <2>2. f = [j \in 0..n |-> IF j = 0 THEN 0 ELSE more(f, j)]
    BY <1>0, <2>1
  <2> DEFINE g == [j \in 0..n + 1 |-> IF j = n + 1 THEN more(f, n + 1) ELSE f[j]]
  <2>6. ASSUME NEW j, NEW h1, NEW h2, h1[j - 1] = h2[j - 1] PROVE more(h1, j) = more(h2, j)
    BY <2>6
  <2> HIDE DEF more
  <2>3. ASSUME NEW j \in 0..n + 1 PROVE g[j] = IF j = 0 THEN 0 ELSE more(g, j)
    <3>1. CASE j = n + 1
      <4>1. j # 0 /\ j - 1 = n /\ n \in 0..n + 1 /\ n # n + 1
        BY <3>1
      <4>2. g[j - 1] = f[j - 1] /\ g[j] = more(f, j)
        BY <3>1, <4>1
      <4> HIDE DEF g
      <4>3. more(g, j) = more(f, j)
        BY <2>6, <4>2
      <4> QED BY <4>1, <4>2, <4>3
    <3>2. CASE j # n + 1 /\ j = 0
      <4>1. 0 \in 0..n
        OBVIOUS
      <4>2. f[0] = 0
        BY <2>2, <4>1
      <4> QED BY <3>2, <4>2
    <3>3. CASE j # n + 1 /\ j # 0
      <4>1. j \in 0..n /\ j - 1 \in 0..n + 1 /\ j - 1 # n + 1
        BY <3>3
      <4>2. f[j] = more(f, j)
        BY <2>2, <3>3, <4>1
      <4>3. g[j] = f[j] /\ g[j - 1] = f[j - 1]
        BY <3>3, <4>1
      <4> HIDE DEF g
      <4>4. more(g, j) = more(f, j)
        BY <2>6, <4>3
      <4> QED BY <3>3, <4>2, <4>3, <4>4
    <3> QED BY <3>1, <3>2, <3>3
  <2>4. g = [j \in 0..n + 1 |-> IF j = 0 THEN 0 ELSE more(g, j)]
    BY <2>3
  <2> HIDE DEF g
  <2>5. g = ValueOf(buffer, i, n + 1, g)
    BY <1>0, <2>4
  <2> QED BY <2>5
<1> HIDE DEF S
<1>3. \A n \in Nat : n \in S
  BY <1>1, <1>2, NatSetInduction
<1> QED BY <1>3 DEF S

\* The digits are added up from the first to the last.
LEMMA NumberTurn ==
    ASSUME NEW buffer, NEW i
    PROVE  \E v : /\ Number(buffer, i) = v[DIGITS]
                  /\ v[0] = 0
                  /\ \A n \in Nat : n + 1 <= DIGITS =>
                        v[n + 1] = IF (i * WIDTH) + (n + 1) > Len(buffer) THEN v[n]
                                   ELSE (v[n] * BASE) + buffer[(i * WIDTH) + (n + 1)]
<1> DEFINE v == CHOOSE f : f = ValueOf(buffer, i, DIGITS, f)
<1>1. DIGITS \in Nat
  BY Sizes
<1>2. Number(buffer, i) = v[DIGITS]
  BY DEF Number, ValueOf
<1>3. v = ValueOf(buffer, i, DIGITS, v)
  BY <1>1, ValueDefined
<1> HIDE DEF v
<1>4. v[0] = 0
  <2>1. 0 \in 0..DIGITS
    BY <1>1
  <2>2. v[0] = ValueOf(buffer, i, DIGITS, v)[0]
    BY <1>3
  <2> QED BY <2>1, <2>2 DEF ValueOf
<1>5. ASSUME NEW n \in Nat, n + 1 <= DIGITS
      PROVE  v[n + 1] = IF (i * WIDTH) + (n + 1) > Len(buffer) THEN v[n]
                        ELSE (v[n] * BASE) + buffer[(i * WIDTH) + (n + 1)]
  <2>1. n + 1 \in 0..DIGITS /\ n + 1 # 0 /\ (n + 1) - 1 = n
    BY <1>1, <1>5
  <2>2. v[n + 1] = ValueOf(buffer, i, DIGITS, v)[n + 1]
    BY <1>3
  <2> QED BY <2>1, <2>2 DEF ValueOf
<1> QED BY <1>2, <1>4, <1>5


\* Bytes are naturals, and so is what is read of them.
LEMMA NumberType == ASSUME NEW buffer \in Seq(Nat), NEW i \in Nat PROVE Number(buffer, i) \in Nat
<1>1. PICK v : /\ Number(buffer, i) = v[DIGITS]
               /\ v[0] = 0
               /\ \A n \in Nat : n + 1 <= DIGITS =>
                     v[n + 1] = IF (i * WIDTH) + (n + 1) > Len(buffer) THEN v[n]
                                ELSE (v[n] * BASE) + buffer[(i * WIDTH) + (n + 1)]
  BY NumberTurn
<1> DEFINE S == {n \in Nat : n <= DIGITS => v[n] \in Nat}
<1>2. 0 \in S
  BY <1>1
<1>3. ASSUME NEW n \in Nat, n \in S PROVE n + 1 \in S
  <2> SUFFICES ASSUME n + 1 <= DIGITS PROVE v[n + 1] \in Nat
    OBVIOUS
  <2> DEFINE k == (i * WIDTH) + (n + 1)
  <2>1. v[n] \in Nat
    BY <1>3, Sizes
  <2>2. k \in Nat /\ k >= 1
    <3>1. i * WIDTH \in Nat
      BY Sizes
    <3> QED BY <3>1
  <2>3. v[n + 1] = IF k > Len(buffer) THEN v[n] ELSE (v[n] * BASE) + buffer[k]
    BY <1>1
  <2> HIDE DEF k
  <2>4. CASE k > Len(buffer)
    BY <2>1, <2>3, <2>4
  <2>5. CASE ~(k > Len(buffer))
    <3>1. buffer[k] \in Nat
      BY <2>2, <2>5
    <3>2. v[n] * BASE \in Nat
      BY <2>1, Sizes
    <3> QED BY <2>3, <2>5, <3>1, <3>2
  <2> QED BY <2>4, <2>5
<1> HIDE DEF S
<1>4. DIGITS \in S
  BY <1>2, <1>3, NatSetInduction, Sizes
<1> QED BY <1>1, <1>4, Sizes DEF S

\* Extends(s, t): t begins with s.
Extends(s, t) == Len(s) <= Len(t) /\ \A k \in Nat : 1 <= k /\ k <= Len(s) => t[k] = s[k]

\* A whole line is read the same, whatever comes behind it.
LEMMA NumberKeeps ==
    ASSUME NEW s \in Seq(Nat), NEW t \in Seq(Nat), Extends(s, t), NEW i \in Nat, i * WIDTH + DIGITS <= Len(s)
    PROVE  Number(t, i) = Number(s, i)
<1>1. PICK v : /\ Number(s, i) = v[DIGITS]
               /\ v[0] = 0
               /\ \A n \in Nat : n + 1 <= DIGITS =>
                     v[n + 1] = IF (i * WIDTH) + (n + 1) > Len(s) THEN v[n]
                                ELSE (v[n] * BASE) + s[(i * WIDTH) + (n + 1)]
  BY NumberTurn
<1>2. PICK w : /\ Number(t, i) = w[DIGITS]
               /\ w[0] = 0
               /\ \A n \in Nat : n + 1 <= DIGITS =>
                     w[n + 1] = IF (i * WIDTH) + (n + 1) > Len(t) THEN w[n]
                                ELSE (w[n] * BASE) + t[(i * WIDTH) + (n + 1)]
  BY NumberTurn
<1> DEFINE S == {n \in Nat : n <= DIGITS => v[n] = w[n]}
<1>3. 0 \in S
  BY <1>1, <1>2
<1>4. ASSUME NEW n \in Nat, n \in S PROVE n + 1 \in S
  <2> SUFFICES ASSUME n + 1 <= DIGITS PROVE v[n + 1] = w[n + 1]
    OBVIOUS
  <2> DEFINE k == (i * WIDTH) + (n + 1)
  <2>1. v[n] = w[n]
    BY <1>4, Sizes
  <2>2. k \in Nat /\ 1 <= k /\ k <= Len(s) /\ ~(k > Len(s)) /\ ~(k > Len(t))
    <3> DEFINE x == i * WIDTH
    <3>1. x \in Nat /\ Len(s) \in Nat /\ Len(t) \in Nat /\ Len(s) <= Len(t) /\ DIGITS \in Nat
      BY Sizes DEF Extends
    <3>2. x + DIGITS <= Len(s)
      OBVIOUS
    <3> HIDE DEF x
    <3>3. /\ x + (n + 1) \in Nat /\ 1 <= x + (n + 1) /\ x + (n + 1) <= Len(s)
          /\ ~(x + (n + 1) > Len(s)) /\ ~(x + (n + 1) > Len(t))
      BY <3>1, <3>2
    <3> QED BY <3>3 DEF x
  <2>3. s[k] = t[k]
    BY <2>2 DEF Extends
  <2>4. v[n + 1] = IF k > Len(s) THEN v[n] ELSE (v[n] * BASE) + s[k]
    BY <1>1
  <2>5. w[n + 1] = IF k > Len(t) THEN w[n] ELSE (w[n] * BASE) + t[k]
    BY <1>2
  <2> HIDE DEF k
  <2> QED BY <2>1, <2>2, <2>3, <2>4, <2>5
<1> HIDE DEF S
<1>5. DIGITS \in S
  BY <1>3, <1>4, NatSetInduction, Sizes
<1> QED BY <1>1, <1>2, <1>5, Sizes DEF S

\* The number of a line is the address it was written for.
LEMMA NumberOfLine ==
    ASSUME NEW a \in Addresses, NEW s \in Seq(Nat), NEW i \in Nat, i * WIDTH + DIGITS <= Len(s),
           \A n \in Nat : 1 <= n /\ n <= DIGITS => s[i * WIDTH + n] = Line(a)[n]
    PROVE  Number(s, i) = a
<1>1. PICK v : /\ Number(s, i) = v[DIGITS]
               /\ v[0] = 0
               /\ \A n \in Nat : n + 1 <= DIGITS =>
                     v[n + 1] = IF (i * WIDTH) + (n + 1) > Len(s) THEN v[n]
                                ELSE (v[n] * BASE) + s[(i * WIDTH) + (n + 1)]
  BY ONLY NumberTurn
<1> DEFINE c == Shifted(a)
<1>2. a \in Nat /\ c[DIGITS] = 0
  BY DEF Addresses
<1>3. /\ c[0] = a
      /\ \A n \in Nat : n + 1 <= DIGITS => c[n + 1] = c[n] \div BASE
  BY ShiftedTurn
<1>4. \A n \in Nat : n <= DIGITS => c[n] \in Nat
  BY <1>2, ShiftedType
<1>5. \A n \in Nat : 1 <= n /\ n <= DIGITS => s[i * WIDTH + n] = c[DIGITS - n] % BASE
  <2>1. ASSUME NEW n \in Nat, 1 <= n, n <= DIGITS PROVE Line(a)[n] = c[DIGITS - n] % BASE
    <3>1. n \in 1..WIDTH /\ n # WIDTH
      BY <2>1, Sizes
    <3> QED BY <3>1 DEF Line
  <2> QED BY <2>1
<1> HIDE DEF c
<1> DEFINE S == {n \in Nat : n <= DIGITS => v[n] = c[DIGITS - n]}
<1>6. 0 \in S
  <2>1. DIGITS - 0 = DIGITS
    BY Sizes
  <2> QED BY <1>1, <1>2, <2>1
<1>7. ASSUME NEW n \in Nat, n \in S PROVE n + 1 \in S
  <2> SUFFICES ASSUME n + 1 <= DIGITS PROVE v[n + 1] = c[DIGITS - (n + 1)]
    OBVIOUS
  <2> DEFINE d == DIGITS - (n + 1)
  <2>1. d \in Nat /\ d + 1 <= DIGITS /\ d + 1 = DIGITS - n /\ n <= DIGITS
    BY Sizes
  <2>2. v[n] = c[d + 1]
    BY <1>7, <2>1
  <2>3. c[d + 1] = c[d] \div BASE
    BY <1>3, <2>1
  <2>4. c[d] \in Nat
    BY <1>4, <2>1, Sizes
  <2>5. s[i * WIDTH + (n + 1)] = c[d] % BASE
    BY <1>5
  <2>6. ~((i * WIDTH) + (n + 1) > Len(s))
    <3>1. i * WIDTH \in Nat /\ Len(s) \in Nat /\ DIGITS \in Nat
      BY Sizes
    <3> QED BY <3>1
  <2>7. v[n + 1] = (v[n] * BASE) + s[(i * WIDTH) + (n + 1)]
    BY <1>1, <2>6
  <2> HIDE DEF d
  <2>8. (c[d] \div BASE) * BASE + (c[d] % BASE) = c[d]
    BY <2>4, Euclid
  <2>9. v[n + 1] = c[d]
    BY <2>2, <2>3, <2>5, <2>7, <2>8
  <2> QED BY <2>9 DEF d
<1> HIDE DEF S
<1>8. DIGITS \in S
  BY <1>6, <1>7, NatSetInduction, Sizes
<1>9. v[DIGITS] = c[DIGITS - DIGITS] /\ DIGITS - DIGITS = 0
  BY <1>8, Sizes DEF S
<1> QED BY <1>1, <1>3, <1>9

-----------------------------------------------------------------------------
(* The dump: a line for every address *)

Rank(map, a) == Cardinality({b \in map : b < a})

\* The entries of a dump are the addresses.
LEMMA Entries ==
    ASSUME NEW map, IsFiniteSet(map), map \subseteq Nat
    PROVE  /\ \A i \in Nat : i < Cardinality(map) => Entry(map, i) \in map
           /\ \A a \in map : \E i \in Nat : i < Cardinality(map) /\ Entry(map, i) = a
<1> DEFINE n == Cardinality(map)
           f == [a \in map |-> Rank(map, a)]
           T == 0..(n - 1)
<1>1. n \in Nat
  BY FS_CardinalityType
<1>2. ASSUME NEW a \in map PROVE Rank(map, a) \in T
  <2> DEFINE L == {b \in map : b < a}
  <2>1. L \in SUBSET map /\ a \notin L
    BY <1>2
  <2>2. IsFiniteSet(L) /\ Cardinality(L) <= n /\ (n = Cardinality(L) => map = L)
    BY <2>1, FS_Subset
  <2>3. Cardinality(L) \in Nat
    BY <2>2, FS_CardinalityType
  <2>4. Cardinality(L) # n
    BY <1>2, <2>1, <2>2
  <2> HIDE DEF L, n
  <2>5. Cardinality(L) \in 0..(n - 1)
    BY <1>1, <2>2, <2>3, <2>4
  <2> QED BY <2>5 DEF L, Rank, n
<1>3. ASSUME NEW a \in map, NEW b \in map, a < b PROVE Rank(map, a) # Rank(map, b)
  <2> DEFINE L == {x \in map : x < a}
             M == {x \in map : x < b}
  <2>6. a \in Nat /\ b \in Nat
    OBVIOUS
  <2>7. a \in M /\ a \notin L
    BY <1>3, <2>6
  <2>8. ASSUME NEW x \in L PROVE x \in M
    <3>1. x \in map /\ x \in Nat /\ x < a
      BY <2>8
    <3>2. x < b
      BY <1>3, <2>6, <3>1
    <3> QED BY <3>1, <3>2
  <2>1. a \in M /\ a \notin L /\ L \in SUBSET M
    BY <2>7, <2>8
  <2>2. M \in SUBSET map
    OBVIOUS
  <2>3. IsFiniteSet(M)
    BY <2>2, FS_Subset
  <2> HIDE DEF L, M
  <2>4. Cardinality(M) = Cardinality(L) => M = L
    BY <2>1, <2>3, FS_Subset
  <2>5. Cardinality(M) # Cardinality(L)
    BY <2>1, <2>4
  <2> QED BY <2>5 DEF L, M, Rank
<1>4. \A a, b \in map : Rank(map, a) = Rank(map, b) => a = b
  <2>1. ASSUME NEW a \in map, NEW b \in map, Rank(map, a) = Rank(map, b) PROVE a = b
    <3>1. a \in Nat /\ b \in Nat /\ ~(a < b) /\ ~(b < a)
      BY <1>3, <2>1
    <3> QED BY <3>1
  <2> QED BY <2>1
<1>5. f \in Injection(map, T)
  <2>1. f \in [map -> T] /\ DOMAIN f = map
    BY <1>2
  <2>2. \A a, b \in map : f[a] = f[b] => a = b
    BY <1>4
  <2> HIDE DEF f, T
  <2> QED BY <2>1, <2>2 DEF Injection, IsInjective
<1>6. IsFiniteSet(T) /\ Cardinality(T) = n
  <2>1. 0 \in Int /\ n - 1 \in Int
    BY <1>1
  <2>2. IsFiniteSet(T) /\ Cardinality(T) = IF 0 > n - 1 THEN 0 ELSE (n - 1) - 0 + 1
    BY <2>1, FS_Interval
  <2> HIDE DEF n
  <2> QED BY <1>1, <2>2
<1>7. f \in Surjection(map, T)
  BY <1>5, <1>6, FS_Injection
<1>8. ASSUME NEW i \in Nat, i < n PROVE \E a \in map : Rank(map, a) = i
  <2>1. i \in T
    BY <1>1, <1>8
  <2>2. \E a \in map : f[a] = i
    BY <1>7, <2>1 DEF Surjection
  <2> QED BY <2>2
<1>9. ASSUME NEW i \in Nat, i < n PROVE Entry(map, i) \in map /\ Rank(map, Entry(map, i)) = i
  BY <1>8, <1>9 DEF Entry, Rank
<1>10. ASSUME NEW a \in map PROVE \E i \in Nat : i < n /\ Entry(map, i) = a
  <2>1. Rank(map, a) \in Nat /\ Rank(map, a) < n
    BY <1>1, <1>2
  <2>2. Entry(map, Rank(map, a)) = a
    BY <1>4, <1>9, <2>1
  <2> QED BY <2>1, <2>2
<1> QED BY <1>9, <1>10

\* Byte for byte, a dump is the lines of its entries.
LEMMA DumpIs ==
    ASSUME NEW map, IsFiniteSet(map), map \subseteq Addresses
    PROVE  /\ Cardinality(map) \in Nat /\ Cardinality(map) * WIDTH \in Nat
           /\ Dump(map) \in Seq(Nat) /\ Len(Dump(map)) = Cardinality(map) * WIDTH
           /\ \A i \in Nat : i < Cardinality(map) =>
                 /\ i * WIDTH + WIDTH <= Cardinality(map) * WIDTH
                 /\ \A n \in Nat : 1 <= n /\ n <= DIGITS => Dump(map)[i * WIDTH + n] = Line(Entry(map, i))[n]
<1> DEFINE c == Cardinality(map)
<1>1. c \in Nat /\ c * WIDTH \in Nat
  BY Sizes, FS_CardinalityType
<1>2. map \subseteq Nat
  BY DEF Addresses
<1>3. \A i \in Nat : i < c => Entry(map, i) \in map
  BY <1>2, Entries
<1>4. ASSUME NEW i \in Nat, i < c PROVE i * WIDTH + WIDTH <= c * WIDTH
  BY <1>1, <1>4, LinesApart
<1>5. ASSUME NEW k \in 1..c * WIDTH PROVE Byte(map, k - 1) \in Nat
  <2> DEFINE q == (k - 1) \div WIDTH
             r == (k - 1) % WIDTH
  <2>1. k - 1 \in Nat /\ k - 1 < c * WIDTH
    BY <1>1
  <2>2. q \in Nat /\ q * WIDTH \in Nat /\ r \in Nat /\ r < WIDTH /\ k - 1 = q * WIDTH + r
    BY <2>1, LineOfByte
  <2> HIDE DEF q, r
  <2>3. q < c
    <3>1. CASE c < q
      <4>1. c * WIDTH + WIDTH <= q * WIDTH
        BY <1>1, <2>2, <3>1, LinesApart
      <4> QED BY <1>1, <2>1, <2>2, <4>1, Sizes
    <3>2. CASE c = q
      BY <1>1, <2>1, <2>2, <3>2
    <3> QED BY <1>1, <2>2, <3>1, <3>2
  <2>4. Entry(map, q) \in Nat
    BY <1>2, <1>3, <2>2, <2>3
  <2>5. 1 + r \in 1..WIDTH
    BY <2>2, Sizes
  <2> DEFINE a == Entry(map, q)
  <2>6. Line(a)[1 + r] = IF 1 + r = WIDTH THEN EOL ELSE Shifted(a)[DIGITS - (1 + r)] % BASE
    BY <2>5 DEF Line
  <2>7. CASE 1 + r = WIDTH
    BY <2>6, <2>7, Sizes DEF Byte, q, r
  <2>8. CASE 1 + r # WIDTH
    <3>1. DIGITS - (1 + r) \in Nat /\ DIGITS - (1 + r) <= DIGITS
      BY <2>2, <2>8, Sizes
    <3>2. Shifted(a)[DIGITS - (1 + r)] \in Nat
      BY <2>4, <3>1, ShiftedType
    <3>3. Shifted(a)[DIGITS - (1 + r)] % BASE \in Nat
      BY <3>2, Euclid
    <3> QED BY <2>6, <2>8, <3>3 DEF Byte, q, r
  <2> QED BY <2>7, <2>8
<1>6. Dump(map) \in [1..c * WIDTH -> Nat]
  BY <1>5 DEF Dump
<1>7. Dump(map) \in Seq(Nat) /\ Len(Dump(map)) = c * WIDTH
  <2> HIDE DEF c
  <2> QED BY <1>1, <1>6
<1>8. ASSUME NEW i \in Nat, i < c, NEW n \in Nat, 1 <= n, n <= DIGITS
      PROVE  Dump(map)[i * WIDTH + n] = Line(Entry(map, i))[n]
  <2>1. n - 1 \in Nat /\ n - 1 < WIDTH /\ i * WIDTH \in Nat /\ 1 + (n - 1) = n
    BY <1>8, Sizes
  <2>2. (i * WIDTH + (n - 1)) \div WIDTH = i /\ (i * WIDTH + (n - 1)) % WIDTH = n - 1
    BY <2>1, LineIs
  <2>3. (i * WIDTH + n) - 1 = i * WIDTH + (n - 1)
    BY <2>1
  <2>4. i * WIDTH + n \in 1..c * WIDTH
    BY <1>1, <1>4, <1>8, <2>1, Sizes
  <2>5. Dump(map)[i * WIDTH + n] = Byte(map, (i * WIDTH + n) - 1)
    BY <2>4 DEF Dump
  <2> QED BY <2>1, <2>2, <2>3, <2>5 DEF Byte
<1> QED BY <1>1, <1>4, <1>7, <1>8

\* What the reader has of a file after another chunk.
LEMMA RefilledIs ==
    ASSUME NEW s \in Seq(Nat), NEW t \in Seq(Nat)
    PROVE  /\ Refilled(s, t) \in Seq(Nat) /\ Extends(s, Refilled(s, t))
           /\ Len(s) >= Len(t) => Refilled(s, t) = s
           /\ Len(s) < Len(t) => /\ Len(s) < Len(Refilled(s, t)) /\ Len(Refilled(s, t)) <= Len(t)
                                 /\ \A k \in Nat : Len(s) < k /\ k <= Len(Refilled(s, t)) => Refilled(s, t)[k] = t[k]
<1> DEFINE p == Len(s)
           q == Len(t)
           e == Min({p + CHUNK, q})
           more == SubSeq(t, p + 1, e)
<1>1. p \in Nat /\ q \in Nat /\ CHUNK \in Nat /\ CHUNK >= 1
  BY Sizes
<1>2. e = IF p + CHUNK <= q THEN p + CHUNK ELSE q
  <2> HIDE DEF p, q
  <2> QED BY <1>1, MinIs
<1>3. Refilled(s, t) = s \o more
  BY DEF Refilled
<1> HIDE DEF p, q, e
<1>4. e \in Nat /\ e <= q /\ p + 1 \in Int
  BY <1>1, <1>2
<1>5. \A i \in p + 1..e : t[i] \in Nat
  <2>1. ASSUME NEW i \in p + 1..e PROVE i \in 1..q
    BY <1>1, <1>4
  <2> QED BY <2>1 DEF q
<1>6. /\ more \in Seq(Nat)
      /\ Len(more) = IF p + 1 <= e THEN e - (p + 1) + 1 ELSE 0
      /\ \A i \in 1..e - (p + 1) + 1 : more[i] = t[(p + 1) + i - 1]
  BY <1>4, <1>5, SubSeqProperties
<1> HIDE DEF more
<1>7. /\ s \o more \in Seq(Nat)
      /\ Len(s \o more) = p + Len(more)
      /\ \A i \in 1..p + Len(more) : (s \o more)[i] = IF i <= p THEN s[i] ELSE more[i - p]
  BY <1>6, ConcatProperties DEF p
<1> DEFINE z == s \o more
<1> HIDE DEF z
<1>8. z \in Seq(Nat) /\ Len(z) = p + Len(more) /\ Len(more) \in Nat
  BY <1>6, <1>7 DEF z
<1>9. \A i \in 1..p + Len(more) : z[i] = IF i <= p THEN s[i] ELSE more[i - p]
  BY <1>7 DEF z
<1>10. Extends(s, z)
  <2>1. ASSUME NEW k \in Nat, 1 <= k, k <= p PROVE z[k] = s[k]
    <3>1. k \in 1..p + Len(more)
      BY <1>1, <1>8, <2>1
    <3> QED BY <1>9, <2>1, <3>1
  <2>2. p <= Len(z)
    BY <1>1, <1>8
  <2> QED BY <2>1, <2>2 DEF Extends, p
<1>11. ASSUME p >= q PROVE z = s
  <2>1. ~(p + 1 <= e)
    BY <1>1, <1>4, <1>11
  <2>2. Len(more) = 0
    BY <1>6, <2>1
  <2>3. Len(z) = p
    BY <1>1, <1>8, <2>2
  <2>4. \A i \in 1..Len(s) : s[i] = z[i]
    BY <1>1, <1>9, <2>2 DEF p
  <2> QED BY <1>8, <2>3, <2>4, SeqEqual DEF p
<1>12. ASSUME p < q PROVE p < Len(z) /\ Len(z) <= q /\ \A k \in Nat : p < k /\ k <= Len(z) => z[k] = t[k]
  <2>1. p + 1 <= e
    BY <1>1, <1>2, <1>12
  <2>2. Len(more) = e - p /\ Len(z) = e
    BY <1>1, <1>4, <1>6, <1>8, <2>1
  <2>3. ASSUME NEW k \in Nat, p < k, k <= e PROVE z[k] = t[k]
    <3>1. k \in 1..p + Len(more) /\ ~(k <= p)
      BY <1>1, <1>4, <2>2, <2>3
    <3>2. z[k] = more[k - p]
      BY <1>9, <3>1
    <3>3. k - p \in 1..e - (p + 1) + 1 /\ (p + 1) + (k - p) - 1 = k
      BY <1>1, <1>4, <2>3
    <3>4. more[k - p] = t[(p + 1) + (k - p) - 1]
      BY <1>6, <3>3
    <3> QED BY <3>2, <3>3, <3>4
  <2> QED BY <1>1, <1>4, <2>1, <2>2, <2>3
<1> QED BY <1>1, <1>3, <1>8, <1>10, <1>11, <1>12 DEF z, p, q

\* What is in the file while it is written is how the dump begins.
LEMMA FlushedIs ==
    ASSUME NEW s \in Seq(Nat), NEW map, IsFiniteSet(map), map \subseteq Addresses
    PROVE  Flushed(s, map) \in Seq(Nat) /\ Extends(Flushed(s, map), Dump(map))
<1> DEFINE all == Dump(map)
           p == Len(s)
           q == Len(all)
           e == Min({p + CHUNK, q})
           z == SubSeq(all, 1, e)
<1>1. all \in Seq(Nat)
  BY DumpIs
<1>2. Flushed(s, map) = z
  BY DEF Flushed
<1> HIDE DEF all
<1>3. p \in Nat /\ q \in Nat /\ CHUNK \in Nat
  BY <1>1, Sizes
<1>4. e = IF p + CHUNK <= q THEN p + CHUNK ELSE q
  <2> HIDE DEF p, q
  <2> QED BY <1>3, MinIs
<1> HIDE DEF p, q, e
<1>5. e \in Nat /\ e <= q
  BY <1>3, <1>4
<1>6. \A i \in 1..e : all[i] \in Nat
  <2>1. ASSUME NEW i \in 1..e PROVE i \in 1..q
    BY <1>3, <1>5
  <2> QED BY <1>1, <2>1 DEF q
<1>7. /\ z \in Seq(Nat)
      /\ Len(z) = IF 1 <= e THEN e - 1 + 1 ELSE 0
      /\ \A i \in 1..e - 1 + 1 : z[i] = all[1 + i - 1]
  BY <1>5, <1>6, SubSeqProperties
<1> HIDE DEF z
<1>8. Len(z) = e
  BY <1>5, <1>7
<1>9. ASSUME NEW k \in Nat, 1 <= k, k <= Len(z) PROVE all[k] = z[k]
  <2>1. k \in 1..e - 1 + 1 /\ 1 + k - 1 = k
    BY <1>5, <1>8, <1>9
  <2> QED BY <1>7, <2>1
<1>10. Extends(z, all)
  BY <1>5, <1>8, <1>9 DEF Extends, q
<1> QED BY <1>2, <1>7, <1>10 DEF all

\* A whole line of a dump's beginning is an address of it.
LEMMA LineOfDump ==
    ASSUME NEW map, IsFiniteSet(map), map \subseteq Addresses, NEW s \in Seq(Nat), NEW i \in Nat,
           NEW t, Extends(t, Dump(map)), Len(s) <= Len(t), Len(t) \in Nat, i * WIDTH + WIDTH <= Len(s),
           \A k \in Nat : i * WIDTH < k /\ k <= Len(s) => s[k] = t[k]
    PROVE  i < Cardinality(map) /\ Number(s, i) = Entry(map, i) /\ Number(s, i) \in map
<1> DEFINE c == Cardinality(map)
           x == i * WIDTH
           all == Dump(map)
<1>1. /\ c \in Nat /\ c * WIDTH \in Nat /\ Len(all) = c * WIDTH
      /\ \A j \in Nat : j < c => /\ j * WIDTH + WIDTH <= c * WIDTH
                                 /\ \A n \in Nat : 1 <= n /\ n <= DIGITS => all[j * WIDTH + n] = Line(Entry(map, j))[n]
  BY DumpIs
<1>2. x \in Nat /\ WIDTH \in Nat /\ DIGITS \in Nat /\ WIDTH = DIGITS + 1 /\ DIGITS >= 1
  BY Sizes
<1>3. Len(s) \in Nat /\ x + WIDTH <= Len(s) /\ Len(s) <= c * WIDTH
  <2>1. Len(t) <= Len(all)
    BY DEF Extends
  <2>2. Len(s) \in Nat /\ x + WIDTH <= Len(s) /\ Len(s) <= Len(t) /\ Len(t) \in Nat
    OBVIOUS
  <2> HIDE DEF all, c, x
  <2> QED BY <1>1, <2>1, <2>2
<1> HIDE DEF c
<1>4. i < c
  <2>1. CASE i = c
    BY <1>1, <1>2, <1>3, <2>1 DEF x
  <2>2. CASE c < i
    <3>1. c * WIDTH + WIDTH <= i * WIDTH
      BY <1>1, <2>2, LinesApart
    <3>2. c * WIDTH + WIDTH <= x
      BY <3>1
    <3> HIDE DEF x
    <3> QED BY <1>1, <1>2, <1>3, <3>2
  <2> QED BY <1>1, <2>1, <2>2
<1>5. map \subseteq Nat
  BY DEF Addresses
<1>6. Entry(map, i) \in map
  BY <1>4, <1>5, Entries DEF c
<1>7. ASSUME NEW n \in Nat, 1 <= n, n <= DIGITS PROVE s[i * WIDTH + n] = Line(Entry(map, i))[n]
  <2>1. all[i * WIDTH + n] = Line(Entry(map, i))[n]
    BY <1>1, <1>4, <1>7
  <2> DEFINE k == x + n
  <2> HIDE DEF x
  <2>2. k \in Nat /\ x < k /\ 1 <= k /\ k <= Len(s)
    BY <1>2, <1>3, <1>7
  <2>3. k <= Len(t)
    BY <1>3, <2>2
  <2> HIDE DEF k
  <2>4. s[k] = t[k]
    BY <2>2 DEF x
  <2>5. t[k] = all[k]
    BY <2>2, <2>3 DEF Extends
  <2> QED BY <2>1, <2>4, <2>5 DEF k, x
<1>8. i * WIDTH + DIGITS <= Len(s)
  <2>1. x + DIGITS <= Len(s)
    <3> HIDE DEF x
    <3> QED BY <1>2, <1>3
  <2> QED BY <2>1
<1>9. Number(s, i) = Entry(map, i)
  <2> DEFINE a == Entry(map, i)
  <2>1. a \in Addresses
    BY <1>6
  <2>2. \A n \in Nat : 1 <= n /\ n <= DIGITS => s[i * WIDTH + n] = Line(a)[n]
    BY <1>7
  <2> HIDE DEF a
  <2>3. Number(s, i) = a
    BY <1>8, <2>1, <2>2, NumberOfLine
  <2> QED BY <2>3 DEF a
<1> QED BY <1>4, <1>6, <1>9 DEF c

\* What is read of a whole dump is the addresses.
LEMMA NumbersOfDump ==
    ASSUME NEW map, IsFiniteSet(map), map \subseteq Addresses
    PROVE  Numbers(Dump(map)) = map
<1> DEFINE c == Cardinality(map)
           s == Dump(map)
<1>1. c \in Nat /\ c * WIDTH \in Nat /\ s \in Seq(Nat) /\ Len(s) = c * WIDTH
  BY DumpIs
<1>2. map \subseteq Nat
  BY DEF Addresses
<1>3. ASSUME NEW i \in Nat, i < c PROVE /\ Number(s, i) = Entry(map, i) /\ Number(s, i) \in map
                                        /\ i * WIDTH < c * WIDTH /\ i <= c * WIDTH
  <2>1. i * WIDTH + WIDTH <= c * WIDTH /\ i * WIDTH \in Nat /\ WIDTH \in Nat /\ WIDTH >= 1
    BY <1>1, <1>3, LinesApart, Sizes
  <2>2. Extends(s, Dump(map)) /\ i * WIDTH + WIDTH <= Len(s) /\ Len(s) <= Len(s) /\ Len(s) \in Nat
    BY <1>1, <2>1 DEF Extends
  <2> HIDE DEF s, c
  <2>3. Number(s, i) = Entry(map, i) /\ Number(s, i) \in map
    BY <1>1, <2>2, LineOfDump
  <2>4. i * WIDTH < c * WIDTH
    BY <1>1, <2>1
  <2>5. i <= i * WIDTH
    <3>1. CASE i = 0
      BY <2>1, <3>1
    <3>2. CASE i >= 1
      <4>1. WIDTH - 1 \in Nat
        BY <2>1
      <4>2. i * (WIDTH - 1) >= 0
        BY <4>1
      <4>3. i * (WIDTH - 1) = i * WIDTH - i
        BY <2>1
      <4> QED BY <2>1, <4>2, <4>3
    <3> QED BY <3>1, <3>2
  <2> QED BY <1>1, <2>1, <2>3, <2>4, <2>5
<1>4. ASSUME NEW j \in 0..Len(s), j * WIDTH < Len(s) PROVE Number(s, j) \in map
  <2>1. j \in Nat
    BY <1>1
  <2>2. ~(j >= c)
    <3>1. ASSUME j >= c PROVE FALSE
      <4>1. CASE j = c
        BY <1>1, <1>4, <4>1
      <4>2. CASE c < j
        <5>1. j * WIDTH < c * WIDTH /\ c \in Int /\ j \in Int /\ c < j
          BY <1>1, <1>4, <2>1, <4>2
        <5> HIDE DEF c, s
        <5>2. c * WIDTH + WIDTH <= j * WIDTH /\ j * WIDTH \in Int
          BY ONLY <5>1, LinesApart
        <5>3. WIDTH \in Nat
          BY Sizes
        <5> QED BY <1>1, <5>1, <5>2, <5>3
      <4> QED BY <1>1, <2>1, <3>1, <4>1, <4>2
    <3> QED BY <3>1
  <2>3. j < c
    BY <1>1, <2>1, <2>2
  <2> QED BY <1>3, <2>1, <2>3
<1>5. ASSUME NEW a \in map PROVE \E i \in {j \in 0..Len(s) : j * WIDTH < Len(s)} : Number(s, i) = a
  <2>1. PICK i \in Nat : i < c /\ Entry(map, i) = a
    BY <1>2, Entries
  <2>2. Number(s, i) = a /\ i * WIDTH < Len(s) /\ i <= Len(s)
    BY <1>1, <1>3, <2>1
  <2>3. i \in 0..Len(s)
    BY <1>1, <2>2
  <2> QED BY <2>2, <2>3
<1> HIDE DEF s
<1>6. Numbers(s) = map
  BY <1>4, <1>5 DEF Numbers
<1> QED BY <1>6 DEF s
-----------------------------------------------------------------------------
(* The seeds *)

ReadTypes ==
    /\ buf \in [RUNS -> Seq(Nat)] /\ seeds \in [RUNS -> SUBSET Nat]
    /\ reads \in [RUNS -> Nat] /\ steady \in [RUNS -> BOOLEAN]
    /\ whole \in BOOLEAN

\* The file is how the dump of some set of recorded addresses begins: while it is written,
\* of what the game has recorded; when the dump was finished, all of it.
FileOK ==
    /\ IsFiniteSet(profile_map) /\ profile_map \subseteq RECORDED /\ file \in Seq(Nat)
    /\ game = "dump" => ~whole /\ profile_map \subseteq dumped /\ Extends(file, Dump(profile_map))
    /\ \E map \in SUBSET dumped :
          /\ IsFiniteSet(map) /\ map \subseteq RECORDED /\ Extends(file, Dump(map))
          /\ whole => file = Dump(map)
    /\ \A r \in RUNS : steady[r] => whole

\* The lines of a buffer hold addresses that were dumped, but for some: those in which a
\* chunk ended.
Torn(r, cuts) ==
    \A i \in Nat : i * WIDTH < Len(buf[r]) /\ i \notin cuts =>
        i * WIDTH + DIGITS <= Len(buf[r]) /\ Number(buf[r], i) \in dumped
Numbered(r) == \E cuts \in SUBSET Nat : IsFiniteSet(cuts) /\ Cardinality(cuts) <= reads[r] /\ Torn(r, cuts)

\* The property, of one run.
Seeded(r) ==
    /\ seeds[r] \subseteq 0..ROM_END - 1
    /\ steady[r] => \E map \in SUBSET dumped :
                       file = Dump(map) /\ seeds[r] = {a \in map : a < ROM_END}
    /\ Cardinality(seeds[r] \ dumped) <= reads[r]

ReadOK(r) ==
    /\ pc[r] \in {"parseFlags", "open"} => buf[r] = <<>>
    /\ pc[r] = "read" => Numbered(r) /\ (steady[r] => Extends(buf[r], file))
    /\ pc[r] = "analyze" /\ scenario.options[r].profile => Seeded(r) /\ IsFiniteSet(seeds[r])

SeedInv == ReadTypes /\ FileOK /\ \A r \in RUNS : ReadOK(r)

LEMMA NothingDumped == Dump({}) = <<>> /\ Extends(<<>>, Dump({}))
<1>1. IsFiniteSet({}) /\ Cardinality({}) = 0 /\ {} \subseteq Addresses
  BY FS_EmptySet
<1>2. Dump({}) \in Seq(Nat) /\ Len(Dump({})) = 0
  <2>1. 0 * WIDTH = 0
    BY Sizes
  <2>2. Dump({}) \in Seq(Nat) /\ Len(Dump({})) = Cardinality({}) * WIDTH
    BY <1>1, DumpIs
  <2> QED BY <1>1, <2>1, <2>2
<1>3. Dump({}) = <<>>
  BY <1>2, EmptySeq
<1> QED BY <1>3 DEF Extends

LEMMA EmptyBegins == ASSUME NEW s \in Seq(Nat) PROVE Extends(<<>>, s)
BY DEF Extends

LEMMA SeedInit == Init => SeedInv
<1> SUFFICES ASSUME Init PROVE SeedInv
  OBVIOUS
<1>1. ReadTypes
  BY EmptySeq DEF Init, ReadTypes
<1>2. FileOK
  <2>1. IsFiniteSet({}) /\ <<>> \in Seq(Nat)
    BY FS_EmptySet
  <2>2. \E map \in SUBSET dumped :
          /\ IsFiniteSet(map) /\ map \subseteq RECORDED /\ Extends(file, Dump(map))
          /\ whole => file = Dump(map)
    BY <2>1, NothingDumped DEF Init
  <2>3. \A r \in RUNS : steady[r] => whole
    BY DEF Init
  <2> QED BY <2>1, <2>2, <2>3 DEF Init, FileOK
<1>3. ASSUME NEW r \in RUNS PROVE ReadOK(r)
  BY DEF Init, ReadOK
<1> QED BY <1>1, <1>2, <1>3 DEF SeedInv

\* A run is not disturbed by a dump, unless its reading was steady until then.
LEMMA ReadKept ==
    ASSUME SeedInv, NEW r \in RUNS, scenario' = scenario, pc'[r] = pc[r], buf'[r] = buf[r], seeds'[r] = seeds[r],
           reads'[r] = reads[r], dumped \subseteq dumped', steady'[r] => steady[r] /\ file' = file
    PROVE  ReadOK(r)'
<1>1. ReadOK(r) /\ reads[r] \in Nat
  BY DEF SeedInv, ReadTypes
<1>2. Numbered(r) => Numbered(r)'
  <2> SUFFICES ASSUME Numbered(r) PROVE Numbered(r)'
    OBVIOUS
  <2>1. PICK cuts \in SUBSET Nat : IsFiniteSet(cuts) /\ Cardinality(cuts) <= reads[r] /\ Torn(r, cuts)
    BY DEF Numbered
  <2>2. Torn(r, cuts)'
    BY <2>1 DEF Torn
  <2> QED BY <2>1, <2>2 DEF Numbered
<1>3. Seeded(r) /\ IsFiniteSet(seeds[r]) => Seeded(r)'
  <2> SUFFICES ASSUME Seeded(r), IsFiniteSet(seeds[r]) PROVE Seeded(r)'
    OBVIOUS
  <2>1. seeds'[r] \subseteq 0..ROM_END - 1
    BY DEF Seeded
  <2>2. ASSUME steady'[r] PROVE \E map \in SUBSET dumped' : file' = Dump(map) /\ seeds'[r] = {a \in map : a < ROM_END}
    BY <2>2 DEF Seeded
  <2>3. Cardinality(seeds'[r] \ dumped') <= reads'[r]
    <3> DEFINE S == seeds[r] \ dumped
               T == seeds[r] \ dumped'
    <3>1. IsFiniteSet(S) /\ T \in SUBSET S
      BY FS_Subset
    <3>2. Cardinality(S) <= reads[r]
      BY DEF Seeded
    <3> HIDE DEF S, T
    <3>3. Cardinality(T) <= Cardinality(S) /\ Cardinality(T) \in Nat /\ Cardinality(S) \in Nat
      BY <3>1, FS_Subset, FS_CardinalityType
    <3>4. Cardinality(T) <= reads[r]
      BY <1>1, <3>2, <3>3
    <3> QED BY <3>4 DEF T
  <2> QED BY <2>1, <2>2, <2>3 DEF Seeded
<1> QED BY <1>1, <1>2, <1>3 DEF ReadOK

\* A step of a run that leaves the reading behind, or does not begin it.
LEMMA LaterStep ==
    ASSUME SeedInv, pc \in [RUNS -> Steps], NEW r \in RUNS, NEW s, pc' = [pc EXCEPT ![r] = s],
           \/ s \notin Early
           \/ pc[r] = "parseFlags" /\ s = "open"
           \/ s = "analyze" /\ ~scenario.options[r].profile,
           UNCHANGED <<game_vars, buf, seeds, reads>>
    PROVE  SeedInv'
<1>1. pc'[r] = s /\ \A q \in RUNS \ {r} : pc'[q] = pc[q]
  OBVIOUS
<1>2. ReadTypes' /\ FileOK'
  BY DEF SeedInv, ReadTypes, FileOK, game_vars
<1>3. ASSUME NEW q \in RUNS \ {r} PROVE ReadOK(q)'
  BY <1>1, ReadKept DEF game_vars
<1>4. ReadOK(r)'
  <2>1. ReadOK(r)
    BY DEF SeedInv
  <2> QED BY <1>1, <2>1 DEF ReadOK, Early, game_vars
<1> QED BY <1>2, <1>3, <1>4 DEF SeedInv

\* A run opens the file.
LEMMA OpenStep ==
    ASSUME SeedInv, pc \in [RUNS -> Steps], NEW r \in RUNS, open(r)
    PROVE  SeedInv'
<1>1. pc'[r] = "read" /\ pc[r] = "open" /\ \A q \in RUNS \ {r} : pc'[q] = pc[q]
  BY DEF open, Goto
<1>2. /\ UNCHANGED <<scenario, game, profile_map, file, dumped, whole, buf, seeds, reads>>
      /\ steady' = [steady EXCEPT ![r] = whole]
  BY DEF open, Keep
<1>3. steady \in [RUNS -> BOOLEAN] /\ buf \in [RUNS -> Seq(Nat)] /\ reads \in [RUNS -> Nat]
  BY DEF SeedInv, ReadTypes
<1>4. steady'[r] = whole /\ \A q \in RUNS \ {r} : steady'[q] = steady[q]
  BY <1>2, <1>3
<1>5. FileOK'
  <2>1. \A q \in RUNS : steady'[q] => whole'
    BY <1>2, <1>4 DEF SeedInv, FileOK
  <2> QED BY <1>2, <2>1 DEF SeedInv, FileOK
<1>6. ReadTypes'
  BY <1>2, <1>3 DEF SeedInv, ReadTypes
<1>7. ASSUME NEW q \in RUNS \ {r} PROVE ReadOK(q)'
  BY <1>1, <1>2, <1>4, ReadKept
<1>8. ReadOK(r)'
  <2>1. buf[r] = <<>> /\ reads[r] \in Nat
    BY <1>1, <1>3 DEF SeedInv, ReadOK
  <2>2. Len(buf[r]) = 0
    BY <2>1
  <2>3. Torn(r, {})'
    <3>1. ASSUME NEW i \in Nat PROVE ~(i * WIDTH < 0)
      <4>1. i * WIDTH \in Nat
        BY Sizes
      <4> QED BY <4>1
    <3> QED BY <1>2, <2>2, <3>1 DEF Torn
  <2>4. Numbered(r)'
    <3>1. IsFiniteSet({}) /\ Cardinality({}) = 0 /\ 0 <= reads[r]
      BY <2>1, FS_EmptySet
    <3> QED BY <1>2, <2>3, <3>1 DEF Numbered
  <2>5. Extends(buf'[r], file')
    BY <1>2, <2>1, EmptyBegins DEF SeedInv, FileOK
  <2> QED BY <1>1, <2>4, <2>5 DEF ReadOK
<1> QED BY <1>5, <1>6, <1>7, <1>8 DEF SeedInv

\* Another chunk of the file, whoever has written it meanwhile.
LEMMA ChunkRead ==
    ASSUME SeedInv, pc \in [RUNS -> Steps], NEW r \in RUNS, read(r), Refilled(buf[r], file) # buf[r]
    PROVE  SeedInv'
<1> DEFINE s == buf[r]
           m == Refilled(buf[r], file)
<1>1. /\ buf' = [buf EXCEPT ![r] = m] /\ reads' = [reads EXCEPT ![r] = @ + 1] /\ pc[r] = "read"
      /\ UNCHANGED <<pc, seeds, scenario, game, profile_map, file, dumped, whole, steady>>
  BY DEF read, At, game_vars
<1>2. buf \in [RUNS -> Seq(Nat)] /\ reads \in [RUNS -> Nat] /\ file \in Seq(Nat) /\ s \in Seq(Nat)
  BY DEF SeedInv, ReadTypes, FileOK
<1>3. /\ m \in Seq(Nat) /\ Extends(s, m)
      /\ Len(s) < Len(m) /\ Len(m) <= Len(file) /\ Len(s) < Len(file)
      /\ \A k \in Nat : Len(s) < k /\ k <= Len(m) => m[k] = file[k]
  <2>1. Len(s) \in Nat /\ Len(file) \in Nat
    BY <1>2
  <2>2. ~(Len(s) >= Len(file))
    BY <1>2, RefilledIs
  <2>3. Len(s) < Len(file)
    BY <2>1, <2>2
  <2> QED BY <1>2, <2>3, RefilledIs
<1> HIDE DEF m
<1>4. /\ buf'[r] = m /\ reads'[r] = reads[r] + 1
      /\ \A q \in RUNS \ {r} : buf'[q] = buf[q] /\ reads'[q] = reads[q]
  BY <1>1, <1>2
<1>5. FileOK'
  BY <1>1 DEF SeedInv, FileOK
<1>6. ReadTypes'
  BY <1>1, <1>2, <1>3 DEF SeedInv, ReadTypes
<1>7. ASSUME NEW q \in RUNS \ {r} PROVE ReadOK(q)'
  BY <1>1, <1>4, ReadKept
<1>8. Numbered(r) /\ (steady[r] => Extends(s, file))
  BY <1>1 DEF SeedInv, ReadOK
<1>9. PICK cuts \in SUBSET Nat : IsFiniteSet(cuts) /\ Cardinality(cuts) <= reads[r] /\ Torn(r, cuts)
  BY <1>8 DEF Numbered
<1>10. PICK map \in SUBSET dumped : IsFiniteSet(map) /\ map \subseteq RECORDED /\ Extends(file, Dump(map))
  BY DEF SeedInv, FileOK
<1>11. map \subseteq Addresses
  BY <1>10, PipelineAssumption
<1>12. Len(m) \in Nat /\ Len(s) \in Nat /\ Len(file) \in Nat
  BY <1>2, <1>3
<1> DEFINE cut == Len(m) \div WIDTH
           more == cuts \cup {cut}
<1>13. cut \in Nat
  BY <1>12, LineOfByte
<1>14. ASSUME NEW i \in Nat, i * WIDTH < Len(m), i \notin more
       PROVE  i * WIDTH + DIGITS <= Len(m) /\ Number(m, i) \in dumped
  <2>1. i # cut /\ i \notin cuts
    BY <1>14
  <2>2. i * WIDTH + WIDTH <= Len(m) /\ i * WIDTH \in Nat
    BY <1>12, <1>14, <2>1, WholeLine
  <2>3. i * WIDTH + DIGITS <= Len(m)
    <3> DEFINE x == i * WIDTH
    <3>1. x + WIDTH <= Len(m) /\ x \in Nat
      BY <2>2
    <3> HIDE DEF x
    <3>2. x + DIGITS <= Len(m)
      BY <1>12, <3>1, Sizes
    <3> QED BY <3>2 DEF x
  <2>4. CASE i * WIDTH < Len(s)
    <3>1. i * WIDTH + DIGITS <= Len(s) /\ Number(s, i) \in dumped
      BY <1>9, <2>1, <2>4 DEF Torn
    <3>2. Number(m, i) = Number(s, i)
      BY <1>2, <1>3, <3>1, NumberKeeps
    <3> QED BY <2>3, <3>1, <3>2
  <2>5. CASE ~(i * WIDTH < Len(s))
    <3>1. ASSUME NEW k \in Nat, i * WIDTH < k, k <= Len(m) PROVE m[k] = file[k]
      <4>1. Len(s) < k
        <5> DEFINE x == i * WIDTH
        <5>1. ~(x < Len(s)) /\ x \in Nat /\ x < k
          BY <2>2, <2>5, <3>1
        <5> HIDE DEF x
        <5> QED BY <1>12, <5>1
      <4> QED BY <1>3, <3>1, <4>1
    <3>2. Number(m, i) \in map
      <4>1. \A k \in Nat : i * WIDTH < k /\ k <= Len(m) => m[k] = file[k]
        BY <3>1
      <4> QED BY <1>3, <1>10, <1>11, <1>12, <2>2, <4>1, LineOfDump
    <3> QED BY <1>10, <2>3, <3>2
  <2> QED BY <2>4, <2>5
<1>15. more \in SUBSET Nat /\ IsFiniteSet(more) /\ Cardinality(more) <= reads[r] + 1
  <2>1. more \in SUBSET Nat
    BY <1>13
  <2> HIDE DEF cut
  <2>2. IsFiniteSet(more) /\ Cardinality(more) = IF cut \in cuts THEN Cardinality(cuts) ELSE Cardinality(cuts) + 1
    BY <1>9, FS_AddElement
  <2>3. Cardinality(cuts) \in Nat /\ reads[r] \in Nat /\ Cardinality(cuts) <= reads[r]
    BY <1>2, <1>9, FS_CardinalityType
  <2> HIDE DEF more
  <2> QED BY <2>1, <2>2, <2>3
<1>16. PICK torn : torn = more
  OBVIOUS
<1>17. Numbered(r)'
  <2>1. Torn(r, torn)'
    BY <1>1, <1>4, <1>14, <1>16 DEF Torn
  <2>2. torn \in SUBSET Nat /\ IsFiniteSet(torn) /\ Cardinality(torn) <= reads'[r]
    <3> HIDE DEF more
    <3> QED BY <1>4, <1>15, <1>16
  <2> QED BY <2>1, <2>2 DEF Numbered
<1>18. ASSUME steady[r] PROVE Extends(m, file)
  <2>1. Extends(s, file)
    BY <1>8, <1>18
  <2>2. ASSUME NEW k \in Nat, 1 <= k, k <= Len(m) PROVE file[k] = m[k]
    <3>1. CASE k <= Len(s)
      BY <1>3, <2>1, <2>2, <3>1 DEF Extends
    <3>2. CASE Len(s) < k
      BY <1>3, <2>2, <3>2
    <3> QED BY <1>12, <3>1, <3>2
  <2> QED BY <1>3, <2>2 DEF Extends
<1>19. ReadOK(r)'
  BY <1>1, <1>4, <1>17, <1>18 DEF ReadOK
<1> QED BY <1>5, <1>6, <1>7, <1>19 DEF SeedInv

\* The end of the file: what was read becomes the seeds.
LEMMA EndRead ==
    ASSUME SeedInv, pc \in [RUNS -> Steps], NEW r \in RUNS, read(r), Refilled(buf[r], file) = buf[r]
    PROVE  SeedInv'
<1> DEFINE s == buf[r]
           found == readSeeds(buf[r])
<1>1. /\ seeds' = [seeds EXCEPT ![r] = found] /\ pc' = [pc EXCEPT ![r] = "analyze"] /\ pc[r] = "read"
      /\ UNCHANGED <<buf, reads, scenario, game, profile_map, file, dumped, whole, steady>>
  BY DEF read, At, Goto, game_vars
<1>2. /\ seeds \in [RUNS -> SUBSET Nat] /\ reads \in [RUNS -> Nat] /\ file \in Seq(Nat) /\ s \in Seq(Nat)
      /\ Len(s) \in Nat /\ Len(file) \in Nat
  BY DEF SeedInv, ReadTypes, FileOK
<1>3. Numbers(s) \subseteq Nat
  <2>1. ASSUME NEW i \in 0..Len(s) PROVE Number(s, i) \in Nat
    <3>1. i \in Nat
      BY <1>2
    <3> QED BY <1>2, <3>1, NumberType
  <2> HIDE DEF s
  <2> QED BY <2>1 DEF Numbers
<1>4. found = {v \in Numbers(s) : v < ROM_END}
  BY DEF readSeeds
<1> HIDE DEF found
<1>5. found \subseteq 0..ROM_END - 1 /\ found \subseteq Nat /\ IsFiniteSet(found)
  <2>1. found \subseteq 0..ROM_END - 1 /\ found \subseteq Nat
    <3>1. ASSUME NEW v \in found PROVE v \in 0..ROM_END - 1 /\ v \in Nat
      <4>1. v \in Nat /\ v < ROM_END /\ ROM_END \in Nat
        BY <1>3, <1>4, Sizes
      <4> QED BY <4>1
    <3> QED BY <3>1
  <2>2. IsFiniteSet(0..ROM_END - 1)
    <3>1. 0 \in Int /\ ROM_END - 1 \in Int
      BY Sizes
    <3> QED BY <3>1, FS_Interval
  <2> QED BY <2>1, <2>2, FS_Subset
<1>6. /\ seeds'[r] = found /\ pc'[r] = "analyze"
      /\ \A q \in RUNS \ {r} : seeds'[q] = seeds[q] /\ pc'[q] = pc[q]
  BY <1>1, <1>2
<1>7. FileOK'
  BY <1>1 DEF SeedInv, FileOK
<1>8. ReadTypes'
  BY <1>1, <1>2, <1>5 DEF SeedInv, ReadTypes
<1>9. ASSUME NEW q \in RUNS \ {r} PROVE ReadOK(q)'
  BY <1>1, <1>6, ReadKept
<1>10. Numbered(r) /\ (steady[r] => Extends(s, file))
  BY <1>1 DEF SeedInv, ReadOK
<1>11. Len(s) >= Len(file)
  <2>1. ~(Len(s) < Len(file))
    <3>1. ASSUME Len(s) < Len(file) PROVE FALSE
      <4>1. Len(s) < Len(Refilled(s, file))
        BY <1>2, <3>1, RefilledIs
      <4> QED BY <1>2, <4>1
    <3> QED BY <3>1
  <2> QED BY <1>2, <2>1
<1>12. ASSUME steady[r]
       PROVE  \E map \in SUBSET dumped : file = Dump(map) /\ found = {a \in map : a < ROM_END}
  <2>1. Extends(s, file) /\ whole
    BY <1>10, <1>12 DEF SeedInv, FileOK
  <2>2. Len(s) = Len(file)
    BY <1>2, <1>11, <2>1 DEF Extends
  <2>3. \A i \in 1..Len(s) : s[i] = file[i]
    <3>1. ASSUME NEW i \in 1..Len(s) PROVE s[i] = file[i]
      <4>1. i \in Nat /\ 1 <= i /\ i <= Len(s)
        BY <1>2
      <4> QED BY <2>1, <4>1 DEF Extends
    <3> QED BY <3>1
  <2>4. s = file
    BY <1>2, <2>2, <2>3, SeqEqual
  <2>5. PICK map \in SUBSET dumped : IsFiniteSet(map) /\ map \subseteq RECORDED /\ file = Dump(map)
    BY <2>1 DEF SeedInv, FileOK
  <2>6. map \subseteq Addresses
    BY <2>5, PipelineAssumption
  <2>7. Numbers(s) = map
    BY <2>4, <2>5, <2>6, NumbersOfDump
  <2>8. found = {a \in map : a < ROM_END}
    BY <1>4, <2>7
  <2> QED BY <2>5, <2>8
<1>13. Cardinality(found \ dumped) <= reads[r]
  <2>1. PICK cuts \in SUBSET Nat : IsFiniteSet(cuts) /\ Cardinality(cuts) <= reads[r] /\ Torn(r, cuts)
    BY <1>10 DEF Numbered
  <2> DEFINE f == [i \in cuts |-> Number(s, i)]
             T == {f[i] : i \in cuts}
  <2>2. f \in [cuts -> T] /\ \A v \in T : \E i \in cuts : f[i] = v
    OBVIOUS
  <2>3. f \in Surjection(cuts, T)
    <3> HIDE DEF f, T
    <3> QED BY <2>2 DEF Surjection
  <2>4. ASSUME NEW v \in found \ dumped PROVE v \in T
    <3>1. v \in Numbers(s)
      BY <1>4, <2>4
    <3>2. PICK i \in {j \in 0..Len(s) : j * WIDTH < Len(s)} : v = Number(s, i)
      <4> HIDE DEF s
      <4> QED BY <3>1 DEF Numbers
    <3>3. i \in Nat /\ i * WIDTH < Len(buf[r]) /\ v = Number(buf[r], i)
      BY <1>2, <3>2
    <3>4. i \in cuts
      BY <2>1, <2>4, <3>3 DEF Torn
    <3>5. f[i] = v
      BY <3>2, <3>4
    <3> HIDE DEF f
    <3> QED BY <3>4, <3>5
  <2> HIDE DEF f, T
  <2>5. IsFiniteSet(T) /\ Cardinality(T) <= Cardinality(cuts)
    BY <2>1, <2>3, FS_Surjection
  <2> DEFINE lost == found \ dumped
  <2>6. lost \in SUBSET T
    BY <2>4
  <2> HIDE DEF lost
  <2>7. IsFiniteSet(lost) /\ Cardinality(lost) <= Cardinality(T)
    BY <2>5, <2>6, FS_Subset
  <2>8. Cardinality(lost) \in Nat /\ Cardinality(T) \in Nat /\ Cardinality(cuts) \in Nat /\ reads[r] \in Nat
    BY <1>2, <2>1, <2>5, <2>7, FS_CardinalityType
  <2>9. Cardinality(lost) <= reads[r]
    BY <2>1, <2>5, <2>7, <2>8
  <2> QED BY <2>9 DEF lost
<1>14. Seeded(r)' /\ IsFiniteSet(seeds'[r])
  <2>1. seeds'[r] \subseteq 0..ROM_END - 1
    BY <1>5, <1>6
  <2>2. steady'[r] => \E map \in SUBSET dumped' : file' = Dump(map) /\ seeds'[r] = {a \in map : a < ROM_END}
    BY <1>1, <1>6, <1>12
  <2>3. Cardinality(seeds'[r] \ dumped') <= reads'[r]
    BY <1>1, <1>6, <1>13
  <2> QED BY <1>5, <1>6, <2>1, <2>2, <2>3 DEF Seeded
<1>15. ReadOK(r)'
  BY <1>6, <1>14 DEF ReadOK
<1> QED BY <1>7, <1>8, <1>9, <1>15 DEF SeedInv

\* A step of the game, which may end the steadiness of every reading.
LEMMA GameKept ==
    ASSUME SeedInv, UNCHANGED <<scenario, pc, buf, seeds, reads>>, dumped \subseteq dumped',
           \/ steady' = [r \in RUNS |-> FALSE]
           \/ steady' = steady /\ (file' = file \/ \A r \in RUNS : ~steady[r]),
           whole' \in BOOLEAN
    PROVE  ReadTypes' /\ \A r \in RUNS : ReadOK(r)'
<1>1. ReadTypes'
  <2>1. steady' \in [RUNS -> BOOLEAN]
    BY DEF SeedInv, ReadTypes
  <2> QED BY <2>1 DEF SeedInv, ReadTypes
<1>2. ASSUME NEW r \in RUNS PROVE ReadOK(r)'
  <2>1. steady'[r] => steady[r] /\ file' = file
    OBVIOUS
  <2> QED BY <2>1, ReadKept
<1> QED BY <1>1, <1>2

LEMMA GameStep ==
    ASSUME SeedInv, start \/ (\E a \in RECORDED : profile_record(a)) \/ profile_dump \/ flush \/ stop
    PROVE  SeedInv'
<1>0. UNCHANGED <<scenario, pc, buf, seeds, reads>>
  BY DEF start, profile_record, profile_dump, flush, stop, Others, run_vars
<1>1. whole \in BOOLEAN /\ IsFiniteSet(profile_map) /\ profile_map \subseteq RECORDED /\ file \in Seq(Nat)
  BY DEF SeedInv, ReadTypes, FileOK
<1>2. CASE start \/ stop \/ \E a \in RECORDED : profile_record(a)
  <2>1. UNCHANGED <<file, dumped, whole, steady>> /\ game' # "dump"
    BY <1>2 DEF start, stop, profile_record
  <2>2. IsFiniteSet(profile_map') /\ profile_map' \subseteq RECORDED
    <3>1. CASE start
      BY <3>1, FS_EmptySet DEF start
    <3>2. CASE stop
      BY <1>1, <3>2 DEF stop
    <3>3. CASE \E a \in RECORDED : profile_record(a)
      <4>1. PICK a \in RECORDED : profile_map' = profile_map \cup {a}
        BY <3>3 DEF profile_record
      <4> QED BY <1>1, <4>1, FS_AddElement
    <3> QED BY <1>2, <3>1, <3>2, <3>3
  <2>3. FileOK'
    BY <2>1, <2>2 DEF SeedInv, FileOK
  <2>4. ReadTypes' /\ \A r \in RUNS : ReadOK(r)'
    BY <1>0, <1>1, <2>1, GameKept
  <2> QED BY <2>3, <2>4 DEF SeedInv
<1>3. CASE profile_dump
  <2>1. /\ game' = "dump" /\ file' = <<>> /\ dumped' = dumped \cup profile_map /\ whole' = FALSE
        /\ steady' = [r \in RUNS |-> FALSE] /\ profile_map' = profile_map
    BY <1>3 DEF profile_dump
  <2>2. <<>> \in Seq(Nat)
    BY EmptySeq
  <2>3. profile_map \subseteq Addresses
    BY <1>1, PipelineAssumption
  <2>4. Extends(<<>>, Dump(profile_map))
    BY <1>1, <2>3, DumpIs, EmptyBegins
  <2>5. FileOK'
    BY <1>1, <2>1, <2>2, <2>4 DEF FileOK
  <2>6. ReadTypes' /\ \A r \in RUNS : ReadOK(r)'
    BY <1>0, <2>1, GameKept
  <2> QED BY <2>5, <2>6 DEF SeedInv
<1>4. CASE flush
  <2>1. /\ game = "dump" /\ file' = Flushed(file, profile_map) /\ (whole' = (file' = Dump(profile_map)))
        /\ UNCHANGED <<profile_map, dumped, steady>>
    BY <1>4 DEF flush
  <2>2. ~whole /\ profile_map \subseteq dumped
    BY <2>1 DEF SeedInv, FileOK
  <2>3. \A r \in RUNS : ~steady[r]
    BY <2>2 DEF SeedInv, FileOK
  <2>4. profile_map \subseteq Addresses
    BY <1>1, PipelineAssumption
  <2>5. file' \in Seq(Nat) /\ Extends(file', Dump(profile_map))
    BY <1>1, <2>1, <2>4, FlushedIs
  <2>6. game' = "dump" => ~whole'
    BY <1>4 DEF flush
  <2>7. whole' \in BOOLEAN
    BY <2>1
  <2>8. whole' => file' = Dump(profile_map)
    BY <2>1
  <2>9. FileOK'
    BY <1>1, <2>1, <2>2, <2>3, <2>5, <2>6, <2>8 DEF FileOK
  <2>10. ReadTypes' /\ \A r \in RUNS : ReadOK(r)'
    BY <1>0, <2>1, <2>3, <2>7, GameKept
  <2> QED BY <2>9, <2>10 DEF SeedInv
<1> QED BY <1>2, <1>3, <1>4

LEMMA SeedNext == IInv /\ SeedInv /\ [Next]_vars => SeedInv'
<1> SUFFICES ASSUME IInv, SeedInv, [Next]_vars PROVE SeedInv'
  OBVIOUS
<1>0. pc \in [RUNS -> Steps]
  BY DEF IInv, TypeOK
<1>1. ASSUME NEW r \in RUNS, Run(r) PROVE SeedInv'
  <2>1. CASE must(r)
    BY <1>0, <2>1, LaterStep DEF must, Goto, Keep, Early
  <2>2. CASE parseFlags(r)
    <3>1. UNCHANGED <<game_vars, buf, seeds, reads>> /\ pc[r] = "parseFlags"
      BY <2>2 DEF parseFlags, At, Keep
    <3>2. CASE scenario.options[r].profile
      <4>1. pc' = [pc EXCEPT ![r] = "open"]
        BY <2>2, <3>2 DEF parseFlags, Goto
      <4> QED BY <1>0, <3>1, <4>1, LaterStep
    <3>3. CASE ~scenario.options[r].profile
      <4>1. pc' = [pc EXCEPT ![r] = "analyze"]
        BY <2>2, <3>3 DEF parseFlags, Goto
      <4> QED BY <1>0, <3>1, <3>3, <4>1, LaterStep
    <3> QED BY <3>2, <3>3
  <2>3. CASE open(r)
    BY <1>0, <2>3, OpenStep
  <2>4. CASE read(r)
    BY <1>0, <2>4, ChunkRead, EndRead
  <2>5. CASE ~(must(r) \/ parseFlags(r) \/ open(r) \/ read(r))
    <3>1. UNCHANGED <<game_vars, buf, seeds, reads>>
      BY <1>1, <2>5
      DEF Run, analyze, generate, opt, save, extractRuntime, compile, compileRuntime, link, return, At, Keep
    <3>2. \E s \in Steps \ Early : pc' = [pc EXCEPT ![r] = s]
      <4>1. PICK s \in {"generate", "opt", "save", "extract", "compile", "compileRuntime", "link", "return", "ok", "failed"} :
               pc' = [pc EXCEPT ![r] = s]
        BY <1>1, <2>5
        DEF Run, analyze, generate, opt, save, extractRuntime, compile, compileRuntime, link, return, finish, Goto
      <4>2. s \in Steps \ Early
        BY <4>1 DEF Steps, Early, Working
      <4> QED BY <4>1, <4>2
    <3> QED BY <1>0, <3>1, <3>2, LaterStep
  <2> QED BY <1>1, <2>1, <2>2, <2>3, <2>4, <2>5 DEF Run
<1>2. CASE start \/ (\E a \in RECORDED : profile_record(a)) \/ profile_dump \/ flush \/ stop
  BY <1>2, GameStep
<1>3. CASE UNCHANGED vars
  <2>1. UNCHANGED <<scenario, pc, buf, seeds, reads, game, profile_map, file, dumped, whole, steady>>
    BY <1>3 DEF vars, run_vars, game_vars
  <2>2. FileOK'
    BY <2>1 DEF SeedInv, FileOK
  <2>3. ReadTypes' /\ \A r \in RUNS : ReadOK(r)'
    BY <2>1, GameKept DEF SeedInv, ReadTypes
  <2> QED BY <2>2, <2>3 DEF SeedInv
<1> QED BY <1>1, <1>2, <1>3 DEF Next

\* The seeds lie in the ROM; of a profile that was complete and stayed, they are all its
\* addresses there; of one cut off by a kill or overtaken by the reader, all but at most one per chunk
\* read were recorded (profile_dump, readSeeds): for any base, length of an address and
\* size of the buffers, and any number of runs, dumps and addresses.
THEOREM SeedsAreRecorded == Spec => []SeedsRecorded
<1>1. SeedInv => SeedsRecorded
  BY DEF SeedInv, ReadOK, Seeded, SeedsRecorded
<1>2. IInv /\ SeedInv /\ [Next]_vars => SeedInv'
  BY SeedNext
<1> QED
  BY <1>1, <1>2, SeedInit, Invariant, PTL DEF Spec
=============================================================================
