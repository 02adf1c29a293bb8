------------------------- MODULE PluginLifecycleProofs -------------------------
(***************************************************************************)
(* The loader and the unload paths for any packages, any acyclic needs and *)
(* any number of loads and clicks: one widget and one host per plugin, and *)
(* nothing loses what it needs without the user having been asked.         *)
(***************************************************************************)
EXTENDS PluginLifecycle, SequenceTheorems, TLAPS

USE PluginLifecycleAssumption DEF PluginLifecycleAssumption

-----------------------------------------------------------------------------
(* The loader's books *)

\* A load names one plugin as long as it is under way, waits only for what its
\* kind of plugin waits for, and leaves its number to at most one widget.
JobsFit ==
    /\ \A j \in Job :
         /\ j > jobs => job[j] = Idle
         /\ InFlight(j) => \E u \in Ui : job[j].name = {u}
         /\ ~InFlight(j) => job[j].name = {}
         /\ job[j].stage = "thread" => job[j].name \subseteq Legacy
         /\ job[j].stage = "host" => job[j].name \subseteq Hosted
    /\ \A u \in Ui : mounted[u] # 0 => mounted[u] <= jobs /\ ~InFlight(mounted[u])
    /\ \A u, v \in Ui : mounted[u] = mounted[v] /\ mounted[u] # 0 => u = v

JobShape == [name : AtMostOne, stage : Stage, todo : SUBSET Core]

Shapes ==
    /\ job \in [Job -> JobShape] /\ jobs \in 0..MaxJobs
    /\ loading = Loading
    /\ mounted \in [Ui -> 0..MaxJobs] /\ hosts \in SUBSET Job

Books == Shapes /\ JobsFit /\ OneWidgetPerPlugin /\ HostsAreOwned

\* What a load is about, and that nothing else is about it.
LEMMA OneLoad ==
    ASSUME Books, NEW j \in Job, InFlight(j)
    PROVE  \E u \in Ui : /\ job[j].name = {u} /\ mounted[u] = 0 /\ u \in loading
                         /\ \A i \in Job \ {j} : u \notin job[i].name
                         /\ \A v \in Ui : mounted[v] # j
<1>1. PICK u \in Ui : job[j].name = {u}
  BY DEF Books, JobsFit
<1>2. u \in loading
  BY <1>1 DEF Books, Shapes, Loading
<1>3. u \notin Mounted
  BY <1>2 DEF Books, Shapes, OneWidgetPerPlugin
<1>4. \A i \in Job \ {j} : u \notin job[i].name
  BY <1>1 DEF Books, OneWidgetPerPlugin
<1>5. \A v \in Ui : mounted[v] # j
  BY DEF Books, JobsFit, Job
<1> QED
  BY <1>1, <1>2, <1>3, <1>4, <1>5 DEF Mounted

\* A load that goes on changes its stage and what it still has to load.
LEMMA Goes ==
    ASSUME Books, NEW j \in Job, InFlight(j),
           NEW stage \in Stage \ {"none", "over"},
           job' \in [Job -> JobShape], job'[j].name = job[j].name, job'[j].stage = stage,
           \A i \in Job \ {j} : job'[i] = job[i],
           stage = "thread" => job[j].name \subseteq Legacy,
           stage = "host" => job[j].name \subseteq Hosted,
           UNCHANGED <<jobs, loading, mounted>>,
           hosts' = IF stage \in {"host", "compiling"} /\ job[j].name \subseteq Hosted
                      THEN hosts \cup {j} ELSE hosts \ {j}
    PROVE  Books'
<1>1. /\ job'[j].name = job[j].name /\ job'[j].stage = stage
      /\ \A i \in Job \ {j} : job'[i] = job[i]
  OBVIOUS
<1>2. \A i \in Job : job'[i].name = job[i].name /\ (InFlight(i)' <=> InFlight(i))
  BY <1>1 DEF InFlight
<1>3. job' \in [Job -> JobShape]
  OBVIOUS
<1>4. Loading' = Loading
  BY <1>2 DEF Loading
<1>5. Shapes'
  BY <1>3, <1>4 DEF Books, Shapes
<1>6. JobsFit'
  <2>1. j <= jobs
    <3>1. job[j] # Idle
      BY DEF InFlight, Idle
    <3> QED
      BY <3>1 DEF Books, JobsFit, Shapes, Job
  <2>2. \A u \in Ui : mounted[u] # 0 => mounted[u] \in Job
    BY DEF Books, Shapes, Job
  <2>3. \A i \in Job : i > jobs => i # j
    BY <2>1 DEF Books, Shapes, Job
  <2>4. ASSUME NEW i \in Job
        PROVE  /\ i > jobs => job'[i] = Idle
               /\ InFlight(i)' => \E u \in Ui : job'[i].name = {u}
               /\ ~InFlight(i)' => job'[i].name = {}
               /\ job'[i].stage = "thread" => job'[i].name \subseteq Legacy
               /\ job'[i].stage = "host" => job'[i].name \subseteq Hosted
    BY <1>1, <1>2, <2>3 DEF Books, JobsFit
  <2>5. \A u \in Ui : mounted[u] # 0 => mounted[u] <= jobs /\ ~InFlight(mounted[u])'
    BY <1>2, <2>2 DEF Books, JobsFit
  <2>6. \A u, v \in Ui : mounted[u] = mounted[v] /\ mounted[u] # 0 => u = v
    BY DEF Books, JobsFit
  <2> QED
    BY <2>4, <2>5, <2>6 DEF JobsFit
<1>7. OneWidgetPerPlugin'
  BY <1>2, <1>4 DEF Books, OneWidgetPerPlugin, Mounted
<1>8. HostsAreOwned'
  <2>1. \A u \in Hosted : mounted[u] # j
    BY OneLoad
  <2> QED
    BY <1>1, <2>1 DEF Books, HostsAreOwned
<1> QED
  BY <1>5, <1>6, <1>7, <1>8 DEF Books

\* A load that ends, with its widget in place or not.
LEMMA Finishes ==
    ASSUME Books, NEW j \in Job, InFlight(j), Mount(j) \/ Fail(j), UNCHANGED jobs,
           job[j].stage \in {"thread", "compiling"} \/ ~Mount(j)
    PROVE  Books'
<1>1. PICK u \in Ui : /\ job[j].name = {u} /\ mounted[u] = 0 /\ u \in loading
                      /\ \A i \in Job \ {j} : u \notin job[i].name
                      /\ \A v \in Ui : mounted[v] # j
  BY OneLoad
<1>2. /\ job' = [job EXCEPT ![j] = Over] /\ loading' = loading \ {u}
      /\ \/ mounted' = [v \in Ui |-> IF v = u THEN j ELSE mounted[v]] /\ hosts' = hosts
            /\ job[j].stage \in {"thread", "compiling"}
         \/ mounted' = mounted /\ hosts' = hosts \ {j}
  BY <1>1 DEF Mount, Fail
<1>3. /\ job'[j] = Over /\ \A i \in Job \ {j} : job'[i] = job[i]
  BY <1>2 DEF Books, Shapes
<1>4. Over \in JobShape /\ Over.name = {} /\ Over.stage = "over"
  BY DEF Over, JobShape, AtMostOne, Stage
<1>5. job' \in [Job -> JobShape]
  BY <1>2, <1>4 DEF Books, Shapes
<1>6. /\ InFlight(j)' = FALSE /\ \A i \in Job \ {j} : InFlight(i)' <=> InFlight(i)
  BY <1>3, <1>4 DEF InFlight
<1>7. Loading' = Loading \ {u}
  BY <1>1, <1>3, <1>4 DEF Loading
<1>8. j \in 0..MaxJobs /\ j # 0 /\ j <= jobs
  <2>1. job[j] # Idle
    BY DEF InFlight, Idle
  <2> QED
    BY <2>1 DEF Books, JobsFit, Shapes, Job
<1>9. Shapes'
  <2>1. loading' = Loading'
    BY <1>2, <1>7 DEF Books, Shapes
  <2>2. mounted' \in [Ui -> 0..MaxJobs] /\ hosts' \in SUBSET Job
    <3>1. CASE mounted' = mounted /\ hosts' = hosts \ {j}
      BY <3>1 DEF Books, Shapes
    <3>2. CASE mounted' = [v \in Ui |-> IF v = u THEN j ELSE mounted[v]] /\ hosts' = hosts
      BY <1>8, <3>2 DEF Books, Shapes
    <3> QED
      BY <1>2, <3>1, <3>2
  <2> QED
    BY <1>5, <2>1, <2>2 DEF Books, Shapes
<1>10. \A v \in Ui : mounted'[v] # 0 =>
          \/ v = u /\ mounted'[v] = j
          \/ mounted'[v] = mounted[v] /\ mounted[v] \in Job \ {j}
  BY <1>1, <1>2 DEF Books, Shapes, Job
<1>11. JobsFit'
  <2>1. \A i \in Job : i > jobs => i # j
    BY <1>8 DEF Books, Shapes, Job
  <2>2. ASSUME NEW i \in Job
        PROVE  /\ i > jobs => job'[i] = Idle
               /\ InFlight(i)' => \E v \in Ui : job'[i].name = {v}
               /\ ~InFlight(i)' => job'[i].name = {}
               /\ job'[i].stage = "thread" => job'[i].name \subseteq Legacy
               /\ job'[i].stage = "host" => job'[i].name \subseteq Hosted
    BY <1>3, <1>4, <1>6, <2>1 DEF Books, JobsFit
  <2>3. \A v \in Ui : mounted'[v] # 0 => mounted'[v] <= jobs /\ ~InFlight(mounted[v])'
    BY <1>6, <1>8, <1>10 DEF Books, JobsFit
  <2>4. \A v, w \in Ui : mounted'[v] = mounted'[w] /\ mounted'[v] # 0 => v = w
    BY <1>10 DEF Books, JobsFit
  <2> QED
    BY <2>2, <2>3, <2>4 DEF JobsFit
<1>12. OneWidgetPerPlugin'
  <2>1. \A i, k \in Job : i # k => job'[i].name \cap job'[k].name = {}
    BY <1>3, <1>4 DEF Books, OneWidgetPerPlugin
  <2>2. Mounted' \subseteq Mounted \cup {u}
    BY <1>10 DEF Mounted
  <2> QED
    BY <1>7, <2>1, <2>2 DEF Books, OneWidgetPerPlugin
<1>13. HostsAreOwned'
  <2>1. j \notin hosts <=> ~(job[j].stage \in {"host", "compiling"} /\ u \in Hosted)
    BY <1>1 DEF Books, HostsAreOwned
  <2>2. \A i \in Job \ {j} : i \in hosts <=> i \in hosts'
    BY <1>2
  <2>3. \A i \in Job \ {j} : (\E v \in Hosted : mounted'[v] = i) <=> \E v \in Hosted : mounted[v] = i
    BY <1>1, <1>2, <1>10 DEF Books, Shapes, Job
  <2>4. \A i \in Job \ {j} : i \in hosts' <=>
           \/ job'[i].stage \in {"host", "compiling"} /\ job'[i].name \subseteq Hosted
           \/ \E v \in Hosted : mounted'[v] = i
    BY <1>3, <2>2, <2>3 DEF Books, HostsAreOwned
  <2>5. j \in hosts' <=> \E v \in Hosted : mounted'[v] = j
    <3>1. CASE mounted' = mounted /\ hosts' = hosts \ {j}
      BY <1>1, <3>1
    <3>2. CASE /\ mounted' = [v \in Ui |-> IF v = u THEN j ELSE mounted[v]] /\ hosts' = hosts
               /\ job[j].stage \in {"thread", "compiling"}
      <4>1. job[j].stage = "thread" => u \notin Hosted
        BY <1>1 DEF Books, JobsFit
      <4>2. (\E v \in Hosted : mounted'[v] = j) <=> u \in Hosted
        BY <1>1, <3>2
      <4> QED
        BY <2>1, <3>2, <4>1, <4>2
    <3> QED
      BY <1>2, <3>1, <3>2
  <2> QED
    BY <1>3, <1>4, <1>9, <2>4, <2>5 DEF HostsAreOwned, Shapes
<1> QED
  BY <1>9, <1>11, <1>12, <1>13 DEF Books

\* A load that begins.
LEMMA Begins ==
    ASSUME Books, NEW u \in Ui, LoadUiModule(u)
    PROVE  Books'
<1>1. CASE UNCHANGED <<job, jobs, loading, mounted, hosts>>
  BY <1>1 DEF Books, Shapes, JobsFit, OneWidgetPerPlugin, HostsAreOwned, Loading, Mounted, InFlight
<1>2. CASE /\ mounted[u] = 0 /\ u \notin loading /\ jobs < MaxJobs /\ jobs' = jobs + 1
           /\ job' = [job EXCEPT ![jobs + 1] =
                        [name |-> {u}, stage |-> "dependencies", todo |-> Needs[u]]]
           /\ loading' = loading \cup {u} /\ UNCHANGED <<mounted, hosts>>
  <2>j. PICK j \in Job : j = jobs + 1
    BY <1>2 DEF Books, Shapes, Job
  <2> DEFINE load == [name |-> {u}, stage |-> "dependencies", todo |-> Needs[u]]
  <2>1. j \in Job /\ j > jobs
    BY <2>j DEF Books, Shapes, Job
  <2>2. job[j] = Idle /\ job[j].name = {} /\ ~InFlight(j)
    BY <2>1 DEF Books, JobsFit, Idle, InFlight
  <2>3. load \in JobShape
    BY DEF JobShape, AtMostOne, Stage, Package
  <2>4. /\ job'[j] = load /\ load.name = {u} /\ load.stage = "dependencies"
        /\ \A i \in Job \ {j} : job'[i] = job[i]
    BY <1>2, <2>1, <2>j DEF Books, Shapes
  <2>5. job' \in [Job -> JobShape]
    BY <1>2, <2>3, <2>j DEF Books, Shapes
  <2>6. \A i \in Job : i > jobs' => i > jobs /\ i # j
    BY <1>2, <2>j DEF Books, Shapes, Job
  <2>0. jobs' \in 0..MaxJobs /\ \A n \in 0..MaxJobs : n <= jobs => n <= jobs' /\ n # j
    BY <1>2, <2>j DEF Books, Shapes
  <2> HIDE DEF load
  <2>7. InFlight(j)' = TRUE /\ \A i \in Job \ {j} : InFlight(i)' <=> InFlight(i)
    BY <2>4 DEF InFlight
  <2>8. Loading' = Loading \cup {u}
    BY <2>1, <2>2, <2>4 DEF Loading
  <2>9. Shapes'
    BY <1>2, <2>0, <2>5, <2>8 DEF Books, Shapes
  <2>10. \A v \in Ui : mounted[v] # 0 => mounted[v] \in Job \ {j}
    <3>1. \A v \in Ui : mounted[v] # 0 => mounted[v] \in Job /\ mounted[v] <= jobs
      BY DEF Books, Shapes, JobsFit, Job
    <3>2. \A v \in Ui : mounted[v] \in 0..MaxJobs
      BY DEF Books, Shapes
    <3> QED
      BY <2>0, <3>1, <3>2
  <2>11. JobsFit'
    <3>1. ASSUME NEW i \in Job
          PROVE  /\ i > jobs' => job'[i] = Idle
                 /\ InFlight(i)' => \E v \in Ui : job'[i].name = {v}
                 /\ ~InFlight(i)' => job'[i].name = {}
                 /\ job'[i].stage = "thread" => job'[i].name \subseteq Legacy
                 /\ job'[i].stage = "host" => job'[i].name \subseteq Hosted
      BY <2>4, <2>6, <2>7 DEF Books, JobsFit
    <3>2. \A v \in Ui : mounted'[v] # 0 => mounted'[v] <= jobs' /\ ~InFlight(mounted[v])'
      BY <1>2, <2>0, <2>7, <2>10 DEF Books, Shapes, JobsFit
    <3>3. \A v, w \in Ui : mounted'[v] = mounted'[w] /\ mounted'[v] # 0 => v = w
      BY <1>2 DEF Books, JobsFit
    <3> QED
      BY <3>1, <3>2, <3>3 DEF JobsFit
  <2>12. OneWidgetPerPlugin'
    <3>1. \A i \in Job : u \notin job[i].name
      BY <1>2 DEF Books, Shapes, Loading
    <3>2. \A i, k \in Job : i # k => job'[i].name \cap job'[k].name = {}
      BY <2>4, <3>1 DEF Books, OneWidgetPerPlugin
    <3> QED
      BY <1>2, <2>8, <3>2 DEF Books, OneWidgetPerPlugin, Mounted
  <2>13. HostsAreOwned'
    <3>1. j \notin hosts /\ \A v \in Hosted : mounted[v] # j
      BY <2>1, <2>2, <2>10 DEF Books, HostsAreOwned, Idle, Job
    <3> QED
      BY <1>2, <2>4, <3>1 DEF Books, HostsAreOwned
  <2> QED
    BY <2>9, <2>11, <2>12, <2>13 DEF Books
<1> QED
  BY <1>1, <1>2 DEF LoadUiModule

\* Widgets go, each with its host.
LEMMA TornDown ==
    ASSUME Books, NEW names, Teardown(names), UNCHANGED <<job, jobs, loading>>
    PROVE  Books'
<1>1. /\ mounted' = [u \in Ui |-> IF u \in names THEN 0 ELSE mounted[u]]
      /\ hosts' = hosts \ {mounted[u] : u \in names \cap Ui}
  BY DEF Teardown
<1>2. \A u \in Ui : mounted'[u] # 0 => mounted'[u] = mounted[u] /\ u \notin names
  BY <1>1
<1>3. /\ Loading' = Loading /\ \A i \in Job : InFlight(i)' <=> InFlight(i)
  BY DEF Loading, InFlight
<1>4. \A u \in Ui : mounted[u] # 0 => mounted[u] \in Job
  BY DEF Books, Shapes, Job
<1>5. Shapes'
  BY <1>1, <1>3 DEF Books, Shapes
<1>6. JobsFit'
  BY <1>2, <1>3, <1>4 DEF Books, JobsFit
<1>7. OneWidgetPerPlugin'
  BY <1>2, <1>3 DEF Books, OneWidgetPerPlugin, Mounted
<1>8. HostsAreOwned'
  <2> SUFFICES ASSUME NEW i \in Job
               PROVE  i \in hosts' <=>
                        \/ job[i].stage \in {"host", "compiling"} /\ job[i].name \subseteq Hosted
                        \/ \E u \in Hosted : mounted'[u] = i
    BY <1>5 DEF HostsAreOwned, Shapes
  <2>0. i # 0
    BY DEF Job
  <2>1. CASE \E u \in Ui : u \in names /\ mounted[u] = i
    <3>1. PICK u \in Ui : u \in names /\ mounted[u] = i
      BY <2>1
    <3>2. i \notin hosts' /\ ~InFlight(i)
      BY <1>1, <2>0, <3>1 DEF Books, JobsFit
    <3>3. \A v \in Ui : mounted'[v] # i
      BY <1>1, <2>0, <3>1 DEF Books, JobsFit
    <3> QED
      BY <3>2, <3>3 DEF InFlight
  <2>2. CASE ~\E u \in Ui : u \in names /\ mounted[u] = i
    <3>1. i \in hosts' <=> i \in hosts
      BY <1>1, <2>2
    <3>2. \A u \in Ui : mounted'[u] = i <=> mounted[u] = i
      BY <1>1, <2>0, <2>2
    <3> QED
      BY <3>1, <3>2 DEF Books, HostsAreOwned
  <2> QED
    BY <2>1, <2>2
<1> QED
  BY <1>5, <1>6, <1>7, <1>8 DEF Books

LEMMA BooksUntouched ==
    ASSUME Books, UNCHANGED <<job, jobs, loading, mounted, hosts>>
    PROVE  Books'
  BY DEF Books, Shapes, JobsFit, OneWidgetPerPlugin, HostsAreOwned, Loading, Mounted, InFlight

-----------------------------------------------------------------------------
(* The unloads, and the whole step *)

\* Only a cascade goes on after its effect; a plain load is one of a core module.
CallsFit ==
    /\ calls \in Seq(Call)
    /\ \A n \in DOMAIN calls : /\ calls[n].do \in {"load", "unload"} => ~calls[n].done
                               /\ calls[n].do = "load" => calls[n].name \in Core

Rest ==
    /\ running \in SUBSET Core
    /\ posted \in Seq(Work)
    /\ pendingUnload \in AtMostOne /\ dialog \in AtMostOne
    /\ clicks \in 0..MaxClicks
    /\ excused \in SUBSET Package
    /\ PendingUnloadIsAsked
    /\ \A n \in DOMAIN posted : posted[n].do = "load" => posted[n].name \in Core
    /\ dependents \in [Package -> SUBSET Package]
    /\ CallsFit

\* A click is queued last,
LEMMA Queued ==
    ASSUME posted \in Seq(Work), NEW w \in Work, posted' = Append(posted, w)
    PROVE  /\ posted' \in Seq(Work)
           /\ \A n \in DOMAIN posted' :
                 \/ n \in DOMAIN posted /\ posted'[n] = posted[n]
                 \/ n = Len(posted) + 1 /\ posted'[n] = w
<1>1. /\ Len(posted') = Len(posted) + 1 /\ Len(posted) \in Nat /\ posted' \in Seq(Work)
      /\ DOMAIN posted' = 1..Len(posted) + 1 /\ DOMAIN posted = 1..Len(posted)
      /\ posted'[Len(posted) + 1] = w
  OBVIOUS
<1>2. \A n \in DOMAIN posted : posted'[n] = posted[n]
  OBVIOUS
<1>3. \A n \in DOMAIN posted' : n \in DOMAIN posted \/ n = Len(posted) + 1
  BY <1>1
<1> QED
  BY <1>1, <1>2, <1>3

\* and the event loop takes the first.
LEMMA Dequeued ==
    ASSUME posted \in Seq(Work), posted # <<>>, posted' = Tail(posted)
    PROVE  /\ posted' \in Seq(Work) /\ 1 \in DOMAIN posted /\ Head(posted) = posted[1]
           /\ Head(posted) \in Work
           /\ \A n \in DOMAIN posted' : /\ n + 1 \in DOMAIN posted /\ n + 1 # 1
                                        /\ posted'[n] = posted[n + 1]
<1>1. /\ Len(posted) \in Nat \ {0} /\ DOMAIN posted = 1..Len(posted) /\ Head(posted) = posted[1]
      /\ posted' \in Seq(Work) /\ DOMAIN posted' = 1..Len(posted) - 1
  OBVIOUS
<1>2. \A n \in 1..Len(posted) - 1 : posted'[n] = posted[n + 1]
  OBVIOUS
<1>3. \A n \in 1..Len(posted) - 1 : n + 1 \in 1..Len(posted) /\ n + 1 # 1
  BY <1>1
<1>4. 1 \in DOMAIN posted /\ posted[1] \in Work
  BY <1>1
<1> QED
  BY <1>1, <1>2, <1>3, <1>4

\* A call goes on top of those under way,
LEMMA Pushed ==
    ASSUME CallsFit, NEW f \in Call, ~f.done, f.do = "load" => f.name \in Core,
           calls' = Append(calls, f)
    PROVE  /\ CallsFit'
           /\ \A n \in DOMAIN calls' :
                 \/ n \in DOMAIN calls /\ calls'[n] = calls[n]
                 \/ n = Len(calls) + 1 /\ calls'[n] = f
           /\ \A n \in DOMAIN calls : n \in DOMAIN calls' /\ calls'[n] = calls[n]
<1>0. calls \in Seq(Call)
  BY DEF CallsFit
<1>1. /\ Len(calls') = Len(calls) + 1 /\ Len(calls) \in Nat /\ calls' \in Seq(Call)
      /\ DOMAIN calls' = 1..Len(calls) + 1 /\ DOMAIN calls = 1..Len(calls)
      /\ calls'[Len(calls) + 1] = f
  BY <1>0
<1>2. \A n \in DOMAIN calls : calls'[n] = calls[n]
  BY <1>0
<1>3. \A n \in DOMAIN calls' : n \in DOMAIN calls \/ n = Len(calls) + 1
  BY <1>1
<1>4. \A n \in DOMAIN calls : n \in DOMAIN calls'
  BY <1>1
<1> QED
  BY <1>1, <1>2, <1>3, <1>4 DEF CallsFit

\* gets on only while it is the innermost,
LEMMA Inner ==
    ASSUME CallsFit, calls # <<>>
    PROVE  /\ Len(calls) \in DOMAIN calls /\ Innermost = calls[Len(calls)] /\ Innermost \in Call
           /\ Innermost.do \in {"load", "unload"} => ~Innermost.done
           /\ Innermost.do = "load" => Innermost.name \in Core
<1>1. calls \in Seq(Call)
  BY DEF CallsFit
<1>2. Len(calls) \in DOMAIN calls /\ calls[Len(calls)] \in Call
  BY <1>1
<1> QED
  BY <1>2 DEF CallsFit, Innermost

\* is marked when it has taken effect,
LEMMA Marked ==
    ASSUME CallsFit, calls # <<>>, Innermost.do \notin {"load", "unload"},
           calls' = [calls EXCEPT ![Len(calls)].done = TRUE]
    PROVE  /\ CallsFit' /\ DOMAIN calls' = DOMAIN calls
           /\ \A n \in DOMAIN calls : /\ calls'[n].do = calls[n].do
                                      /\ calls'[n].name = calls[n].name
                                      /\ calls'[n].deps = calls[n].deps
                                      /\ n # Len(calls) => calls'[n] = calls[n]
           /\ calls'[Len(calls)].done
<1>1. /\ calls \in Seq(Call) /\ Len(calls) \in DOMAIN calls /\ Innermost = calls[Len(calls)]
      /\ Innermost \in Call
  BY Inner DEF CallsFit
<1>2. /\ DOMAIN calls' = DOMAIN calls /\ calls'[Len(calls)] = [Innermost EXCEPT !.done = TRUE]
      /\ \A n \in DOMAIN calls : n # Len(calls) => calls'[n] = calls[n]
  BY <1>1
<1>3. /\ [Innermost EXCEPT !.done = TRUE] \in Call
      /\ [Innermost EXCEPT !.done = TRUE].do = Innermost.do
      /\ [Innermost EXCEPT !.done = TRUE].name = Innermost.name
      /\ [Innermost EXCEPT !.done = TRUE].deps = Innermost.deps
      /\ [Innermost EXCEPT !.done = TRUE].done
  BY <1>1 DEF Call
<1>4. calls' \in Seq(Call)
  <2>1. calls' = [calls EXCEPT ![Len(calls)] = [Innermost EXCEPT !.done = TRUE]]
    BY <1>1
  <2>2. Len(calls) \in 1..Len(calls)
    BY <1>1
  <2> QED
    BY <1>1, <1>3, <2>1, <2>2, ExceptSeq
<1> QED
  BY <1>1, <1>2, <1>3, <1>4 DEF CallsFit

\* and leaves the others to go on.
LEMMA Popped ==
    ASSUME CallsFit, calls # <<>>, Return
    PROVE  /\ CallsFit'
           /\ \A n \in DOMAIN calls' : n \in DOMAIN calls /\ calls'[n] = calls[n]
           /\ \A n \in DOMAIN calls : n = Len(calls) \/ n \in DOMAIN calls'
<1>1. calls \in Seq(Call) /\ Len(calls) \in Nat \ {0} /\ DOMAIN calls = 1..Len(calls)
  BY DEF CallsFit
<1>2. calls' = SubSeq(calls, 1, Len(calls) - 1)
  BY DEF Return
<1>3. /\ calls' \in Seq(Call) /\ DOMAIN calls' = 1..Len(calls) - 1
      /\ \A n \in 1..Len(calls) - 1 : calls'[n] = calls[n]
  BY <1>1, <1>2
<1>4. \A n \in 1..Len(calls) - 1 : n \in 1..Len(calls)
  BY <1>1
<1>5. \A n \in 1..Len(calls) : n = Len(calls) \/ n \in 1..Len(calls) - 1
  <2>1. PICK k \in Nat \ {0} : k = Len(calls)
    BY <1>1
  <2>2. \A n \in 1..k : n = k \/ n \in 1..k - 1
    OBVIOUS
  <2> QED
    BY <2>1, <2>2
<1> QED
  BY <1>1, <1>3, <1>4, <1>5 DEF CallsFit

LEMMA LoaderBooks == Books /\ Rest /\ Loader => Books' /\ Rest'
<1> SUFFICES ASSUME Books, Rest, Loader PROVE Books' /\ Rest'
  OBVIOUS
<1>1. PICK j \in Job : \/ LoadDependency(j) \/ Continue(j) \/ ThreadFinished(j)
                       \/ HostReady(j) \/ HostTimeout(j) \/ Compiled(j)
  BY DEF Loader
<1>2. /\ UNCHANGED jobs /\ UNCHANGED unloadVars /\ UNCHANGED excused
      /\ InFlight(j)
  BY <1>1 DEF LoadDependency, Continue, ThreadFinished, HostReady, HostTimeout, Compiled, InFlight
<1>3. /\ job[j].name \in AtMostOne /\ job[j].todo \in SUBSET Core /\ DOMAIN job = Job
      /\ job[j] \in JobShape /\ job \in [Job -> JobShape]
  BY DEF Books, Shapes, JobShape
<1>4. PICK u \in Ui : job[j].name = {u} /\ \A v \in Ui : mounted[v] # j
  BY <1>2, OneLoad
<1>5. job[j].stage = "dependencies" => j \notin hosts
  BY <1>4 DEF Books, HostsAreOwned
<1>6. running' \in SUBSET Core /\ Books'
  <2>1. ASSUME Mount(j) \/ Fail(j), job[j].stage \in {"thread", "compiling"} \/ ~Mount(j), running' = running
        PROVE  running' \in SUBSET Core /\ Books'
    BY <1>2, <2>1, Finishes DEF Rest
  <2>2. ASSUME NEW stage \in {"thread", "host", "compiling"}, Advance(j, stage), running' = running,
               stage = "thread" => job[j].name \subseteq Legacy,
               stage = "host" => job[j].name \subseteq Hosted,
               hosts' = IF stage \in {"host", "compiling"} /\ job[j].name \subseteq Hosted
                          THEN hosts \cup {j} ELSE hosts \ {j}
        PROVE  running' \in SUBSET Core /\ Books'
    <3>1. /\ job' \in [Job -> JobShape] /\ job'[j].name = job[j].name /\ job'[j].stage = stage
          /\ \A i \in Job \ {j} : job'[i] = job[i]
      BY <1>3, <2>2 DEF Advance, JobShape, Stage
    <3>2. UNCHANGED <<jobs, loading, mounted>> /\ stage \in Stage \ {"none", "over"}
      BY <1>2, <2>2 DEF Advance, Stage
    <3>3. Books'
      BY <1>2, <2>2, <3>1, <3>2, Goes
    <3> QED
      BY <2>2, <3>3 DEF Rest
  <2>3. CASE LoadDependency(j)
    <3>1. PICK c \in job[j].todo :
             \/ /\ running' = running \cup {c} \cup Needs[c]
                /\ job' = [job EXCEPT ![j].todo = @ \ {c}]
                /\ UNCHANGED <<loading, mounted, hosts>>
             \/ Fail(j) /\ UNCHANGED running
      BY <2>3 DEF LoadDependency
    <3>2. CASE Fail(j) /\ UNCHANGED running
      <4>1. ~Mount(j) \/ Fail(j)
        BY <3>2
      <4> QED
        BY <1>2, <1>4, <2>3, <3>2, Finishes DEF Rest, Mount, Fail
    <3>3. CASE /\ running' = running \cup {c} \cup Needs[c]
               /\ job' = [job EXCEPT ![j].todo = @ \ {c}]
               /\ UNCHANGED <<loading, mounted, hosts>>
      <4>1. c \in Core /\ running' \in SUBSET Core
        BY <1>3, <3>3 DEF Rest, Package
      <4>2. /\ job' \in [Job -> JobShape] /\ job'[j].name = job[j].name
            /\ job'[j].stage = "dependencies" /\ \A i \in Job \ {j} : job'[i] = job[i]
        BY <1>3, <2>3, <3>3 DEF LoadDependency, JobShape
      <4>3. hosts' = hosts \ {j} /\ "dependencies" \in Stage \ {"none", "over"}
        BY <1>5, <2>3, <3>3 DEF LoadDependency, Stage
      <4> QED
        BY <1>2, <1>3, <3>3, <4>1, <4>2, <4>3, Goes
    <3> QED
      BY <3>1, <3>2, <3>3
  <2>4. CASE Continue(j)
    <3>1. j \notin hosts /\ running' = running
      BY <1>5, <2>4 DEF Continue
    <3>2. CASE job[j].name \subseteq Legacy /\ Advance(j, "thread") /\ UNCHANGED hosts
      BY <2>2, <3>1, <3>2
    <3>3. CASE job[j].name \subseteq Hosted /\ Advance(j, "host") /\ hosts' = hosts \cup {j}
      BY <2>2, <3>1, <3>3
    <3>4. CASE /\ job[j].name \cap (Legacy \cup Hosted) = {}
               /\ Advance(j, "compiling") /\ UNCHANGED hosts
      <4>1. ~(job[j].name \subseteq Hosted)
        BY <1>4, <3>4
      <4> QED
        BY <2>2, <3>1, <3>4, <4>1
    <3>5. CASE job[j].name \cap Legacy = {} /\ Fail(j)
      <4>1. Fail(j) /\ ~Mount(j)
        BY <1>4, <3>5 DEF Mount, Fail
      <4> QED
        BY <2>1, <3>1, <4>1
    <3> QED
      BY <2>4, <3>2, <3>3, <3>4, <3>5 DEF Continue
  <2>5. CASE ThreadFinished(j)
    BY <2>1, <2>5 DEF ThreadFinished
  <2>6. CASE HostReady(j)
    <3>1. j \in hosts /\ job[j].name \subseteq Hosted /\ running' = running /\ hosts' = hosts
          /\ Advance(j, "compiling")
      BY <2>6 DEF HostReady, Books, JobsFit, HostsAreOwned
    <3> QED
      BY <2>2, <3>1
  <2>7. CASE HostTimeout(j)
    <3>1. Fail(j) /\ ~Mount(j) /\ running' = running
      BY <1>4, <2>7 DEF HostTimeout, Mount, Fail
    <3> QED
      BY <2>1, <3>1
  <2>8. CASE Compiled(j)
    BY <2>1, <2>8 DEF Compiled
  <2> QED
    BY <1>1, <2>3, <2>4, <2>5, <2>6, <2>7, <2>8
<1> QED
  BY <1>2, <1>6 DEF Rest, unloadVars, PendingUnloadIsAsked, CallsFit

\* Excuses are only kept for what is still there.
LEMMA Excused ==
    ASSUME Books, running' \in SUBSET Core, NEW more, Excuse(more)
    PROVE  /\ excused' \in SUBSET Package
           /\ \A p \in running' \cup {u \in Ui : mounted'[u] # 0} \cup Loading :
                 p \notin excused' => p \notin excused /\ p \notin more
  BY DEF Excuse, Books, Shapes, JobShape, Loading, AtMostOne, Package

\* What a click puts on the event loop.
LEMMA Clicked ==
    ASSUME Books, Rest, NEW work \in Work, Click(work), work.do = "load" => work.name \in Core
    PROVE  Books' /\ Rest'
<1>1. UNCHANGED <<job, jobs, loading, mounted, hosts>> /\ posted' = Append(posted, work)
  BY DEF Click
<1>2. clicks' \in 0..MaxClicks
  BY DEF Click, Rest
<1>3. posted' \in Seq(Work) /\ \A n \in DOMAIN posted' : posted'[n].do = "load" => posted'[n].name \in Core
  BY <1>1, Queued DEF Rest
<1> QED
  BY <1>1, <1>2, <1>3, BooksUntouched DEF Click, Rest, PendingUnloadIsAsked, CallsFit

\* What is taken from the event loop.
LEMMA Taken ==
    ASSUME Rest, RunPosted
    PROVE  \E p \in Package :
             /\ p = Head(posted).name
             /\ \/ Head(posted).do = "load" /\ p \in Core /\ BeginCall("load", p, {})
                \/ Head(posted).do = "unload" /\ RunUnload(p)
                \/ Head(posted).do = "unloadUi" /\ RunUnloadUi(p)
                \/ Head(posted).do = "cascade" /\ BeginCall("cascade", p, LoadedDependents(p))
             /\ UNCHANGED <<running, job, jobs, loading, clicks, dependents>>
             /\ posted # <<>> /\ posted' = Tail(posted)
<1>1. posted # <<>> /\ posted' = Tail(posted)
  BY DEF RunPosted
<1>2. Head(posted).name \in Package /\ (Head(posted).do = "load" => Head(posted).name \in Core)
  BY <1>1, Dequeued DEF Rest, Work
<1> QED
  BY <1>1, <1>2 DEF RunPosted

LEMMA BegunBooks ==
    ASSUME Rest, NEW what \in {"load", "unload", "cascade", "package"}, NEW p \in Package,
           what = "load" => p \in Core,
           NEW deps \in SUBSET Package, BeginCall(what, p, deps)
    PROVE  CallsFit'
<1> DEFINE f == [do |-> what, name |-> p, deps |-> deps, done |-> FALSE]
<1>1. f \in Call /\ ~f.done /\ f.do = what /\ f.name = p
  BY DEF Call
<1>2. calls' = Append(calls, f)
  BY DEF BeginCall
<1> HIDE DEF f
<1> QED
  BY <1>1, <1>2, Pushed DEF Rest

LEMMA RunBooks == Books /\ Rest /\ RunPosted => Books' /\ Rest'
<1> SUFFICES ASSUME Books, Rest, RunPosted PROVE Books' /\ Rest'
  OBVIOUS
<1>1. PICK p \in Package :
          /\ \/ p \in Core /\ BeginCall("load", p, {})
             \/ RunUnload(p) \/ RunUnloadUi(p) \/ BeginCall("cascade", p, LoadedDependents(p))
          /\ UNCHANGED <<running, job, jobs, loading, clicks, dependents>>
          /\ posted # <<>> /\ posted' = Tail(posted)
  BY Taken
<1>2. /\ posted' \in Seq(Work)
      /\ \A n \in DOMAIN posted' : posted'[n].do = "load" => posted'[n].name \in Core
  BY <1>1, Dequeued DEF Rest
<1>3. \/ pendingUnload' = pendingUnload /\ dialog' = dialog
      \/ pendingUnload' = {p} /\ dialog' = {p}
  BY <1>1 DEF BeginCall, RunUnload, RunUnloadUi, Ask
<1>4. pendingUnload' \in AtMostOne /\ dialog' \in AtMostOne /\ PendingUnloadIsAsked'
  BY <1>3 DEF Rest, AtMostOne, PendingUnloadIsAsked
<1>5. Books'
  <2>1. UNCHANGED <<mounted, hosts>> \/ \E names : Teardown(names)
    BY <1>1 DEF BeginCall, RunUnload, RunUnloadUi, Ask
  <2> QED
    BY <1>1, <2>1, BooksUntouched, TornDown
<1>6. running' \in SUBSET Core
  BY <1>1 DEF Rest
<1>7. excused' \in SUBSET Package
  <2>1. excused' = excused \/ \E more : Excuse(more)
    BY <1>1 DEF BeginCall, RunUnload, RunUnloadUi, Ask
  <2> QED
    BY <1>6, <2>1, Excused DEF Rest
<1>8. CallsFit'
  <2>0. LoadedDependents(p) \in SUBSET Package
    BY DEF LoadedDependents, Rest
  <2>1. ASSUME UNCHANGED calls PROVE CallsFit'
    BY <2>1 DEF Rest, CallsFit
  <2>2. CASE p \in Core /\ BeginCall("load", p, {})
    BY <2>2, BegunBooks
  <2>3. CASE BeginCall("cascade", p, LoadedDependents(p))
    BY <2>0, <2>3, BegunBooks
  <2>4. CASE RunUnload(p)
    BY <2>0, <2>1, <2>4, BegunBooks DEF RunUnload, Ask
  <2>5. CASE RunUnloadUi(p)
    BY <2>1, <2>5 DEF RunUnloadUi, Ask
  <2> QED
    BY <1>1, <2>2, <2>3, <2>4, <2>5
<1> QED
  BY <1>1, <1>2, <1>4, <1>5, <1>6, <1>7, <1>8 DEF Rest

LEMMA CallBooks == Books /\ Rest /\ RunCall => Books' /\ Rest'
<1> SUFFICES ASSUME Books, Rest, RunCall PROVE Books' /\ Rest'
  OBVIOUS
<1>1. /\ calls # <<>>
      /\ CallLoads \/ CallUnloads \/ CallUnloadsAll \/ CallFails \/ CallReturns
      /\ UNCHANGED <<job, jobs, loading, posted, pendingUnload, dialog, clicks, dependents>>
  BY DEF RunCall
<1>2. CallsFit /\ Innermost \in Call /\ (Innermost.do = "load" => Innermost.name \in Core)
  BY <1>1, Inner DEF Rest
<1>3. running' \in SUBSET Core
  <2>1. CASE CallLoads
    <3>1. Innermost.name \in Core /\ Needs[Innermost.name] \subseteq Core
      BY <1>2, <2>1 DEF CallLoads, Package
    <3> QED
      BY <2>1, <3>1 DEF CallLoads, Rest
  <2>2. CASE CallUnloads \/ CallUnloadsAll \/ CallFails \/ CallReturns
    BY <2>2 DEF CallUnloads, CallUnloadsAll, CallFails, CallReturns, Rest
  <2> QED
    BY <1>1, <2>1, <2>2
<1>4. Books'
  <2>1. UNCHANGED <<mounted, hosts>> \/ \E names : Teardown(names)
    BY <1>1 DEF CallLoads, CallUnloads, CallUnloadsAll, CallFails, CallReturns
  <2> QED
    BY <1>1, <2>1, BooksUntouched, TornDown
<1>5. excused' \in SUBSET Package
  <2>1. excused' = excused \/ \E more : Excuse(more)
    BY <1>1 DEF CallLoads, CallUnloads, CallUnloadsAll, CallFails, CallReturns
  <2> QED
    BY <1>3, <2>1, Excused DEF Rest
<1>6. CallsFit'
  <2>1. CASE Return
    BY <1>1, <1>2, <2>1, Popped
  <2>2. CASE /\ Innermost.do \in {"cascade", "package"}
             /\ calls' = [calls EXCEPT ![Len(calls)].done = TRUE]
    BY <1>1, <1>2, <2>2, Marked
  <2> QED
    BY <1>1, <2>1, <2>2 DEF CallLoads, CallUnloads, CallUnloadsAll, CallFails, CallReturns
<1> QED
  BY <1>1, <1>3, <1>4, <1>5, <1>6 DEF Rest, PendingUnloadIsAsked

LEMMA RefreshBooks == Books /\ Rest /\ DependencyDataRefreshed => Books' /\ Rest'
<1> SUFFICES ASSUME Books, Rest, DependencyDataRefreshed PROVE Books' /\ Rest'
  OBVIOUS
<1>1. dependents' \in [Package -> SUBSET Package]
  BY DEF DependencyDataRefreshed, Answers, Dependents
<1> QED
  BY <1>1, BooksUntouched DEF DependencyDataRefreshed, Rest, PendingUnloadIsAsked, CallsFit

LEMMA UserBooks == Books /\ Rest /\ User => Books' /\ Rest'
<1> SUFFICES ASSUME Books, Rest, User PROVE Books' /\ Rest'
  OBVIOUS
<1>1. ASSUME NEW u \in Ui, LoadUiModule(u)
      PROVE  Books' /\ Rest'
  <2>1. UNCHANGED <<running, posted, pendingUnload, dialog, dependents, calls>>
    BY <1>1 DEF LoadUiModule
  <2>2. clicks' \in 0..MaxClicks /\ excused' \in SUBSET Package
    BY <1>1 DEF LoadUiModule, Rest
  <2> QED
    BY <1>1, <2>1, <2>2, Begins DEF Rest, PendingUnloadIsAsked, CallsFit
<1>2. ASSUME NEW u \in Ui, UnloadUiModule(u)
      PROVE  Books' /\ Rest'
  <2>1. [do |-> "unloadUi", name |-> u] \in Work
    BY DEF Work, Package
  <2> QED
    BY <1>2, <2>1, Clicked DEF UnloadUiModule
<1>3. ASSUME NEW c \in Core, LoadCoreModule(c) \/ UnloadCoreModule(c)
      PROVE  Books' /\ Rest'
  <2>1. [do |-> "load", name |-> c] \in Work /\ [do |-> "unload", name |-> c] \in Work
    BY DEF Work, Package
  <2> QED
    BY <1>3, <2>1, Clicked DEF LoadCoreModule, UnloadCoreModule
<1>4. ASSUME NEW p \in Package,
             ConfirmUnloadCascade(p) \/ CancelUnloadCascade(p) \/ CancelPackageDialog(p)
      PROVE  Books' /\ Rest'
  <2>1. /\ UNCHANGED <<running, job, jobs, loading, mounted, hosts, clicks, dependents, calls,
                       excused>>
        /\ dialog' \in {{}, dialog} /\ pendingUnload' = {}
    BY <1>4 DEF ConfirmUnloadCascade, CancelUnloadCascade, CancelPackageDialog, Rest,
                PendingUnloadIsAsked, AtMostOne
  <2>2. [do |-> "cascade", name |-> p] \in Work
    BY DEF Work
  <2>3. posted' = posted \/ posted' = Append(posted, [do |-> "cascade", name |-> p])
    BY <1>4 DEF ConfirmUnloadCascade, CancelUnloadCascade, CancelPackageDialog
  <2>4. /\ posted' \in Seq(Work)
        /\ \A n \in DOMAIN posted' : posted'[n].do = "load" => posted'[n].name \in Core
    BY <2>2, <2>3, Queued DEF Rest
  <2> QED
    BY <2>1, <2>4, BooksUntouched DEF Rest, AtMostOne, PendingUnloadIsAsked, CallsFit
<1>5. ASSUME NEW p \in Package, CascadeUnloadForPackage(p)
      PROVE  Books' /\ Rest'
  <2>1. UNCHANGED <<running, job, jobs, loading, posted, pendingUnload, dialog, dependents>>
    BY <1>5 DEF CascadeUnloadForPackage, BeginCall
  <2>2. clicks' \in 0..MaxClicks
    BY <1>5 DEF CascadeUnloadForPackage, Rest
  <2>3. running' \in SUBSET Core
    BY <2>1 DEF Rest
  <2>4. CASE BeginCall("package", p, LoadedDependents(p))
    <3>1. LoadedDependents(p) \in SUBSET Package
      BY DEF LoadedDependents, Rest
    <3>2. CallsFit'
      BY <2>4, <3>1, BegunBooks
    <3> QED
      BY <2>1, <2>2, <2>4, <3>2, BooksUntouched DEF BeginCall, Rest, PendingUnloadIsAsked
  <2>5. CASE Teardown({p}) /\ Excuse({}) /\ UNCHANGED calls
    BY <2>1, <2>2, <2>3, <2>5, Excused, TornDown DEF Rest, PendingUnloadIsAsked, CallsFit
  <2> QED
    BY <1>5, <2>4, <2>5 DEF CascadeUnloadForPackage
<1> QED
  BY <1>1, <1>2, <1>3, <1>4, <1>5 DEF User

LEMMA Starts == Init => Books /\ Rest
<1> SUFFICES ASSUME Init PROVE Books /\ Rest
  OBVIOUS
<1>1. Idle \in JobShape /\ Idle.name = {} /\ Idle.stage = "none"
  BY DEF Idle, JobShape, AtMostOne, Stage
<1>2. \A j \in Job : job[j] = Idle /\ ~InFlight(j)
  BY <1>1 DEF Init, InFlight
<1>3. Loading = {} /\ Mounted = {} /\ \A j \in Job : j # 0
  BY <1>1, <1>2 DEF Loading, Mounted, Init, Job
<1>4. Shapes
  BY <1>1, <1>3 DEF Init, Shapes
<1>5. JobsFit /\ OneWidgetPerPlugin /\ HostsAreOwned
  BY <1>1, <1>2, <1>3 DEF Init, JobsFit, OneWidgetPerPlugin, HostsAreOwned
<1>6. Rest
  <2>1. CallsFit
    BY DEF Init, CallsFit
  <2> QED
    BY <2>1 DEF Init, Rest, AtMostOne, PendingUnloadIsAsked
<1> QED
  BY <1>4, <1>5, <1>6 DEF Books

LEMMA BooksKept == Books /\ Rest /\ [Next]_vars => Books' /\ Rest'
<1> SUFFICES ASSUME Books, Rest, UNCHANGED vars PROVE Books' /\ Rest'
  BY LoaderBooks, UserBooks, RunBooks, CallBooks, RefreshBooks DEF Next
<1> QED
  BY BooksUntouched DEF vars, Rest, PendingUnloadIsAsked, CallsFit

LEMMA BooksInvariant == Spec => [](Books /\ Rest)
  BY Starts, BooksKept, PTL DEF Spec

\* m_loading names exactly the plugins with a load under way, and everything
\* keeps its shape, however loads, clicks and unloads interleave (PluginLoader).
THEOREM TypeCorrect == Spec => []TypeOK
<1>1. Books /\ Rest => TypeOK
  BY DEF TypeOK, Books, Shapes, Rest, JobShape, CallsFit
<1> QED
  BY <1>1, BooksInvariant, PTL

\* onPluginLoaded never overwrites a live widget, although a click can come
\* while the plugin's last load still waits for its host or its thread
\* (PluginLoader::load, UIPluginManager::onPluginLoaded).
THEOREM OneOfEach == Spec => []OneWidgetPerPlugin
<1>1. Books => OneWidgetPerPlugin
  BY DEF Books
<1> QED
  BY <1>1, BooksInvariant, PTL

\* No ui-host process outlives its plugin, on whichever way its load or its
\* widget ends (PluginLoader's failure paths, teardownUiPluginWidget).
THEOREM NoStrayHost == Spec => []HostsAreOwned
<1>1. Books => HostsAreOwned
  BY DEF Books
<1> QED
  BY <1>1, BooksInvariant, PTL

\* An unload is pending only under the dialog that asks about it
\* (UIPluginManager::m_pendingUnload, MainUIBackend::cancelPendingAction).
THEOREM SlotIsAsked == Spec => []PendingUnloadIsAsked
<1>1. Rest => PendingUnloadIsAsked
  BY DEF Rest
<1> QED
  BY <1>1, BooksInvariant, PTL

-----------------------------------------------------------------------------
(* Needs *)

\* What a load under way has behind it is running.
Supplied ==
    \A j \in Job :
       /\ \A u \in job[j].name \ excused : Needs[u] \ job[j].todo \subseteq running
       /\ InFlight(j) /\ job[j].stage # "dependencies" => job[j].todo = {}

\* Nobody asks twice to unload a module: of the clicks on the event loop and the
\* dialog, one at most is about it.
AskedOnce ==
    \A n \in DOMAIN posted : posted[n].do # "load" =>
       /\ posted[n].name \notin pendingUnload
       /\ \A m \in DOMAIN posted :
             posted[m].do # "load" /\ posted[m].name = posted[n].name => m = n

\* A plain unload was decided when nothing known to be loaded depended on it.
NobodyLeft == \A n \in DOMAIN calls : calls[n].do = "unload" => calls[n].deps = {}

AllSupplied == NothingStrandedSilently /\ Supplied /\ AskedOnce /\ NobodyLeft

\* What leaves with which call.
LEMMA LeavesWithOf ==
    ASSUME NEW s \in Seq(Call)
    PROVE  \A p : p \in UNION {(f.deps \cup {f.name}) \cap Ui : f \in {g \in Range(s) : g.done}} <=>
                 \E n \in DOMAIN s : s[n].done /\ p \in (s[n].deps \cup {s[n].name}) \cap Ui
  BY DEF Range

LEMMA LeavesWith ==
    ASSUME calls \in Seq(Call)
    PROVE  \A p : p \in Leaving <=> \E n \in DOMAIN calls :
                                      calls[n].done /\ p \in (calls[n].deps \cup {calls[n].name}) \cap Ui
  BY DEF Leaving, Range

\* A call that begins, or that goes without having taken effect, takes nothing
\* out of what is leaving.
LEMMA BegunLeaves ==
    ASSUME Rest, Rest', NEW what \in {"load", "unload", "cascade", "package"},
           NEW p \in Package, what = "load" => p \in Core,
           NEW deps \in SUBSET Package, BeginCall(what, p, deps)
    PROVE  /\ Leaving \subseteq Leaving'
           /\ NobodyLeft /\ (what = "unload" => deps = {}) => NobodyLeft'
<1> DEFINE f == [do |-> what, name |-> p, deps |-> deps, done |-> FALSE]
<1>1. f \in Call /\ ~f.done /\ f.do = what /\ f.name = p /\ f.deps = deps
  BY DEF Call
<1>2. calls' = Append(calls, f) /\ CallsFit /\ calls \in Seq(Call) /\ calls' \in Seq(Call)
  BY DEF BeginCall, Rest, CallsFit
<1> HIDE DEF f
<1>3. /\ \A n \in DOMAIN calls' :
            \/ n \in DOMAIN calls /\ calls'[n] = calls[n]
            \/ n = Len(calls) + 1 /\ calls'[n] = f
      /\ \A n \in DOMAIN calls : n \in DOMAIN calls' /\ calls'[n] = calls[n]
  BY <1>1, <1>2, Pushed
<1>4. \A q : q \in Leaving' <=> \E n \in DOMAIN calls' :
                 calls'[n].done /\ q \in (calls'[n].deps \cup {calls'[n].name}) \cap Ui
  BY <1>2, LeavesWithOf DEF Leaving
<1>5. Leaving \subseteq Leaving'
  BY <1>2, <1>3, <1>4, LeavesWith
<1>6. NobodyLeft /\ (what = "unload" => deps = {}) => NobodyLeft'
  BY <1>1, <1>3 DEF NobodyLeft
<1> QED
  BY <1>5, <1>6

LEMMA PoppedLeaves ==
    ASSUME CallsFit, calls # <<>>, Return
    PROVE  /\ \A q \in Leaving : \/ q \in Leaving'
                                  \/ /\ Innermost.done
                                     /\ q \in (Innermost.deps \cup {Innermost.name}) \cap Ui
           /\ NobodyLeft => NobodyLeft'
<1>1. /\ \A n \in DOMAIN calls' : n \in DOMAIN calls /\ calls'[n] = calls[n]
      /\ \A n \in DOMAIN calls : n = Len(calls) \/ n \in DOMAIN calls'
      /\ calls \in Seq(Call) /\ calls' \in Seq(Call) /\ Innermost = calls[Len(calls)]
  BY Popped DEF CallsFit, Innermost
<1>2. \A q : q \in Leaving' <=> \E n \in DOMAIN calls' :
                 calls'[n].done /\ q \in (calls'[n].deps \cup {calls'[n].name}) \cap Ui
  BY <1>1, LeavesWithOf DEF Leaving
<1>3. \A q \in Leaving : \/ q \in Leaving'
                         \/ /\ Innermost.done
                            /\ q \in (Innermost.deps \cup {Innermost.name}) \cap Ui
  BY <1>1, <1>2, LeavesWith
<1>4. NobodyLeft => NobodyLeft'
  BY <1>1 DEF NobodyLeft
<1> QED
  BY <1>3, <1>4

LEMMA MarkedLeaves ==
    ASSUME CallsFit, calls # <<>>, Innermost.do \in {"cascade", "package"},
           calls' = [calls EXCEPT ![Len(calls)].done = TRUE]
    PROVE  /\ Leaving \subseteq Leaving'
           /\ (Innermost.deps \cup {Innermost.name}) \cap Ui \subseteq Leaving'
           /\ NobodyLeft => NobodyLeft'
<1>1. /\ CallsFit' /\ DOMAIN calls' = DOMAIN calls
      /\ \A n \in DOMAIN calls : /\ calls'[n].do = calls[n].do
                                 /\ calls'[n].name = calls[n].name
                                 /\ calls'[n].deps = calls[n].deps
                                 /\ n # Len(calls) => calls'[n] = calls[n]
      /\ calls'[Len(calls)].done
  BY Marked
<1>2. /\ calls \in Seq(Call) /\ calls' \in Seq(Call) /\ Len(calls) \in DOMAIN calls
      /\ Innermost = calls[Len(calls)]
  BY <1>1, Inner DEF CallsFit
<1>3. \A q : q \in Leaving' <=> \E n \in DOMAIN calls' :
                 calls'[n].done /\ q \in (calls'[n].deps \cup {calls'[n].name}) \cap Ui
  BY <1>2, LeavesWithOf DEF Leaving
<1>4. Leaving \subseteq Leaving'
  BY <1>1, <1>2, <1>3, LeavesWith
<1>5. (Innermost.deps \cup {Innermost.name}) \cap Ui \subseteq Leaving'
  BY <1>1, <1>2, <1>3
<1>6. NobodyLeft => NobodyLeft'
  BY <1>1 DEF NobodyLeft
<1> QED
  BY <1>4, <1>5, <1>6

\* A dependency of something needs nothing else than what that needs.
LEMMA Below ==
    ASSUME NEW p \in Package, NEW q \in Package, q \notin Dependents(p), q # p
    PROVE  Needs[q] \cap ({p} \cup (Dependents(p) \cap running)) = {}
  BY DEF Dependents

\* Something stops running, perhaps with the widgets that need it; what is left
\* in need of it is about to go or excused.
Stopping(gone, more) ==
    /\ UNCHANGED <<job, jobs, loading>>
    /\ running' = running \ gone /\ Excuse(more)
    /\ \A u \in Ui : mounted'[u] # 0 => mounted[u] # 0
    /\ \A p \in Loading : Needs[p] \cap gone # {} => p \in more
    /\ \A p \in Loaded \ more : \/ Needs[p] \cap gone = {}
                                \/ /\ p \notin running'
                                   /\ p \in Ui => mounted'[p] = 0 \/ p \in Leaving'
    /\ \A p \in Leaving : p \in Leaving' \/ (p \in Ui /\ mounted'[p] = 0)

LEMMA Stops ==
    ASSUME Books, Rest, NothingStrandedSilently, Supplied,
           NEW gone, NEW more, Stopping(gone, more)
    PROVE  NothingStrandedSilently' /\ Supplied'
<1>1. running' \in SUBSET Core
  BY DEF Rest, Stopping
<1>2. \A p \in running' \cup {u \in Ui : mounted'[u] # 0} \cup Loading :
         p \notin excused' => p \notin excused /\ p \notin more
  BY <1>1, Excused DEF Stopping
<1>3. NothingStrandedSilently'
  <2> SUFFICES ASSUME NEW p \in running' \cup {u \in Ui : mounted'[u] # 0}, p \notin excused',
                      p \notin Leaving'
               PROVE  Needs[p] \subseteq running'
    BY DEF NothingStrandedSilently, Loaded, Mounted
  <2>1. p \in Loaded \ more /\ p \notin excused
    BY <1>2 DEF Loaded, Mounted, Stopping
  <2>2. p \in Ui => p \notin running' /\ mounted'[p] # 0
    BY <1>1
  <2>3. p \notin Leaving
    BY <2>2 DEF Stopping
  <2>4. Needs[p] \cap gone = {}
    BY <2>1, <2>2 DEF Stopping
  <2> QED
    BY <2>1, <2>3, <2>4 DEF NothingStrandedSilently, Stopping
<1>4. Supplied'
  <2>1. \A j \in Job, u \in Loading : u \in job[j].name /\ u \notin excused' =>
           Needs[u] \ job[j].todo \subseteq running'
    BY <1>2 DEF Supplied, Stopping
  <2>2. \A j \in Job : job[j].name \subseteq Loading
    BY DEF Loading
  <2> QED
    BY <2>1, <2>2 DEF Supplied, InFlight, Stopping
<1> QED
  BY <1>3, <1>4

\* Something starts to run, with all it needs.
LEMMA Runs ==
    ASSUME Books, Rest, NothingStrandedSilently, NEW c \in Core,
           running' = running \cup {c} \cup Needs[c], UNCHANGED <<mounted, excused>>,
           Leaving \subseteq Leaving'
    PROVE  NothingStrandedSilently'
<1>1. \A d \in Needs[c] : Needs[d] \subseteq Needs[c]
  BY DEF Package
<1>2. \A p \in running' \cup {u \in Ui : mounted[u] # 0} :
         p \in Loaded \/ p = c \/ p \in Needs[c]
  BY DEF Loaded, Mounted
<1> QED
  BY <1>1, <1>2 DEF NothingStrandedSilently, Loaded, Mounted

LEMMA SuppliesKept ==
    ASSUME NothingStrandedSilently, Supplied,
           UNCHANGED <<job, mounted, excused>>, running \subseteq running',
           Leaving \subseteq Leaving'
    PROVE  Supplied' /\ (running' = running => NothingStrandedSilently')
  BY DEF Supplied, NothingStrandedSilently, Loaded, Mounted, InFlight

LEMMA LoaderSupplies == Books /\ Rest /\ AllSupplied /\ Loader => AllSupplied'
<1> SUFFICES ASSUME Books, Rest, AllSupplied, Loader PROVE AllSupplied'
  OBVIOUS
<1>1. PICK j \in Job : \/ LoadDependency(j) \/ Continue(j) \/ ThreadFinished(j)
                       \/ HostReady(j) \/ HostTimeout(j) \/ Compiled(j)
  BY DEF Loader
<1>2. /\ UNCHANGED unloadVars /\ UNCHANGED excused /\ InFlight(j)
  BY <1>1 DEF LoadDependency, Continue, ThreadFinished, HostReady, HostTimeout, Compiled, InFlight
<1>3. AskedOnce' /\ NobodyLeft' /\ Leaving' = Leaving
  BY <1>2 DEF AllSupplied, AskedOnce, NobodyLeft, Leaving, unloadVars
<1>4. PICK u \in Ui : job[j].name = {u} /\ mounted[u] = 0
  BY <1>2, OneLoad
<1>5. job \in [Job -> JobShape] /\ job[j] \in JobShape
  BY DEF Books, Shapes
<1>6. ASSUME Mount(j) \/ Fail(j), running' = running, Fail(j) \/ job[j].stage # "dependencies"
      PROVE  NothingStrandedSilently' /\ Supplied'
  <2>1. job'[j] = Over /\ \A i \in Job \ {j} : job'[i] = job[i]
    BY <1>5, <1>6 DEF Mount, Fail
  <2>2. Supplied'
    <3>1. Over.name = {} /\ Over.stage = "over"
      BY DEF Over
    <3> QED
      BY <1>2, <1>6, <2>1, <3>1 DEF AllSupplied, Supplied, InFlight
  <2>3. CASE Fail(j)
    BY <1>2, <1>3, <1>6, <2>2, <2>3 DEF Fail, AllSupplied, NothingStrandedSilently, Loaded, Mounted
  <2>4. CASE Mount(j) /\ job[j].stage # "dependencies"
    <3>1. u \notin excused => Needs[u] \subseteq running
      BY <1>2, <1>4, <2>4 DEF AllSupplied, Supplied
    <3>2. \A v \in Ui : mounted'[v] # 0 => v = u \/ mounted[v] # 0
      BY <1>4, <2>4 DEF Mount
    <3>3. NothingStrandedSilently'
      BY <1>2, <1>3, <1>6, <3>1, <3>2 DEF AllSupplied, NothingStrandedSilently, Loaded, Mounted
    <3> QED
      BY <2>2, <3>3
  <2> QED
    BY <1>6, <2>2, <2>3, <2>4
<1>7. ASSUME NEW stage, Advance(j, stage), job[j].todo = {}, running' = running
      PROVE  NothingStrandedSilently' /\ Supplied'
  <2>1. /\ job'[j].name = job[j].name /\ job'[j].todo = job[j].todo
        /\ \A i \in Job \ {j} : job'[i] = job[i]
    BY <1>5, <1>7 DEF Advance, JobShape
  <2>2. Supplied'
    BY <1>2, <1>7, <2>1 DEF AllSupplied, Supplied, InFlight
  <2> QED
    BY <1>2, <1>3, <1>7, <2>2 DEF Advance, AllSupplied, NothingStrandedSilently, Loaded, Mounted
<1>8. CASE LoadDependency(j)
  <2>1. PICK c \in job[j].todo :
           \/ /\ running' = running \cup {c} \cup Needs[c]
              /\ job' = [job EXCEPT ![j].todo = @ \ {c}]
              /\ UNCHANGED <<loading, mounted, hosts>>
           \/ Fail(j) /\ UNCHANGED running
    BY <1>8 DEF LoadDependency
  <2>2. c \in Core
    BY <1>5 DEF JobShape
  <2>3. CASE /\ running' = running \cup {c} \cup Needs[c]
             /\ job' = [job EXCEPT ![j].todo = @ \ {c}]
             /\ UNCHANGED <<loading, mounted, hosts>>
    <3>1. NothingStrandedSilently'
      BY <1>2, <1>3, <2>2, <2>3, Runs DEF AllSupplied
    <3>2. /\ job'[j].name = job[j].name /\ job'[j].todo = job[j].todo \ {c}
          /\ job'[j].stage = "dependencies" /\ \A i \in Job \ {j} : job'[i] = job[i]
      BY <1>5, <1>8, <2>3 DEF LoadDependency, JobShape
    <3>3. Supplied'
      BY <1>2, <2>3, <3>2 DEF AllSupplied, Supplied, InFlight
    <3> QED
      BY <1>3, <3>1, <3>3 DEF AllSupplied
  <2> QED
    BY <1>3, <1>6, <2>1, <2>3 DEF AllSupplied
<1>9. CASE Continue(j)
  BY <1>3, <1>6, <1>7, <1>9 DEF Continue, AllSupplied
<1>10. CASE ThreadFinished(j) \/ HostTimeout(j) \/ Compiled(j)
  BY <1>3, <1>6, <1>10 DEF ThreadFinished, HostTimeout, Compiled, AllSupplied
<1>11. CASE HostReady(j)
  <2>1. job[j].todo = {} /\ Advance(j, "compiling") /\ running' = running
    BY <1>2, <1>11 DEF HostReady, AllSupplied, Supplied
  <2> QED
    BY <1>3, <1>7, <2>1 DEF AllSupplied
<1> QED
  BY <1>1, <1>8, <1>9, <1>10, <1>11

\* A click that asks for what is not under way yet.
LEMMA OnceQueued ==
    ASSUME Rest, AskedOnce, NEW w \in Work, posted' = Append(posted, w),
           pendingUnload' \subseteq pendingUnload,
           w.do # "load" => /\ w.name \notin pendingUnload'
                            /\ \A n \in DOMAIN posted : posted[n].do # "load" => posted[n].name # w.name
    PROVE  AskedOnce'
<1>1. \A n \in DOMAIN posted' : \/ n \in DOMAIN posted /\ posted'[n] = posted[n]
                                \/ n = Len(posted) + 1 /\ posted'[n] = w
  <2>1. posted \in Seq(Work)
    BY DEF Rest
  <2> QED
    BY <2>1, Queued
<1> QED
  BY <1>1 DEF AskedOnce

LEMMA OnceTaken ==
    ASSUME Rest, AskedOnce, posted # <<>>, posted' = Tail(posted),
           \/ Head(posted).do # "load" /\ pendingUnload' = {Head(posted).name}
           \/ pendingUnload' = pendingUnload
    PROVE  AskedOnce'
<1>1. /\ 1 \in DOMAIN posted /\ Head(posted) = posted[1] /\ posted' \in Seq(Work)
      /\ \A n \in DOMAIN posted' : n + 1 \in DOMAIN posted /\ n + 1 # 1 /\ posted'[n] = posted[n + 1]
  BY Dequeued DEF Rest
<1>2. \A m, n \in DOMAIN posted' : m + 1 = n + 1 => m = n
  BY <1>1
<1>3. ASSUME NEW n \in DOMAIN posted', posted'[n].do # "load"
      PROVE  posted'[n].name \notin pendingUnload'
  BY <1>1, <1>3 DEF AskedOnce
<1>4. ASSUME NEW n \in DOMAIN posted', NEW m \in DOMAIN posted', posted'[n].do # "load",
             posted'[m].do # "load", posted'[m].name = posted'[n].name
      PROVE  m = n
  BY <1>1, <1>2, <1>4 DEF AskedOnce
<1> QED
  BY <1>3, <1>4 DEF AskedOnce

\* Only the dialog's answer or a user who did not wait gets past the question.
LEMMA AskedFirst ==
    ASSUME Rest, AskedOnce, posted # <<>>, Head(posted).do # "load", ~AskFirst(Head(posted).name)
    PROVE  LoadedDependents(Head(posted).name) = {}
<1>1. 1 \in DOMAIN posted /\ Head(posted) = posted[1]
  BY DEF Rest
<1> QED
  BY <1>1 DEF AskFirst, AskedOnce

LEMMA RunSupplies == Books /\ Rest /\ AllSupplied /\ RunPosted => AllSupplied'
<1> SUFFICES ASSUME Books, Rest, AllSupplied, RunPosted PROVE AllSupplied'
  OBVIOUS
<1>0. Rest'
  BY RunBooks
<1>1. PICK p \in Package :
          /\ p = Head(posted).name
          /\ \/ Head(posted).do = "load" /\ p \in Core /\ BeginCall("load", p, {})
             \/ Head(posted).do = "unload" /\ RunUnload(p)
             \/ Head(posted).do = "unloadUi" /\ RunUnloadUi(p)
             \/ Head(posted).do = "cascade" /\ BeginCall("cascade", p, LoadedDependents(p))
          /\ UNCHANGED <<running, job, jobs, loading, clicks, dependents>>
          /\ posted # <<>> /\ posted' = Tail(posted)
  BY Taken
<1>2. AskedOnce'
  BY <1>1, OnceTaken DEF BeginCall, RunUnload, RunUnloadUi, Ask, AllSupplied
<1>3. ASSUME UNCHANGED <<mounted, excused>>, Leaving \subseteq Leaving', NobodyLeft'
      PROVE  AllSupplied'
  BY <1>1, <1>2, <1>3, SuppliesKept DEF AllSupplied
<1>4. ASSUME NEW what \in {"load", "unload", "cascade", "package"}, NEW deps \in SUBSET Package,
             what = "load" => p \in Core, what = "unload" => deps = {}, BeginCall(what, p, deps)
      PROVE  AllSupplied'
  <2>1. Leaving \subseteq Leaving' /\ NobodyLeft'
    BY <1>0, <1>4, BegunLeaves DEF AllSupplied
  <2> QED
    BY <1>3, <1>4, <2>1 DEF BeginCall
<1>5. LoadedDependents(p) \in SUBSET Package
  BY DEF LoadedDependents, Rest
<1>6. ASSUME UNCHANGED calls
      PROVE  Leaving' = Leaving /\ NobodyLeft'
  BY <1>6 DEF Leaving, NobodyLeft, AllSupplied
<1>7. CASE p \in Core /\ BeginCall("load", p, {})
  BY <1>4, <1>7
<1>8. CASE BeginCall("cascade", p, LoadedDependents(p))
  BY <1>4, <1>5, <1>8
<1>9. CASE Head(posted).do = "unload" /\ RunUnload(p)
  <2>1. CASE AskFirst(p) /\ Ask(p)
    BY <1>3, <1>6, <2>1 DEF Ask
  <2>2. CASE ~AskFirst(p) /\ BeginCall("unload", p, LoadedDependents(p))
    <3>1. LoadedDependents(p) = {}
      BY <1>1, <1>9, <2>2, AskedFirst DEF AllSupplied
    <3> QED
      BY <1>4, <1>5, <2>2, <3>1
  <2> QED
    BY <1>9, <2>1, <2>2 DEF RunUnload
<1>10. CASE RunUnloadUi(p)
  <2>1. CASE Teardown({p}) /\ Excuse({}) /\ running' = running /\ UNCHANGED calls
    <3>1. running' = running \ {} /\ \A u \in Ui : mounted'[u] # 0 => mounted[u] # 0
      BY <2>1 DEF Teardown
    <3>2. Stopping({}, {})
      BY <1>1, <1>6, <2>1, <3>1 DEF Stopping
    <3> QED
      BY <1>2, <1>6, <2>1, <3>2, Stops DEF AllSupplied
  <2> QED
    BY <1>1, <1>3, <1>6, <1>10, <2>1 DEF RunUnloadUi, Ask
<1> QED
  BY <1>1, <1>7, <1>8, <1>9, <1>10

LEMMA CallSupplies == Books /\ Rest /\ AllSupplied /\ RunCall => AllSupplied'
<1> SUFFICES ASSUME Books, Rest, AllSupplied, RunCall PROVE AllSupplied'
  OBVIOUS
<1>1. /\ calls # <<>>
      /\ CallLoads \/ CallUnloads \/ CallUnloadsAll \/ CallFails \/ CallReturns
      /\ UNCHANGED <<job, jobs, loading, posted, pendingUnload, dialog, clicks, dependents>>
  BY DEF RunCall
<1>2. /\ CallsFit /\ Len(calls) \in DOMAIN calls /\ Innermost = calls[Len(calls)]
      /\ Innermost \in Call
      /\ Innermost.do \in {"load", "unload"} => ~Innermost.done
      /\ Innermost.do = "load" => Innermost.name \in Core
  BY <1>1, Inner DEF Rest
<1>3. AskedOnce'
  BY <1>1 DEF AllSupplied, AskedOnce
<1>4. PICK p \in Package : p = Innermost.name
  BY <1>2 DEF Call
<1>5. PICK deps \in SUBSET Package : deps = Innermost.deps
  BY <1>2 DEF Call
<1>6. Loaded \subseteq Package /\ Loading \subseteq Package
  BY DEF Loaded, Mounted, Package, Rest, Loading, Books, Shapes, JobShape, AtMostOne
<1>7. ASSUME Return, ~Innermost.done
      PROVE  Leaving \subseteq Leaving' /\ NobodyLeft'
  BY <1>1, <1>2, <1>7, PoppedLeaves DEF AllSupplied
<1>8. ASSUME Innermost.do \in {"cascade", "package"},
             calls' = [calls EXCEPT ![Len(calls)].done = TRUE]
      PROVE  /\ Leaving \subseteq Leaving' /\ NobodyLeft'
             /\ (deps \cup {p}) \cap Ui \subseteq Leaving'
  BY <1>1, <1>2, <1>4, <1>5, <1>8, MarkedLeaves DEF AllSupplied
<1>9. CASE CallLoads
  <2>1. Leaving \subseteq Leaving' /\ NobodyLeft' /\ p \in Core
    BY <1>2, <1>4, <1>7, <1>9 DEF CallLoads
  <2>2. CASE running' = running
    BY <1>1, <1>3, <1>9, <2>1, <2>2, SuppliesKept DEF CallLoads, AllSupplied
  <2>3. CASE running' = running \cup {p} \cup Needs[p]
    BY <1>1, <1>3, <1>9, <2>1, <2>3, Runs, SuppliesKept DEF CallLoads, AllSupplied
  <2> QED
    BY <1>4, <1>9, <2>2, <2>3 DEF CallLoads
<1>10. CASE CallUnloads
  <2>1. /\ Leaving \subseteq Leaving' /\ NobodyLeft' /\ deps = {}
        /\ UNCHANGED <<mounted, hosts>>
    BY <1>2, <1>5, <1>7, <1>10 DEF CallUnloads, AllSupplied, NobodyLeft
  <2>2. CASE running' = running
    <3>1. running' = running \ {} /\ Excuse({})
      BY <1>10, <2>2 DEF CallUnloads
    <3>2. Stopping({}, {})
      BY <1>1, <2>1, <3>1 DEF Stopping
    <3> QED
      BY <1>3, <2>1, <3>2, Stops DEF AllSupplied
  <2>3. CASE running' # running
    <3>1. running' = running \ {p} /\ Excuse(Needing({p}))
      BY <1>4, <1>5, <1>10, <2>1, <2>3 DEF CallUnloads, Surprised
    <3>2. \A q \in Loaded \cup Loading : Needs[q] \cap {p} # {} => q \in Needing({p})
      BY <1>6 DEF Needing
    <3>3. Stopping({p}, Needing({p}))
      BY <1>1, <2>1, <3>1, <3>2 DEF Stopping
    <3> QED
      BY <1>3, <2>1, <3>3, Stops DEF AllSupplied
  <2> QED
    BY <2>2, <2>3
<1>11. CASE CallUnloadsAll
  <2> DEFINE more == Needing(CascadeSet(p)) \ (deps \ Loading)
  <2>1. /\ Leaving \subseteq Leaving' /\ NobodyLeft' /\ (deps \cup {p}) \cap Ui \subseteq Leaving'
        /\ running' = running \ CascadeSet(p) /\ UNCHANGED <<mounted, hosts>>
        /\ Excuse(more)
    BY <1>4, <1>5, <1>8, <1>11 DEF CallUnloadsAll, Surprised
  <2>2. \A q \in Loading : Needs[q] \cap CascadeSet(p) # {} => q \in more
    BY <1>6 DEF Needing
  <2>3. ASSUME NEW q \in Loaded \ more
        PROVE  \/ Needs[q] \cap CascadeSet(p) = {}
               \/ q \notin running' /\ (q \in Ui => mounted'[q] = 0 \/ q \in Leaving')
    <3>1. CASE q \notin Dependents(p) /\ q # p
      BY <1>6, <3>1, Below DEF CascadeSet
    <3>2. CASE q \in Dependents(p) \/ q = p
      <4>1. q \notin running'
        BY <2>1, <3>2 DEF CascadeSet
      <4>2. Needs[q] \cap CascadeSet(p) = {} \/ q \in deps
        BY <1>6, <2>3 DEF Needing
      <4> QED
        BY <2>1, <4>1, <4>2
    <3> QED
      BY <3>1, <3>2
  <2> HIDE DEF more
  <2>4. Stopping(CascadeSet(p), more)
    BY <1>1, <2>1, <2>2, <2>3 DEF Stopping
  <2> QED
    BY <1>3, <2>1, <2>4, Stops DEF AllSupplied
<1>12. CASE CallFails
  <2>1. PICK some : /\ running' = running \ some /\ UNCHANGED <<mounted, hosts>>
                    /\ Excuse(Needing(some))
    BY <1>12 DEF CallFails
  <2>2. Leaving \subseteq Leaving' /\ NobodyLeft'
    BY <1>7, <1>8, <1>12 DEF CallFails
  <2>3. \A q \in Loaded \cup Loading : Needs[q] \cap some # {} => q \in Needing(some)
    BY <1>6 DEF Needing
  <2>4. Stopping(some, Needing(some))
    BY <1>1, <2>1, <2>2, <2>3 DEF Stopping
  <2> QED
    BY <1>3, <2>2, <2>4, Stops DEF AllSupplied
<1>13. CASE CallReturns
  <2>1. /\ running' = running \ {} /\ Teardown(deps \cup {p}) /\ Return /\ Excuse({})
    BY <1>4, <1>5, <1>13 DEF CallReturns
  <2>2. /\ NobodyLeft'
        /\ \A q \in Leaving : q \in Leaving' \/ q \in (deps \cup {p}) \cap Ui
    BY <1>1, <1>2, <1>4, <1>5, <2>1, PoppedLeaves DEF AllSupplied
  <2>3. /\ \A u \in Ui : mounted'[u] # 0 => mounted[u] # 0
        /\ \A u \in (deps \cup {p}) \cap Ui : mounted'[u] = 0
    BY <2>1 DEF Teardown
  <2>4. Stopping({}, {})
    BY <1>1, <2>1, <2>2, <2>3 DEF Stopping
  <2> QED
    BY <1>3, <2>2, <2>4, Stops DEF AllSupplied
<1> QED
  BY <1>1, <1>9, <1>10, <1>11, <1>12, <1>13

LEMMA UserSupplies == PatientUser /\ Books /\ Rest /\ AllSupplied /\ User => AllSupplied'
<1> SUFFICES ASSUME PatientUser, Books, Rest, AllSupplied, User PROVE AllSupplied'
  OBVIOUS
<1>1. ASSUME NEW u \in Ui, LoadUiModule(u)
      PROVE  AllSupplied'
  <2>1. /\ AskedOnce' /\ running' = running /\ mounted' = mounted
        /\ NobodyLeft' /\ Leaving' = Leaving
    BY <1>1 DEF LoadUiModule, AllSupplied, AskedOnce, NobodyLeft, Leaving
  <2>2. CASE UNCHANGED <<job, jobs, loading, excused>>
    BY <2>1, <2>2, SuppliesKept DEF AllSupplied
  <2>3. CASE /\ mounted[u] = 0 /\ jobs < MaxJobs
             /\ job' = [job EXCEPT ![jobs + 1] =
                          [name |-> {u}, stage |-> "dependencies", todo |-> Needs[u]]]
             /\ excused' = excused \ {u}
    <3>1. u \notin Loaded
      BY <2>3 DEF Loaded, Mounted, Rest
    <3>2. NothingStrandedSilently'
      BY <2>1, <2>3, <3>1 DEF AllSupplied, NothingStrandedSilently, Loaded, Mounted
    <3>3. PICK j \in Job : j = jobs + 1
      BY <2>3 DEF Books, Shapes, Job
    <3>4. /\ job'[j].name = {u} /\ job'[j].stage = "dependencies" /\ job'[j].todo = Needs[u]
          /\ \A i \in Job \ {j} : job'[i] = job[i]
      BY <2>3, <3>3 DEF Books, Shapes
    <3>5. \A i \in Job \ {j} : u \notin job'[i].name
      BY <1>1, <3>4, Begins DEF Books, OneWidgetPerPlugin
    <3>6. Supplied'
      BY <2>1, <2>3, <3>4, <3>5 DEF AllSupplied, Supplied, InFlight
    <3> QED
      BY <2>1, <3>2, <3>6 DEF AllSupplied
  <2> QED
    BY <1>1, <2>2, <2>3 DEF LoadUiModule
<1>2. ASSUME NEW w \in Work, Click(w), w.do # "load" => MayUnload(w.name)
      PROVE  AllSupplied'
  <2>1. /\ posted' = Append(posted, w) /\ pendingUnload' = pendingUnload
        /\ UNCHANGED <<job, mounted, excused, running>> /\ NobodyLeft' /\ Leaving' = Leaving
    BY <1>2 DEF Click, AllSupplied, NobodyLeft, Leaving
  <2>2. \A n \in DOMAIN posted : posted[n] \in Range(posted)
    BY DEF Range
  <2>3. w.do # "load" => /\ w.name \notin pendingUnload
                         /\ \A n \in DOMAIN posted : posted[n].do # "load" => posted[n].name # w.name
    BY <1>2, <2>2 DEF MayUnload, UnloadUnderWay
  <2>4. AskedOnce'
    BY <2>1, <2>3, OnceQueued DEF AllSupplied
  <2> QED
    BY <2>1, <2>4, SuppliesKept DEF AllSupplied
<1>3. ASSUME NEW u \in Ui, UnloadUiModule(u)
      PROVE  AllSupplied'
  <2>1. [do |-> "unloadUi", name |-> u] \in Work
    BY DEF Work, Package
  <2> QED
    BY <1>2, <1>3, <2>1 DEF UnloadUiModule
<1>4. ASSUME NEW c \in Core, LoadCoreModule(c) \/ UnloadCoreModule(c)
      PROVE  AllSupplied'
  <2>1. [do |-> "load", name |-> c] \in Work /\ [do |-> "unload", name |-> c] \in Work
    BY DEF Work, Package
  <2> QED
    BY <1>2, <1>4, <2>1 DEF LoadCoreModule, UnloadCoreModule
<1>5. ASSUME NEW p \in Package,
             ConfirmUnloadCascade(p) \/ CancelUnloadCascade(p) \/ CancelPackageDialog(p)
      PROVE  AllSupplied'
  <2>1. UNCHANGED <<running, job, mounted, excused>> /\ NobodyLeft' /\ Leaving' = Leaving
    BY <1>5 DEF ConfirmUnloadCascade, CancelUnloadCascade, CancelPackageDialog, AllSupplied,
                NobodyLeft, Leaving
  <2>2. AskedOnce'
    <3>1. CASE posted' = posted /\ pendingUnload' \subseteq pendingUnload
      BY <3>1 DEF AllSupplied, AskedOnce
    <3>2. CASE /\ p \in pendingUnload /\ pendingUnload' = {}
               /\ posted' = Append(posted, [do |-> "cascade", name |-> p])
      <4>1. [do |-> "cascade", name |-> p] \in Work
        BY DEF Work
      <4> QED
        BY <3>2, <4>1, OnceQueued DEF AllSupplied, AskedOnce
    <3> QED
      BY <1>5, <3>1, <3>2 DEF ConfirmUnloadCascade, CancelUnloadCascade, CancelPackageDialog
  <2> QED
    BY <2>1, <2>2, SuppliesKept DEF AllSupplied
<1>6. ASSUME NEW p \in Package, CascadeUnloadForPackage(p)
      PROVE  AllSupplied'
  <2>1. UNCHANGED <<running, job, jobs, loading, posted, pendingUnload>>
    BY <1>6 DEF CascadeUnloadForPackage, BeginCall
  <2>2. AskedOnce'
    BY <2>1 DEF AllSupplied, AskedOnce
  <2>3. CASE BeginCall("package", p, LoadedDependents(p))
    <3>1. LoadedDependents(p) \in SUBSET Package
      BY DEF LoadedDependents, Rest
    <3>2. Rest'
      BY <1>6, UserBooks DEF User
    <3>3. Leaving \subseteq Leaving' /\ NobodyLeft'
      BY <2>3, <3>1, <3>2, BegunLeaves DEF AllSupplied
    <3> QED
      BY <2>1, <2>2, <2>3, <3>3, SuppliesKept DEF BeginCall, AllSupplied
  <2>4. CASE Teardown({p}) /\ Excuse({}) /\ UNCHANGED calls
    <3>1. running' = running \ {} /\ \A u \in Ui : mounted'[u] # 0 => mounted[u] # 0
      BY <2>1, <2>4 DEF Teardown
    <3>2. Leaving' = Leaving /\ NobodyLeft'
      BY <2>4 DEF Leaving, NobodyLeft, AllSupplied
    <3>3. Stopping({}, {})
      BY <2>1, <2>4, <3>1, <3>2 DEF Stopping
    <3> QED
      BY <2>2, <3>2, <3>3, Stops DEF AllSupplied
  <2> QED
    BY <1>6, <2>3, <2>4 DEF CascadeUnloadForPackage
<1> QED
  BY <1>1, <1>3, <1>4, <1>5, <1>6 DEF User

\* If nobody clicks Unload twice on a module, whatever is loaded keeps its
\* dependencies running, although every unload spins the event loop and works on
\* a list of dependents made before, but for what is being torn down, what the
\* unload could not know of and what a failed cascade left behind
\* (UIPluginManager's unload paths, PackageCoordinator::cascadeUnloadForPackage).
THEOREM NothingStranded == PatientUser => (Spec => []NothingStrandedSilently)
<1> SUFFICES ASSUME PatientUser PROVE Spec => []NothingStrandedSilently
  OBVIOUS
<1>1. Init => AllSupplied
  <2> SUFFICES ASSUME Init PROVE AllSupplied
    OBVIOUS
  <2>1. Loaded = {} /\ DOMAIN posted = {} /\ DOMAIN calls = {}
    BY DEF Init, Loaded, Mounted
  <2>2. \A j \in Job : job[j].name = {} /\ ~InFlight(j)
    BY DEF Init, Idle, InFlight
  <2> QED
    BY <2>1, <2>2 DEF AllSupplied, NothingStrandedSilently, Supplied, AskedOnce, NobodyLeft
<1>2. Books /\ Rest /\ AllSupplied /\ [Next]_vars => AllSupplied'
  <2>1. ASSUME AllSupplied, UNCHANGED <<running, job, mounted, excused, posted, pendingUnload, calls>>
        PROVE  AllSupplied'
    <3>1. Leaving' = Leaving /\ AskedOnce' /\ NobodyLeft'
      BY <2>1 DEF Leaving, AllSupplied, AskedOnce, NobodyLeft
    <3> QED
      BY <2>1, <3>1, SuppliesKept DEF AllSupplied
  <2>2. AllSupplied /\ (UNCHANGED vars \/ DependencyDataRefreshed) => AllSupplied'
    BY <2>1 DEF vars, DependencyDataRefreshed
  <2> QED
    BY <2>2, LoaderSupplies, UserSupplies, RunSupplies, CallSupplies DEF Next
<1>3. AllSupplied => NothingStrandedSilently
  BY DEF AllSupplied
<1> QED
  BY <1>1, <1>2, <1>3, BooksInvariant, PTL DEF Spec
=============================================================================
