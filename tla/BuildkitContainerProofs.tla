----------------------- MODULE BuildkitContainerProofs -----------------------
(***************************************************************************)
(* What clients of one container may rely on, for any number of them, any  *)
(* hosts and versions, and any number of faults.                           *)
(***************************************************************************)
EXTENDS BuildkitContainer, TLAPS

\* Whoever looks after a container does so with an engine there is.
KnownEngine == \A c \in Clients : Active(c) => Engine(c) \in Engines

\* A container that a client has created is of its version, and of its name.
CreatorsOwn ==
  \A e \in Engines : container[e].creator # Nobody =>
    /\ container[e].creator \in Users(e)
    /\ container[e].version = told[container[e].creator].version

BasicInv == ContainerTypeOK /\ KnownEngine /\ CreatorsOwn

-----------------------------------------------------------------------------
(* What no step changes.                                                   *)

LEMMA ToldStays ==
  ASSUME [ContainerNext]_containerVars
  PROVE  /\ told' = told
         /\ \A c \in Clients : /\ Engine(c)' = Engine(c)
                               /\ (Nameable(c))' = Nameable(c)
                               /\ ImageTag(c)' = ImageTag(c)
         /\ \A e \in Engines : Users(e)' = Users(e)
<1>1. told' = told
  BY DEF ContainerNext, Step, Begin, CheckEngine, Inspect, Remove, Pull, Create, Launch,
         StartContainer, Answers, NoAnswer, Fails, InspectFails, RemoveFails, Stop,
         containerVars
<1>2. \A c \in Clients : HostOf(c)' = HostOf(c)
  BY <1>1 DEF HostOf
<1>3. \A c \in Clients : /\ Engine(c)' = Engine(c)
                         /\ (Nameable(c))' = Nameable(c)
                         /\ ImageTag(c)' = ImageTag(c)
  BY <1>1, <1>2 DEF Engine, Nameable, ImageTag
<1>4. \A e \in Engines : Users(e)' = Users(e)
  BY <1>3 DEF Users
<1> QED
  BY <1>1, <1>3, <1>4

-----------------------------------------------------------------------------
(* Types, engines and creators.                                            *)

LEMMA BasicInit == ContainerInit => BasicInv
<1> SUFFICES ASSUME ContainerInit PROVE BasicInv
  OBVIOUS
<1>1. ContainerTypeOK
  BY MaxFaultsAssumption, AttemptsAssumption DEF ContainerInit, ContainerTypeOK, Stages
<1>2. KnownEngine
  BY DEF ContainerInit, KnownEngine, Active
<1>3. \A e \in Engines : container[e].creator = Nobody
  BY DEF ContainerInit, Found
<1>4. CreatorsOwn
  BY <1>3 DEF CreatorsOwn
<1> QED
  BY <1>1, <1>2, <1>4 DEF BasicInv

\* A client that is at work has an engine.
LEMMA EngineThere ==
  ASSUME BasicInv, NEW c \in Clients, pc[c] \notin {"begin", "ok", "error"}
  PROVE  Engine(c) \in Engines
BY DEF BasicInv, KnownEngine, Active, Ended

\* A client moves from stage to stage.
LEMMA StagesNext ==
  ASSUME BasicInv, [ContainerNext]_containerVars
  PROVE  /\ pc' \in [Clients -> Stages]
         /\ \A c \in Clients : pc[c] # "begin" => pc'[c] # "begin"
         /\ KnownEngine'
<1>0. /\ pc \in [Clients -> Stages]
      /\ \A c \in Clients : Engine(c)' = Engine(c)
  BY ToldStays DEF BasicInv, ContainerTypeOK
<1>1. ASSUME NEW c \in Clients, NEW stage, pc' = [pc EXCEPT ![c] = stage],
             stage \in Stages \ {"begin"},
             pc[c] = "begin" => stage \in {"ok", "error"} \/ Engine(c) \in Engines,
             pc[c] \notin {"ok", "error"} \/ stage \in {"ok", "error"}
      PROVE  /\ pc' \in [Clients -> Stages]
             /\ \A d \in Clients : pc[d] # "begin" => pc'[d] # "begin"
             /\ KnownEngine'
  BY <1>0, <1>1 DEF BasicInv, KnownEngine, Active, Ended
<1>2. ASSUME NEW c \in Clients, Step(c)
      PROVE  \E stage \in Stages \ {"begin"} :
               /\ pc' = [pc EXCEPT ![c] = stage]
               /\ pc[c] = "begin" => stage \in {"ok", "error"} \/ Engine(c) \in Engines
               /\ pc[c] \notin {"ok", "error"}
  BY <1>2 DEF Step, Begin, CheckEngine, Inspect, Remove, Pull, Create, Launch,
     StartContainer, Answers, NoAnswer, Goto, Stages, AfterInspect, AfterFailedRemove,
     AfterLaunch, AfterAttempt
<1>3. ASSUME NEW c \in Clients, Fails(c) \/ InspectFails(c) \/ RemoveFails(c)
      PROVE  \E stage \in Stages \ {"begin"} :
               /\ pc' = [pc EXCEPT ![c] = stage]
               /\ pc[c] # "begin"
               /\ pc[c] \notin {"ok", "error"}
  BY <1>3 DEF Fails, InspectFails, RemoveFails, Goto, Stages, AfterFailedRemove, Active, Ended
<1>4. ASSUME pc' = pc
      PROVE  /\ pc' \in [Clients -> Stages]
             /\ \A d \in Clients : pc[d] # "begin" => pc'[d] # "begin"
             /\ KnownEngine'
  BY <1>0, <1>4 DEF BasicInv, KnownEngine, Active, Ended
<1>5. ASSUME NEW e \in Engines, Stop(e) PROVE pc' = pc
  BY <1>5 DEF Stop
<1> QED
  BY <1>1, <1>2, <1>3, <1>4, <1>5 DEF ContainerNext, containerVars

\* What a step does to a container: nothing, or it sets its state, or a client
\* makes a new one where there was none.
LEMMA ContainersNext ==
  ASSUME BasicInv, [ContainerNext]_containerVars
  PROVE  \/ container' = container
         \/ \E e \in Engines, s \in {"absent", "created", "running"} :
              container' = [container EXCEPT ![e].state = s]
         \/ \E c \in Clients :
              /\ Create(c) /\ Engine(c) \in Engines /\ Nameable(c) /\ ~Exists(c)
              /\ container' = [container EXCEPT ![Engine(c)] =
                    [state |-> "created", version |-> ImageTag(c), creator |-> c]]
<1>1. ASSUME NEW c \in Clients, Remove(c) \/ Launch(c) \/ StartContainer(c)
      PROVE  container' = container \/
             \E e \in Engines, s \in {"absent", "created", "running"} :
               container' = [container EXCEPT ![e].state = s]
  <2>1. Engine(c) \in Engines
    BY <1>1, EngineThere DEF Remove, Launch, StartContainer
  <2> QED
    BY <1>1, <2>1 DEF Remove, Launch, StartContainer, SetState
<1>2. ASSUME NEW c \in Clients, Create(c)
      PROVE  container' = container \/
              /\ Engine(c) \in Engines /\ Nameable(c) /\ ~Exists(c)
              /\ container' = [container EXCEPT ![Engine(c)] =
                    [state |-> "created", version |-> ImageTag(c), creator |-> c]]
  BY <1>2, EngineThere DEF Create
<1>3. ASSUME NEW c \in Clients,
             \/ Begin(c) \/ CheckEngine(c) \/ Inspect(c) \/ Pull(c) \/ Answers(c) \/ NoAnswer(c)
             \/ Fails(c) \/ InspectFails(c) \/ RemoveFails(c)
      PROVE  container' = container
  BY <1>3 DEF Begin, CheckEngine, Inspect, Pull, Answers, NoAnswer, Fails, InspectFails, RemoveFails
<1>4. ASSUME NEW e \in Engines, Stop(e)
      PROVE  container' = [container EXCEPT ![e].state = "created"]
  BY <1>4 DEF Stop
<1> QED
  BY <1>1, <1>2, <1>3, <1>4 DEF ContainerNext, Step, containerVars

LEMMA CreatorsNext ==
  ASSUME BasicInv, [ContainerNext]_containerVars
  PROVE  container' \in [Engines -> Container] /\ CreatorsOwn'
<1>0. /\ container \in [Engines -> Container] /\ told' = told
      /\ \A e \in Engines : Users(e)' = Users(e)
      /\ \A c \in Clients : ImageTag(c) = told[c].version /\ told[c].version \in Versions
      /\ \A c \in Clients : Nameable(c) /\ Engine(c) \in Engines => c \in Users(Engine(c))
  BY ToldStays, PopulationsAssumption DEF BasicInv, ContainerTypeOK, ImageTag, Setting, Users
<1>1. CASE container' = container
  BY <1>0, <1>1 DEF BasicInv, CreatorsOwn
<1>2. ASSUME NEW e \in Engines, NEW s \in {"absent", "created", "running"},
             container' = [container EXCEPT ![e].state = s]
      PROVE  container' \in [Engines -> Container] /\ CreatorsOwn'
  <2>1. container' \in [Engines -> Container]
    BY <1>0, <1>2 DEF Container
  <2>2. \A d \in Engines : /\ container'[d].creator = container[d].creator
                           /\ container'[d].version = container[d].version
    BY <1>0, <1>2 DEF Container
  <2> QED
    BY <1>0, <2>1, <2>2 DEF BasicInv, CreatorsOwn
<1>3. ASSUME NEW c \in Clients, Engine(c) \in Engines, Nameable(c),
             container' = [container EXCEPT ![Engine(c)] =
                    [state |-> "created", version |-> ImageTag(c), creator |-> c]]
      PROVE  container' \in [Engines -> Container] /\ CreatorsOwn'
  <2>1. container' \in [Engines -> Container]
    BY <1>0, <1>3 DEF Container
  <2>2. CreatorsOwn'
    BY <1>0, <1>3 DEF BasicInv, CreatorsOwn
  <2> QED
    BY <2>1, <2>2
<1> QED
  BY <1>1, <1>2, <1>3, ContainersNext

LEMMA BasicNext == BasicInv /\ [ContainerNext]_containerVars => BasicInv'
<1> SUFFICES ASSUME BasicInv, [ContainerNext]_containerVars PROVE BasicInv'
  OBVIOUS
<1>1. told' \in Populations
  BY ToldStays DEF BasicInv, ContainerTypeOK
<1>2. info' \in [Clients -> [found : BOOLEAN, active : BOOLEAN]]
  <2>1. ASSUME NEW c \in Clients, Inspect(c) PROVE info' \in [Clients -> [found : BOOLEAN, active : BOOLEAN]]
    BY <2>1 DEF BasicInv, ContainerTypeOK, Inspect, Exists, Running
  <2>2. ASSUME NEW c \in Clients, InspectFails(c)
        PROVE  info' \in [Clients -> [found : BOOLEAN, active : BOOLEAN]]
    BY <2>2 DEF BasicInv, ContainerTypeOK, InspectFails
  <2> QED
    BY <2>1, <2>2 DEF BasicInv, ContainerTypeOK, ContainerNext, Step, Begin, CheckEngine, Remove,
       Pull, Create, Launch, StartContainer, Answers, NoAnswer, Fails, RemoveFails, Stop,
       containerVars
<1>3. attempts' \in [Clients -> 0..MaxAttempts]
  <2>1. ASSUME NEW c \in Clients, NoAnswer(c) PROVE attempts' \in [Clients -> 0..MaxAttempts]
    BY <2>1, AttemptsAssumption DEF BasicInv, ContainerTypeOK, NoAnswer
  <2> QED
    BY <2>1 DEF BasicInv, ContainerTypeOK, ContainerNext, Step, Begin, CheckEngine, Inspect,
       Remove, Pull, Create, Launch, StartContainer, Answers, Fails, InspectFails, RemoveFails,
       Stop, containerVars
<1>4. faults' \in 0..MaxFaults /\ alone' \subseteq Clients
  BY MaxFaultsAssumption DEF BasicInv, ContainerTypeOK, ContainerNext, Step, Begin, CheckEngine,
     Inspect, Remove, Pull, Create, Launch, StartContainer, Answers, NoAnswer, Fails,
     InspectFails, RemoveFails, Stop, Fault, containerVars
<1> QED
  BY <1>1, <1>2, <1>3, <1>4, StagesNext, CreatorsNext DEF BasicInv, ContainerTypeOK

\* TYPES.  Clients, what they know and the containers keep their types.
THEOREM ContainerTypeCorrect == ContainerSpec => []ContainerTypeOK
<1>1. BasicInv => ContainerTypeOK
  BY DEF BasicInv
<1> QED
  BY <1>1, BasicInit, BasicNext, PTL DEF ContainerSpec

\* BasicInv, as the theorems below use it.
LEMMA BasicAlways == ContainerSpec => []BasicInv
BY BasicInit, BasicNext, PTL DEF ContainerSpec

\* What the state, the version and the creator of a container are after a step of
\* a client, to another client.
LEMMA ClientsKeepApart ==
  ASSUME BasicInv, NEW c \in Clients, Step(c)
  PROVE  /\ \A d \in Clients \ {c} : pc'[d] = pc[d] /\ info'[d] = info[d]
                                      /\ attempts'[d] = attempts[d]
         /\ faults' = faults
         /\ \A e \in Engines : c \notin Users(e) => container'[e] = container[e]
<1>0. /\ pc \in [Clients -> Stages] /\ container \in [Engines -> Container]
      /\ info \in [Clients -> [found : BOOLEAN, active : BOOLEAN]]
      /\ attempts \in [Clients -> 0..MaxAttempts]
  BY DEF BasicInv, ContainerTypeOK
<1>1. /\ \A d \in Clients \ {c} : pc'[d] = pc[d]
      /\ faults' = faults
  BY <1>0 DEF Step, Begin, CheckEngine, Inspect, Remove, Pull, Create, Launch, StartContainer,
     Answers, NoAnswer, Goto
<1>2. \A d \in Clients \ {c} : info'[d] = info[d] /\ attempts'[d] = attempts[d]
  BY <1>0 DEF Step, Begin, CheckEngine, Inspect, Remove, Pull, Create, Launch, StartContainer,
     Answers, NoAnswer
<1>3. ASSUME NEW e \in Engines, c \notin Users(e) PROVE container'[e] = container[e]
  BY <1>0, <1>3 DEF Users, Step, Begin, CheckEngine, Inspect, Remove, Pull, Create, Launch,
     StartContainer, Answers, NoAnswer, SetState, Exists
<1> QED
  BY <1>1, <1>2, <1>3

\* A client goes on by a step of its own, or by its own fault.
LEMMA OwnSteps ==
  ASSUME BasicInv, [ContainerNext]_containerVars, NEW c \in Clients, pc'[c] # pc[c]
  PROVE  Step(c) \/ Fails(c) \/ InspectFails(c) \/ RemoveFails(c)
<1>0. pc \in [Clients -> Stages]
  BY DEF BasicInv, ContainerTypeOK
<1>1. ASSUME NEW d \in Clients, d # c, Fails(d) \/ InspectFails(d) \/ RemoveFails(d)
      PROVE  pc'[c] = pc[c]
  BY <1>0, <1>1 DEF Fails, InspectFails, RemoveFails, Goto
<1>2. ASSUME NEW d \in Clients, d # c, Step(d) PROVE pc'[c] = pc[c]
  BY <1>2, ClientsKeepApart
<1>3. ASSUME NEW e \in Engines, Stop(e) PROVE pc'[c] = pc[c]
  BY <1>3 DEF Stop
<1> QED
  BY <1>1, <1>2, <1>3 DEF ContainerNext, containerVars

-----------------------------------------------------------------------------
(* The version that answers.                                               *)

\* All who have begun to look after the engine of c want the version c wants.
Agreed(c) == \A d \in Users(Engine(c)) : pc[d] = "begin" \/ told[d].version = told[c].version

\* Who starts or waits has seen its version there, or has put it there.
VersionSeen ==
  \A c \in Clients : pc[c] \in {"start", "wait"} /\ Nameable(c) /\ Agreed(c) =>
    container[Engine(c)].version = told[c].version

LEMMA VersionSeenNext ==
  BasicInv /\ VersionSeen /\ [ContainerNext]_containerVars => VersionSeen'
<1> SUFFICES ASSUME BasicInv, VersionSeen, [ContainerNext]_containerVars,
                    NEW c \in Clients, pc'[c] \in {"start", "wait"}, Nameable(c)', Agreed(c)'
             PROVE  (container[Engine(c)].version = told[c].version)'
  BY DEF VersionSeen
<1>0. /\ pc \in [Clients -> Stages] /\ container \in [Engines -> Container] /\ told' = told
      /\ Engine(c)' = Engine(c) /\ Nameable(c)
      /\ \A e \in Engines : Users(e)' = Users(e)
  BY ToldStays DEF BasicInv, ContainerTypeOK
<1>1. Engine(c) \in Engines
  BY <1>0, StagesNext DEF KnownEngine, Active, Ended
<1>2. Agreed(c)
  BY <1>0, <1>1, StagesNext DEF Agreed, Users
<1>3. CASE pc[c] \in {"start", "wait"}
  <2>1. container[Engine(c)].version = told[c].version
    BY <1>0, <1>2, <1>3 DEF VersionSeen
  <2>2. ASSUME NEW d \in Clients, Create(d), Nameable(d), Engine(d) = Engine(c),
               container' = [container EXCEPT ![Engine(d)] =
                    [state |-> "created", version |-> ImageTag(d), creator |-> d]]
        PROVE  container'[Engine(c)].version = told[c].version
    <3>1. d \in Users(Engine(c)) /\ pc[d] # "begin"
      BY <2>2 DEF Users, Create
    <3> QED
      BY <1>0, <1>1, <1>2, <2>2, <3>1 DEF Agreed, ImageTag
  <2>3. container'[Engine(c)].version = told[c].version
    BY <1>0, <1>1, <2>1, <2>2, ContainersNext DEF Container
  <2> QED
    BY <1>0, <2>3
<1>4. CASE pc[c] \notin {"start", "wait"}
  <2>1. \/ Inspect(c) /\ pc'[c] = AfterInspect(c)
        \/ Launch(c) /\ Exists(c) /\ container[Engine(c)].creator = c
    <3>1. Step(c) \/ Fails(c) \/ InspectFails(c) \/ RemoveFails(c)
      BY <1>4, OwnSteps
    <3>2. ~(Fails(c) \/ InspectFails(c) \/ RemoveFails(c))
      BY <1>0 DEF Fails, InspectFails, RemoveFails, Goto, AfterFailedRemove
    <3>3. ~(Begin(c) \/ CheckEngine(c) \/ Remove(c) \/ Pull(c) \/ Create(c))
      BY <1>0 DEF Begin, CheckEngine, Remove, Pull, Create, Goto, AfterFailedRemove
    <3>4. ~(StartContainer(c) \/ Answers(c) \/ NoAnswer(c))
      BY <1>4 DEF StartContainer, Answers, NoAnswer
    <3> QED
      BY <1>0, <3>1, <3>2, <3>3, <3>4 DEF Step, Inspect, Launch, Goto
  <2>2. container[Engine(c)].version = told[c].version
    <3>1. CASE Inspect(c) /\ pc'[c] = AfterInspect(c)
      BY <3>1 DEF AfterInspect, ImageTag
    <3>2. CASE Launch(c) /\ container[Engine(c)].creator = c
      BY <1>1, <3>2, ClientsAssumption DEF BasicInv, CreatorsOwn
    <3> QED
      BY <2>1, <3>1, <3>2
  <2>3. container'[Engine(c)].version = container[Engine(c)].version
    BY <1>0, <1>1, <2>1 DEF Inspect, Launch, SetState, Container
  <2> QED
    BY <1>0, <2>2, <2>3
<1> QED
  BY <1>3, <1>4

\* THE WANTED VERSION.  A client that NewClient returns is connected to a daemon of
\* the version it was built with, unless another version has come in between.
THEOREM WantedVersion == ContainerSpec => WantedVersionAnswers
<1>1. ContainerInit => VersionSeen
  BY DEF ContainerInit, VersionSeen
<1>2. ASSUME BasicInv, VersionSeen, [ContainerNext]_containerVars,
             NEW c \in Clients, pc[c] = "wait", pc'[c] = "ok", Agreed(c)
      PROVE  container[Engine(c)].version = told[c].version
  <2>1. pc \in [Clients -> Stages]
    BY <1>2 DEF BasicInv, ContainerTypeOK
  <2>2. Answers(c)
    <3>1. Step(c) \/ Fails(c) \/ InspectFails(c) \/ RemoveFails(c)
      BY <1>2, OwnSteps
    <3> QED
      BY <1>2, <2>1, <3>1 DEF Step, Begin, CheckEngine, Inspect, Remove, Pull, Create,
         Launch, StartContainer, NoAnswer, Fails, InspectFails, RemoveFails, Goto, AfterAttempt
  <2> QED
    BY <1>2, <2>2 DEF Answers, Running, VersionSeen
<1>3. BasicInv /\ VersionSeen /\ [ContainerNext]_containerVars =>
        [\A c \in Clients :
           /\ pc[c] = "wait" /\ pc'[c] = "ok"
           /\ \A d \in Users(Engine(c)) : pc[d] = "begin" \/ told[d].version = told[c].version
           => container[Engine(c)].version = told[c].version]_containerVars
  BY <1>2 DEF Agreed
<1> QED
  BY <1>1, <1>3, BasicAlways, VersionSeenNext, PTL DEF ContainerSpec, WantedVersionAnswers

-----------------------------------------------------------------------------
(* The client that is alone.                                               *)

\* What a client that is alone knows of the container, at each stage.
AloneAt(c) ==
  /\ pc[c] = "remove" /\ info[c].found => Exists(c)
  /\ pc[c] \in {"pull", "create"} => ~Exists(c)
  /\ pc[c] = "launch" => Exists(c) /\ container[Engine(c)].creator = c
  /\ pc[c] = "start" => Exists(c)
  /\ pc[c] \in {"launch", "start"} => container[Engine(c)].version = told[c].version
  /\ (Engine(c) \in Engines /\ pc[c] \in {"wait", "ok"}) =>
       Running(c) /\ container[Engine(c)].version = told[c].version
  /\ pc[c] = "error" =>
       attempts[c] = MaxAttempts \/ ~Nameable(c) \/ Engine(c) \notin Engines \cup {"unix", "ssh"}

AloneInv ==
  \A c \in alone : /\ pc[c] # "begin" /\ \A d \in Clients \ {c} : ~Active(d)
                   /\ AloneAt(c)

\* Its own steps keep what it knows.
LEMMA AloneStep ==
  ASSUME BasicInv, NEW c \in Clients, Step(c),
         pc[c] # "begin" => AloneAt(c)
  PROVE  AloneAt(c)'
<1>0. /\ pc \in [Clients -> Stages] /\ container \in [Engines -> Container] /\ told' = told
      /\ info \in [Clients -> [found : BOOLEAN, active : BOOLEAN]]
      /\ attempts \in [Clients -> 0..MaxAttempts]
      /\ Engine(c)' = Engine(c) /\ Nameable(c)' = Nameable(c)
  <2>1. [ContainerNext]_containerVars
    BY DEF ContainerNext
  <2> QED
    BY <2>1, ToldStays DEF BasicInv, ContainerTypeOK
<1>1. CASE Begin(c)
  BY <1>0, <1>1 DEF Begin, Goto, AloneAt
<1>2. CASE CheckEngine(c)
  BY <1>0, <1>2 DEF CheckEngine, Goto, AloneAt
<1>3. CASE Inspect(c)
  <2>1. /\ pc'[c] = AfterInspect(c) /\ info'[c].found = Exists(c)
        /\ container' = container
    BY <1>0, <1>3 DEF Inspect, Goto
  <2> QED
    BY <1>0, <2>1 DEF AfterInspect, ImageTag, AloneAt, Exists, Running
<1>4. ASSUME pc[c] # "begin" PROVE Engine(c) \in Engines
  BY <1>4, EngineThere DEF Step, Begin, CheckEngine, Inspect, Remove, Pull, Create, Launch,
     StartContainer, Answers, NoAnswer
<1>5. CASE Remove(c)
  <2>1. ~Exists(c)' /\ pc'[c] = "pull"
    BY <1>0, <1>4, <1>5 DEF Remove, Goto, AloneAt, AfterFailedRemove, SetState, Exists, Container
  <2> QED
    BY <2>1 DEF AloneAt
<1>6. CASE Pull(c)
  BY <1>0, <1>6 DEF Pull, Goto, AloneAt, Exists
<1>7. CASE Create(c)
  <2>1. CASE Nameable(c)
    <3>1. /\ pc'[c] = "launch" /\ Exists(c)' /\ container'[Engine(c)].creator = c
          /\ container'[Engine(c)].version = told[c].version
      BY <1>0, <1>4, <1>7, <2>1 DEF Create, Goto, AloneAt, Exists, ImageTag
    <3> QED
      BY <1>0, <3>1 DEF AloneAt
  <2>2. CASE ~Nameable(c)
    BY <1>0, <1>7, <2>2 DEF Create, Goto, AloneAt
  <2> QED
    BY <2>1, <2>2
<1>8. CASE Launch(c) \/ StartContainer(c)
  <2>1. /\ Exists(c) /\ container' = [container EXCEPT ![Engine(c)].state = "running"]
        /\ container[Engine(c)].version = told[c].version
        /\ pc'[c] \in {"start", "wait"}
    BY <1>0, <1>8 DEF Launch, StartContainer, Goto, SetState, AloneAt, AfterLaunch
  <2>2. Running(c)' /\ Exists(c)' /\ container'[Engine(c)].version = told[c].version
    BY <1>0, <1>4, <1>8, <2>1 DEF Running, Exists, Container, Launch, StartContainer
  <2> QED
    BY <1>0, <2>1, <2>2 DEF AloneAt
<1>9. CASE Answers(c) \/ NoAnswer(c)
  <2>1. Running(c) /\ container[Engine(c)].version = told[c].version
    BY <1>4, <1>9 DEF Answers, NoAnswer, AloneAt
  <2>2. Running(c)' /\ container'[Engine(c)].version = told[c].version
    BY <1>0, <1>9, <2>1 DEF Answers, NoAnswer, Running
  <2>3. \/ pc'[c] \in {"ok", "wait"}
        \/ pc'[c] = "error" /\ attempts'[c] = MaxAttempts
    <3>1. CASE Answers(c)
      BY <1>0, <3>1 DEF Answers, Goto
    <3>2. CASE NoAnswer(c)
      <4>1. attempts[c] \in 0..MaxAttempts /\ MaxAttempts \in Nat
        BY <1>0, AttemptsAssumption
      <4>2. /\ pc'[c] = AfterAttempt(c)
            /\ attempts'[c] = IF attempts[c] < MaxAttempts THEN attempts[c] + 1 ELSE attempts[c]
        BY <1>0, <3>2 DEF NoAnswer, Goto
      <4> QED
        BY <4>1, <4>2 DEF AfterAttempt
    <3> QED
      BY <1>9, <3>1, <3>2
  <2> QED
    BY <1>0, <2>2, <2>3 DEF AloneAt
<1> QED
  BY <1>1, <1>2, <1>3, <1>5, <1>6, <1>7, <1>8, <1>9 DEF Step

LEMMA AloneNext == BasicInv /\ AloneInv /\ [ContainerNext]_containerVars => AloneInv'
<1> SUFFICES ASSUME BasicInv, AloneInv, [ContainerNext]_containerVars, NEW c \in alone'
             PROVE  /\ pc'[c] # "begin" /\ \A d \in Clients \ {c} : ~Active(d)'
                    /\ AloneAt(c)'
  BY DEF AloneInv
<1>0. /\ alone \subseteq Clients /\ alone' \subseteq Clients
      /\ pc \in [Clients -> Stages]
  BY BasicNext DEF BasicInv, ContainerTypeOK
<1>1. ASSUME NEW d \in Clients, Step(d)
      PROVE  /\ c = d
             /\ \A other \in Clients \ {d} : ~Active(other)
             /\ pc[d] # "begin" => AloneAt(d)
  <2>1. CASE Begin(d)
    BY <1>0, <2>1 DEF Begin
  <2>2. CASE ~Begin(d)
    <3>1. alone' = alone /\ Active(d)
      BY <1>1, <2>2 DEF Step, CheckEngine, Inspect, Remove, Pull, Create, Launch, StartContainer,
         Answers, NoAnswer, Active, Ended
    <3>2. c \in alone
      BY <3>1
    <3>3. AloneAt(c) /\ \A other \in Clients \ {c} : ~Active(other)
      BY <3>2 DEF AloneInv
    <3>4. c = d
      BY <1>1, <3>1, <3>3
    <3> QED
      BY <3>3, <3>4
  <2> QED
    BY <2>1, <2>2
<1>2. ASSUME NEW d \in Clients, Step(d)
      PROVE  /\ pc'[c] # "begin" /\ \A other \in Clients \ {c} : ~Active(other)'
             /\ AloneAt(c)'
  <2>1. AloneAt(c)'
    BY <1>1, <1>2, AloneStep
  <2>2. \A other \in Clients \ {c} : ~Active(other)'
    BY <1>1, <1>2, ClientsKeepApart DEF Active, Ended
  <2>3. pc'[d] # "begin"
    BY <1>0, <1>2 DEF Step, Begin, CheckEngine, Inspect, Remove, Pull, Create, Launch,
       StartContainer, Answers, NoAnswer, Goto, AfterInspect, AfterFailedRemove, AfterLaunch,
       AfterAttempt
  <2> QED
    BY <1>1, <1>2, <2>1, <2>2, <2>3
<1>3. ASSUME NEW d \in Clients, Fails(d) \/ InspectFails(d) \/ RemoveFails(d)
      PROVE  FALSE
  <2>1. alone' = alone \ {d} /\ Active(d)
    BY <1>3 DEF Fails, InspectFails, RemoveFails, Fault, Active, Ended
  <2> QED
    BY <1>0, <2>1 DEF AloneInv
<1>4. ASSUME NEW e \in Engines, Stop(e) PROVE FALSE
  BY <1>0, <1>4 DEF Stop, Fault
<1>5. CASE UNCHANGED containerVars
  <2>1. /\ c \in alone /\ Engine(c)' = Engine(c) /\ Nameable(c)' = Nameable(c)
        /\ UNCHANGED <<told, pc, info, attempts, container>>
    BY <1>0, <1>5, ToldStays DEF containerVars
  <2>2. /\ AloneAt(c) /\ pc[c] # "begin"
        /\ \A d \in Clients \ {c} : ~Active(d)
    BY <2>1 DEF AloneInv
  <2>3. Exists(c)' = Exists(c) /\ Running(c)' = Running(c)
    BY <2>1 DEF Exists, Running
  <2>4. AloneAt(c)'
    BY <2>1, <2>2, <2>3 DEF AloneAt
  <2>5. \A d \in Clients \ {c} : ~Active(d)'
    BY <2>1, <2>2 DEF Active, Ended
  <2> QED
    BY <2>1, <2>2, <2>4, <2>5
<1> QED
  BY <1>2, <1>3, <1>4, <1>5 DEF ContainerNext

\* ALONE.  Whatever is found there, a client that is left alone gets a running
\* daemon of its version to wait for, and no command of its own fails.
THEOREM AloneClientIsServed == ContainerSpec => []AloneIsServed
<1>1. ContainerInit => AloneInv
  BY DEF ContainerInit, AloneInv
<1>2. AloneInv => AloneIsServed
  <2> SUFFICES ASSUME AloneInv, NEW c \in alone
               PROVE  /\ (Engine(c) \in Engines /\ pc[c] \in {"wait", "ok"}) =>
                           Running(c) /\ container[Engine(c)].version = told[c].version
                      /\ pc[c] = "error" => \/ attempts[c] = MaxAttempts \/ ~Nameable(c)
                                            \/ Engine(c) \notin Engines \cup {"unix", "ssh"}
    BY DEF AloneIsServed
  <2>1. AloneAt(c)
    BY DEF AloneInv
  <2> QED
    BY <2>1 DEF AloneAt
<1> QED
  BY <1>1, <1>2, BasicAlways, AloneNext, PTL DEF ContainerSpec

-----------------------------------------------------------------------------
(* The container that runs in the end.                                     *)

\* As long as the container is not what is wanted, one of its users is about to
\* do something about it.
Repaired(e) ==
  /\ container[e].state = "absent" =>
       \E c \in Users(e) : \/ pc[c] \in {"begin", "check", "inspect", "pull", "create"}
                           \/ pc[c] = "remove" /\ ~info[c].found
  /\ container[e].state = "created" /\ container[e].creator # Nobody =>
       pc[container[e].creator] = "launch"
  /\ container[e].state = "created" /\ container[e].creator = Nobody =>
       \E c \in Users(e) : pc[c] \in {"begin", "check", "inspect", "remove", "start"}
  /\ container[e].state = "running" /\ container[e].creator = Nobody =>
       \/ \E c \in Users(e) : container[e].version = told[c].version
       \/ \E c \in Users(e) : pc[c] \in {"begin", "check", "inspect", "remove"}

SomeoneRepairs == faults = 0 => \A e \in Engines : Users(e) # {} => Repaired(e)

\* A container that was there before any client is only started in a version that
\* is wanted.
StartsSeen ==
  \A c \in Clients : pc[c] = "start" /\ container[Engine(c)].creator = Nobody =>
    container[Engine(c)].version = told[c].version

LEMMA StartsSeenNext ==
  BasicInv /\ StartsSeen /\ [ContainerNext]_containerVars => StartsSeen'
<1> SUFFICES ASSUME BasicInv, StartsSeen, [ContainerNext]_containerVars,
                    NEW c \in Clients, pc'[c] = "start",
                    container'[Engine(c)].creator = Nobody
             PROVE  container'[Engine(c)].version = told[c].version
  BY ToldStays DEF StartsSeen
<1>0. /\ pc \in [Clients -> Stages] /\ container \in [Engines -> Container]
      /\ \A d \in Clients : d # Nobody
  BY ClientsAssumption DEF BasicInv, ContainerTypeOK
<1>1. Engine(c) \in Engines
  BY <1>0, StagesNext, ToldStays DEF KnownEngine, Active, Ended
<1>2. /\ container[Engine(c)].creator = Nobody
      /\ container'[Engine(c)].version = container[Engine(c)].version
  BY <1>0, <1>1, ContainersNext DEF Container
<1>3. CASE pc[c] = "start"
  BY <1>2, <1>3 DEF StartsSeen
<1>4. CASE pc[c] # "start"
  <2>1. Step(c) \/ Fails(c) \/ InspectFails(c) \/ RemoveFails(c)
    BY <1>4, OwnSteps
  <2>2. ~(Fails(c) \/ InspectFails(c) \/ RemoveFails(c))
    BY <1>0 DEF Fails, InspectFails, RemoveFails, Goto, AfterFailedRemove
  <2>3. ~(Begin(c) \/ CheckEngine(c) \/ Remove(c) \/ Pull(c) \/ Create(c))
    BY <1>0 DEF Begin, CheckEngine, Remove, Pull, Create, Goto, AfterFailedRemove
  <2>4. ~(StartContainer(c) \/ Answers(c) \/ NoAnswer(c))
    BY <1>0 DEF StartContainer, Answers, NoAnswer, Goto, AfterAttempt
  <2>5. ~Launch(c)
    BY <1>0, <1>2 DEF Launch, Goto
  <2>6. pc'[c] = AfterInspect(c)
    BY <1>0, <2>1, <2>2, <2>3, <2>4, <2>5 DEF Step, Inspect, Goto
  <2> QED
    BY <1>2, <2>6 DEF AfterInspect, ImageTag
<1> QED
  BY <1>3, <1>4

\* A client that uses the container goes on repairing it, or has repaired it.
LEMMA RepairStep ==
  ASSUME BasicInv, StartsSeen, NEW e \in Engines, Repaired(e),
         NEW c \in Users(e), Step(c)
  PROVE  Repaired(e)'
<1>0. /\ pc \in [Clients -> Stages] /\ container \in [Engines -> Container] /\ told' = told
      /\ info \in [Clients -> [found : BOOLEAN, active : BOOLEAN]]
      /\ Users(e)' = Users(e) /\ c \in Clients /\ Nameable(c) /\ Engine(c) = e
      /\ Users(e) \subseteq Clients /\ c # Nobody
  <2>1. c \in Clients /\ Nameable(c) /\ Engine(c) = e /\ Users(e) \subseteq Clients
    BY DEF Users
  <2>2. [ContainerNext]_containerVars
    BY <2>1 DEF ContainerNext
  <2> QED
    BY <2>1, <2>2, ToldStays, ClientsAssumption DEF BasicInv, ContainerTypeOK
<1>1. /\ \A d \in Users(e) \ {c} : pc'[d] = pc[d] /\ info'[d] = info[d]
      /\ \A d \in Clients \ {c} : pc'[d] = pc[d]
      /\ container[e].creator # Nobody => container[e].creator \in Clients
  BY <1>0, ClientsKeepApart DEF BasicInv, ContainerTypeOK, Container
<1>2. /\ Exists(c) <=> container[e].state # "absent"
      /\ Running(c) <=> container[e].state = "running"
      /\ container[e].state \in {"absent", "created", "running"}
  BY <1>0 DEF Exists, Running, Container
<1>3. CASE Begin(c) \/ CheckEngine(c)
  <2>1. /\ pc[c] \in {"begin", "check"} /\ pc'[c] \in {"check", "inspect"}
        /\ UNCHANGED <<container, info>>
    BY <1>0, <1>3 DEF Begin, CheckEngine, Goto
  <2> QED
    BY <1>0, <1>1, <2>1 DEF Repaired
<1>4. CASE Inspect(c)
  <2>1. /\ pc[c] = "inspect" /\ pc'[c] = AfterInspect(c) /\ info'[c].found = Exists(c)
        /\ container' = container
    BY <1>0, <1>4 DEF Inspect, Goto
  <2>2. /\ container[e].state = "absent" => pc'[c] = "remove" /\ ~info'[c].found
        /\ container[e].state = "created" => pc'[c] \in {"remove", "start"}
        /\ container[e].state = "running" =>
             pc'[c] = "remove" \/ container[e].version = told[c].version
    BY <1>0, <1>2, <2>1 DEF AfterInspect, ImageTag
  <2> QED
    BY <1>0, <1>1, <2>1, <2>2 DEF Repaired
<1>5. CASE Remove(c)
  <2>1. pc[c] = "remove" /\ info' = info
    BY <1>5 DEF Remove
  <2>2. CASE Exists(c)
    <3>1. container'[e].state = "absent" /\ pc'[c] = "pull"
      BY <1>0, <1>5, <2>2 DEF Remove, SetState, Goto, Container
    <3>2. \E d \in Users(e)' : pc'[d] \in {"begin", "check", "inspect", "pull", "create"}
      BY <1>0, <3>1
    <3> QED
      BY <3>1, <3>2 DEF Repaired
  <2>3. CASE ~Exists(c)
    <3>1. container' = container /\ (~info[c].found => pc'[c] = "pull")
      BY <1>0, <1>5, <2>3 DEF Remove, Goto, AfterFailedRemove
    <3> QED
      BY <1>0, <1>1, <1>2, <2>1, <2>3, <3>1 DEF Repaired
  <2> QED
    BY <2>2, <2>3
<1>6. CASE Pull(c)
  <2>1. pc[c] = "pull" /\ pc'[c] = "create" /\ UNCHANGED <<container, info>>
    BY <1>0, <1>6 DEF Pull, Goto
  <2> QED
    BY <1>0, <1>1, <2>1 DEF Repaired
<1>7. CASE Create(c)
  <2>1. CASE Exists(c)
    <3>1. pc[c] = "create" /\ UNCHANGED <<container, info>>
      BY <1>0, <1>7, <2>1 DEF Create
    <3> QED
      BY <1>0, <1>1, <1>2, <2>1, <3>1 DEF Repaired
  <2>2. CASE ~Exists(c)
    <3>1. /\ container'[e].state = "created" /\ container'[e].creator = c
          /\ pc'[c] = "launch"
      BY <1>0, <1>7, <2>2 DEF Create, Goto
    <3> QED
      BY <1>0, <3>1 DEF Repaired
  <2> QED
    BY <2>1, <2>2
<1>8. CASE Launch(c)
  <2>1. pc[c] = "launch" /\ info' = info
    BY <1>8 DEF Launch
  <2>2. CASE Exists(c) /\ container[e].creator = c
    <3>1. container'[e].state = "running" /\ container'[e].creator = c
      BY <1>0, <1>8, <2>2 DEF Launch, SetState, Container
    <3> QED
      BY <1>0, <3>1 DEF Repaired
  <2>3. CASE ~(Exists(c) /\ container[e].creator = c)
    <3>1. container' = container
      BY <1>0, <1>8, <2>3 DEF Launch
    <3> QED
      BY <1>0, <1>1, <1>2, <2>1, <2>3, <3>1 DEF Repaired
  <2> QED
    BY <2>2, <2>3
<1>9. CASE StartContainer(c)
  <2>1. pc[c] = "start" /\ info' = info
    BY <1>9 DEF StartContainer
  <2>2. CASE Exists(c)
    <3>1. /\ container'[e].state = "running" /\ container'[e].creator = container[e].creator
          /\ container'[e].version = container[e].version
      BY <1>0, <1>9, <2>2 DEF StartContainer, SetState, Container
    <3>2. container[e].creator = Nobody => container[e].version = told[c].version
      BY <1>0, <2>1 DEF StartsSeen
    <3> QED
      BY <1>0, <3>1, <3>2 DEF Repaired
  <2>3. CASE ~Exists(c)
    <3>1. container' = container
      BY <1>9, <2>3 DEF StartContainer
    <3> QED
      BY <1>0, <1>1, <1>2, <2>1, <2>3, <3>1 DEF Repaired
  <2> QED
    BY <2>2, <2>3
<1>10. CASE Answers(c) \/ NoAnswer(c)
  <2>1. pc[c] = "wait" /\ UNCHANGED <<container, info>>
    BY <1>10 DEF Answers, NoAnswer
  <2> QED
    BY <1>0, <1>1, <2>1 DEF Repaired
<1> QED
  BY <1>3, <1>4, <1>5, <1>6, <1>7, <1>8, <1>9, <1>10 DEF Step

LEMMA SomeoneRepairsNext ==
  BasicInv /\ StartsSeen /\ SomeoneRepairs /\ [ContainerNext]_containerVars => SomeoneRepairs'
<1> SUFFICES ASSUME BasicInv, StartsSeen, SomeoneRepairs, [ContainerNext]_containerVars,
                    faults' = 0, NEW e \in Engines, Users(e) # {}
             PROVE  Repaired(e)'
  BY ToldStays DEF SomeoneRepairs
<1>0. /\ faults \in Nat /\ told' = told /\ Users(e)' = Users(e) /\ Users(e) \subseteq Clients
      /\ container[e].creator # Nobody => container[e].creator \in Users(e)
  BY ToldStays, MaxFaultsAssumption DEF BasicInv, ContainerTypeOK, Users, CreatorsOwn
<1>1. ASSUME NEW cs, Fault(cs) PROVE FALSE
  BY <1>0, <1>1 DEF Fault
<1>2. CASE UNCHANGED containerVars
  BY <1>0, <1>2 DEF containerVars, SomeoneRepairs, Repaired
<1>3. ASSUME NEW c \in Clients, Step(c) PROVE Repaired(e)'
  <2>1. Repaired(e)
    BY <1>3, ClientsKeepApart DEF SomeoneRepairs
  <2>2. CASE c \in Users(e)
    BY <1>3, <2>1, <2>2, RepairStep
  <2>3. CASE c \notin Users(e)
    <3>1. /\ container'[e] = container[e]
          /\ \A d \in Users(e) : pc'[d] = pc[d] /\ info'[d] = info[d]
      BY <1>0, <1>3, <2>3, ClientsKeepApart
    <3> QED
      BY <1>0, <2>1, <3>1 DEF Repaired
  <2> QED
    BY <2>2, <2>3
<1> QED
  BY <1>1, <1>2, <1>3 DEF ContainerNext, Fails, InspectFails, RemoveFails, Stop

\* IN THE END.  However many clients look after one container between each
\* other's commands, once all have returned it runs in a version one of them wants.
THEOREM ContainerRunsInTheEnd == ContainerSpec => []RunsInTheEnd
<1>1. ContainerInit => StartsSeen /\ SomeoneRepairs
  <2> SUFFICES ASSUME ContainerInit PROVE StartsSeen /\ SomeoneRepairs
    OBVIOUS
  <2>1. /\ pc = [c \in Clients |-> "begin"]
        /\ \A e \in Engines : container[e].creator = Nobody
    BY DEF ContainerInit, Found
  <2>2. ASSUME NEW e \in Engines, Users(e) # {} PROVE Repaired(e)
    <3>1. PICK c \in Users(e) : pc[c] = "begin"
      BY <2>1, <2>2 DEF Users
    <3>2. \E d \in Users(e) : pc[d] \in {"begin", "check", "inspect", "pull", "create"}
      BY <3>1
    <3>3. \E d \in Users(e) : pc[d] \in {"begin", "check", "inspect", "remove", "start"}
      BY <3>1
    <3>4. \E d \in Users(e) : pc[d] \in {"begin", "check", "inspect", "remove"}
      BY <3>1
    <3> QED
      BY <2>1, <3>2, <3>3, <3>4 DEF Repaired
  <2>3. StartsSeen
    BY <2>1 DEF StartsSeen
  <2> QED
    BY <2>2, <2>3 DEF SomeoneRepairs
<1>2. BasicInv /\ SomeoneRepairs => RunsInTheEnd
  <2> SUFFICES ASSUME BasicInv, SomeoneRepairs, NEW e \in Engines, faults = 0, Users(e) # {},
                      \A c \in Users(e) : pc[c] \in {"ok", "error"}
               PROVE  /\ container[e].state = "running"
                      /\ container[e].version \in {told[c].version : c \in Users(e)}
    BY DEF RunsInTheEnd, Ended
  <2>1. /\ container[e].state \in {"absent", "created", "running"}
        /\ Repaired(e)
    BY DEF BasicInv, ContainerTypeOK, Container, SomeoneRepairs
  <2>2. container[e].creator # Nobody =>
          /\ container[e].creator \in Users(e)
          /\ container[e].version = told[container[e].creator].version
    BY DEF BasicInv, CreatorsOwn
  <2> QED
    BY <2>1, <2>2 DEF Repaired
<1> QED
  BY <1>1, <1>2, BasicAlways, StartsSeenNext, SomeoneRepairsNext, PTL DEF ContainerSpec

=============================================================================
