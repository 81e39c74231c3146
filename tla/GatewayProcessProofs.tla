------------------------ MODULE GatewayProcessProofs ------------------------
(***************************************************************************)
(* For any number of commands and process ids: a gateway whose start was    *)
(* left to itself is named by the pid file until it ends, whatever else is  *)
(* started, stopped or interrupted; gateways that come to the token file    *)
(* one after the other keep it; and a job is run once unless two schedulers *)
(* have it in hand together.                                                *)
(***************************************************************************)
EXTENDS GatewayProcess, TLAPS

USE GatewayProcessAssumption
    DEF fileVars, tokenVars, gatewayVars, jobVars, pastVars

\* What a place in a command says of the command.
Shape ==
    \A c \in Commands :
        /\ command[c].name = "none" <=> command[c].at = "none"
        /\ command[c].at \in {"spawn", "open", "write", "replace"} =>
               command[c].name = "start"
        /\ command[c].at \in {"kill", "poll", "unlink_stopped"} =>
               command[c].name = "stop"
        /\ command[c].at \in {"probe", "open", "write", "replace", "kill",
                              "poll"} =>
               command[c].pid \in Pids

\* A gateway that runs and whose start was left to itself.
Held(g) == Live(g) /\ g \notin stray

\* A start that has been left to itself so far; once it has spawned, its gateway
\* tells.
Clean(c) ==
    IF Recording(c) THEN Held(command[c].pid)
    ELSE command[c].name = "start" /\ ~command[c].met

\* It has the files to itself,
Apart ==
    \A c, d \in Commands : Clean(c) /\ d # c => command[d].name = "none"

\* finds no pid file when it spawns, and writes the pid to the file it renames.
Knows(c) ==
    /\ command[c].at = "spawn" \/ Recording(c) => pidFile = None
    /\ command[c].at = "write" => command[c].fd = "tmp"
    /\ command[c].at = "replace" => pidTmp = command[c].pid

FilesKnown == \A c \in Commands : Clean(c) => Knows(c)

Owned ==
    \A g \in Pids : Held(g) => pidFile = g \/ \E c \in Commands : Records(c, g)

\* What commands do while the pid file names such a gateway: none of them is
\* about to remove the file or to write it.
Minds(c, g) ==
    \/ command[c].at \in {"none", "exists", "read"}
    \/ command[c].at \in {"probe", "kill", "poll"} /\ command[c].pid = g

Named ==
    \A g \in Pids, c \in Commands : Held(g) /\ pidFile = g => Minds(c, g)

FilesInv == Apart /\ FilesKnown /\ Owned /\ Named

\* While one gateway makes the token file no other has come to it.
OneMaker ==
    \A g, h \in Pids :
        Making(g) /\ h # g =>
            ~Making(h) /\ gateway[h] \notin {"starting", "binding", "serving"}

HasToken ==
    \A g \in Pids : gateway[g] \in {"starting", "binding", "serving"} => token

TokenInv == crowded \/ (OneMaker /\ HasToken)

\* The one scheduler that may have the job in hand, and how far it is with it.
OneHand == \A g, h \in Pids : InHand(g) /\ InHand(h) => g = h

JobHeld ==
    /\ runs <= 1
    /\ job \in {"none", "QUEUED"} => runs = 0
    /\ \A g \in Pids :
        /\ thread[g] \in {"picked", "selected"} => job = "QUEUED"
        /\ thread[g] = "running" => job = "RUNNING" /\ runs = 0
        /\ thread[g] = "finishing" => job = "RUNNING" /\ runs = 1

JobInv == contested \/ (OneHand /\ JobHeld)

IInv == TypeOK /\ Shape /\ FilesInv /\ TokenInv /\ JobInv

Forms ==
    [name : {"none", "start", "stop"},
     at : {"none", "exists", "read", "probe", "unlink", "spawn", "open",
           "write", "replace", "kill", "poll", "unlink_stopped"},
     pid : Pids \cup {None},
     fd : {"none", "tmp", "pid", "gone"},
     met : BOOLEAN]

\* A command leaves the others where they are, up to their open file.
Same(d) ==
    /\ command'[d].name = command[d].name
    /\ command'[d].at = command[d].at
    /\ command'[d].pid = command[d].pid
    /\ command[d].met => command'[d].met

Others(c) == \A d \in Commands \ {c} : Same(d)
-----------------------------------------------------------------------------
\* Nothing runs and no file is there at first.
LEMMA InitInv == Init => IInv
<1>. SUFFICES ASSUME Init PROVE IInv
  OBVIOUS
<1>1. TypeOK
  BY DEF Init, TypeOK, Contents, GatewayStates, Threads, NoCommand
<1>2. Shape
  BY DEF Init, NoCommand, Shape
<1>3. FilesInv
  BY DEF Init, NoCommand, FilesInv, Apart, FilesKnown, Owned, Named, Minds,
         Clean, Held, Live, Recording
<1>4. TokenInv /\ JobInv
  BY DEF Init, TokenInv, OneMaker, HasToken, Making, JobInv, OneHand, InHand,
         JobHeld
<1>. QED BY <1>1, <1>2, <1>3, <1>4 DEF IInv

\* What removing the pid file does to it and to the commands.
LEMMA Unlinks ==
    ASSUME TypeOK, NEW c \in Commands, NEW next \in {"none", "spawn"},
           UnlinkPid(c, next)
    PROVE  /\ pidFile' = None
           /\ command' \in [Commands -> Forms]
           /\ Others(c)
           /\ next = "none" => command'[c] = NoCommand
           /\ next = "spawn" => /\ command'[c].name = command[c].name
                               /\ command'[c].at = "spawn"
                               /\ command'[c].met = command[c].met
<1>1. NoCommand \in Forms
  BY DEF NoCommand, Forms
<1>2. command \in [Commands -> Forms]
  BY DEF TypeOK, Forms
<1> DEFINE Moved(x) == [command[x] EXCEPT !.fd = Unlinked(@)]
<1>3. \A x \in Commands : /\ Moved(x) \in Forms
                          /\ Moved(x).name = command[x].name
                          /\ Moved(x).at = command[x].at
                          /\ Moved(x).pid = command[x].pid
                          /\ Moved(x).met = command[x].met
  BY <1>2 DEF Forms, Unlinked
<1>4. [Moved(c) EXCEPT !.at = next] \in Forms
  BY <1>3 DEF Forms
<1>5. command' = [x \in Commands |->
                   IF x # c THEN Moved(x)
                   ELSE IF next = "none" THEN NoCommand
                   ELSE [Moved(c) EXCEPT !.at = next]]
  BY DEF UnlinkPid
<1>6. command' \in [Commands -> Forms]
  BY <1>1, <1>3, <1>4, <1>5
<1>7. \A d \in Commands \ {c} : command'[d] = Moved(d)
  BY <1>5
<1>8. next = "spawn" => command'[c] = [Moved(c) EXCEPT !.at = "spawn"]
  BY <1>5
<1>9. next = "none" => command'[c] = NoCommand
  BY <1>5
<1>10. next = "spawn" => /\ command'[c].name = command[c].name
                        /\ command'[c].at = "spawn"
                        /\ command'[c].met = command[c].met
  BY <1>3, <1>8 DEF Forms
<1>11. pidFile' = None
  BY DEF UnlinkPid
<1>. QED BY <1>3, <1>6, <1>7, <1>9, <1>10, <1>11 DEF Others, Same

\* A command ends,
LEMMA EndsIs ==
    ASSUME TypeOK, NEW c \in Commands, Ends(c)
    PROVE  /\ command' \in [Commands -> Forms]
           /\ command'[c] = NoCommand /\ Others(c)
<1>1. NoCommand \in Forms
  BY DEF NoCommand, Forms
<1>. QED BY <1>1 DEF Ends, TypeOK, Forms, Others, Same

\* goes on with what it has,
LEMMA GoesToIs ==
    ASSUME TypeOK, NEW c \in Commands,
           NEW at \in {"exists", "read", "probe", "unlink", "spawn", "open",
                      "write", "replace", "kill", "poll", "unlink_stopped"},
           GoesTo(c, at)
    PROVE  /\ command' \in [Commands -> Forms] /\ Others(c)
           /\ command'[c].at = at
           /\ command'[c].name = command[c].name
           /\ command'[c].pid = command[c].pid
           /\ command'[c].met = command[c].met
<1>1. command \in [Commands -> Forms]
  BY DEF TypeOK, Forms
<1> DEFINE r == [command[c] EXCEPT !.at = at]
<1>2. command' = [command EXCEPT ![c] = r]
  BY <1>1 DEF GoesTo, Forms
<1>3. /\ r \in Forms /\ r.at = at /\ r.name = command[c].name
      /\ r.pid = command[c].pid /\ r.met = command[c].met
  BY <1>1 DEF Forms
<1> HIDE DEF r
<1>. QED BY <1>1, <1>2, <1>3 DEF Others, Same

\* or with another pid,
LEMMA TakesIs ==
    ASSUME TypeOK, NEW c \in Commands, NEW g \in Pids \cup {None},
           NEW at \in {"probe", "unlink", "unlink_stopped"},
           command' = [command EXCEPT ![c].at = at, ![c].pid = g]
    PROVE  /\ command' \in [Commands -> Forms] /\ Others(c)
           /\ command'[c].at = at /\ command'[c].pid = g
           /\ command'[c].name = command[c].name
           /\ command'[c].met = command[c].met
<1>1. command \in [Commands -> Forms]
  BY DEF TypeOK, Forms
<1> DEFINE r == [command[c] EXCEPT !.at = at, !.pid = g]
<1>2. command' = [command EXCEPT ![c] = r]
  BY <1>1 DEF Forms
<1>3. /\ r \in Forms /\ r.at = at /\ r.name = command[c].name
      /\ r.pid = g /\ r.met = command[c].met
  BY <1>1 DEF Forms
<1> HIDE DEF r
<1>. QED BY <1>1, <1>2, <1>3 DEF Others, Same

\* spawns a gateway,
LEMMA SpawnIs ==
    ASSUME TypeOK, NEW c \in Commands, NEW g \in Pids,
           command' = [command EXCEPT ![c].at = "open", ![c].pid = g,
                                      ![c].met = FALSE]
    PROVE  /\ command' \in [Commands -> Forms] /\ Others(c)
           /\ command'[c].at = "open" /\ command'[c].pid = g
           /\ command'[c].name = command[c].name
<1>1. command \in [Commands -> Forms]
  BY DEF TypeOK, Forms
<1> DEFINE r == [command[c] EXCEPT !.at = "open", !.pid = g, !.met = FALSE]
<1>2. command' = [command EXCEPT ![c] = r]
  BY <1>1 DEF Forms
<1>3. r \in Forms /\ r.at = "open" /\ r.name = command[c].name /\ r.pid = g
  BY <1>1 DEF Forms
<1> HIDE DEF r
<1>. QED BY <1>1, <1>2, <1>3 DEF Others, Same

\* writes a file,
LEMMA WritesIs ==
    ASSUME TypeOK, NEW c \in Commands, NEW at \in {"write", "replace"},
           NEW fd \in {"tmp", "none"},
           command' = [command EXCEPT ![c].at = at, ![c].fd = fd]
    PROVE  /\ command' \in [Commands -> Forms] /\ Others(c)
           /\ command'[c].at = at /\ command'[c].fd = fd
           /\ command'[c].name = command[c].name
           /\ command'[c].pid = command[c].pid
<1>1. command \in [Commands -> Forms]
  BY DEF TypeOK, Forms
<1> DEFINE r == [command[c] EXCEPT !.at = at, !.fd = fd]
<1>2. command' = [command EXCEPT ![c] = r]
  BY <1>1 DEF Forms
<1>3. /\ r \in Forms /\ r.at = at /\ r.name = command[c].name /\ r.fd = fd
      /\ r.pid = command[c].pid
  BY <1>1 DEF Forms
<1> HIDE DEF r
<1>. QED BY <1>1, <1>2, <1>3 DEF Others, Same

\* renames it,
LEMMA ReplacesIs ==
    ASSUME TypeOK, NEW c \in Commands, ReplacePid(c), pidTmp # None
    PROVE  /\ pidFile' = pidTmp /\ pidTmp' = None
           /\ command' \in [Commands -> Forms] /\ Others(c)
           /\ command'[c] = NoCommand
<1>1. NoCommand \in Forms
  BY DEF NoCommand, Forms
<1>2. command \in [Commands -> Forms]
  BY DEF TypeOK, Forms
<1> DEFINE Moved(x) == [command[x] EXCEPT !.fd = Replaced(@)]
<1>3. \A x \in Commands : /\ Moved(x) \in Forms
                          /\ Moved(x).name = command[x].name
                          /\ Moved(x).at = command[x].at
                          /\ Moved(x).pid = command[x].pid
                          /\ Moved(x).met = command[x].met
  BY <1>2 DEF Forms, Replaced, Unlinked
<1>4. command' = [x \in Commands |-> IF x = c THEN NoCommand ELSE Moved(x)]
  BY DEF ReplacePid
<1>5. pidFile' = pidTmp /\ pidTmp' = None
  BY DEF ReplacePid
<1>. QED BY <1>1, <1>3, <1>4, <1>5 DEF Others, Same

\* or begins, and marks the starts it meets.
LEMMA BeginIs ==
    ASSUME TypeOK, NEW c \in Commands, NEW name \in {"start", "stop"},
           Begin(c, name)
    PROVE  /\ command' \in [Commands -> Forms] /\ Others(c)
           /\ command'[c].name = name /\ command'[c].at = "exists"
           /\ \A d \in Commands \ {c} :
                 Busy(d) /\ name = "start" => command'[c].met
           /\ \A d \in Commands \ {c} :
                 command[d].name = "start" /\ ~Recording(d) =>
                     command'[d].met \/ ~Busy(d)
<1>. DEFINE others == {d \in Commands \ {c} : Busy(d)}
            starts == {d \in others : command[d].name = "start"}
            new == [NoCommand EXCEPT !.name = name, !.at = "exists",
                                     !.met = (name = "start" /\ others # {})]
            Marked(x) == [command[x] EXCEPT
                            !.met = @ \/ (x \in starts /\ ~Recording(x))]
<1>1. command \in [Commands -> Forms]
  BY DEF TypeOK, Forms
<1>2. new \in Forms /\ new.name = name /\ new.at = "exists"
  BY DEF NoCommand, Forms
<1>3. new.met = (name = "start" /\ others # {})
  BY DEF NoCommand
<1>4. ASSUME NEW x \in Commands
      PROVE  /\ Marked(x) \in Forms
             /\ Marked(x).name = command[x].name
             /\ Marked(x).at = command[x].at
             /\ Marked(x).pid = command[x].pid
  BY <1>1 DEF Forms
<1>5. ASSUME NEW x \in Commands
      PROVE  Marked(x).met = (command[x].met \/ (x \in starts /\ ~Recording(x)))
  BY <1>1 DEF Forms
<1>6. command' = [x \in Commands |-> IF x = c THEN new ELSE Marked(x)]
  BY DEF Begin
<1>7. command'[c] = new /\ \A d \in Commands \ {c} : command'[d] = Marked(d)
  BY <1>6
<1>8. command' \in [Commands -> Forms]
  BY <1>2, <1>4, <1>6
<1>9. \A d \in Commands \ {c} : Busy(d) /\ name = "start" => command'[c].met
  BY <1>3, <1>7
<1>10. \A d \in Commands \ {c} :
          command[d].name = "start" /\ ~Recording(d) =>
              command'[d].met \/ ~Busy(d)
  BY <1>5, <1>7
<1>. HIDE DEF new, Marked
<1>11. Others(c)
  BY <1>4, <1>5, <1>7 DEF Others, Same
<1>. QED BY <1>2, <1>7, <1>8, <1>9, <1>10, <1>11

\* No command but the one that moves is a start left to itself.
LEMMA Alone ==
    ASSUME TypeOK, Shape, Apart, NEW c \in Commands, Busy(c), Others(c),
           \A g \in Pids : Held(g)' => Held(g)
    PROVE  \A d \in Commands \ {c} : ~Clean(d)'
<1>. SUFFICES ASSUME NEW d \in Commands \ {c}, Clean(d)' PROVE FALSE
  OBVIOUS
<1>1. Recording(d) => command[d].pid \in Pids
  BY DEF Shape, Recording
<1>2. Clean(d)
  BY <1>1 DEF Clean, Recording, Others, Same
<1>. QED BY <1>2 DEF Apart, Busy

\* A step of a command that leaves the files as they are.
LEMMA QuietMove ==
    ASSUME TypeOK, Shape, FilesInv, UNCHANGED fileVars,
           NEW c \in Commands, Others(c),
           \A g \in Pids : Held(g)' => Held(g),
           \A g \in Pids : Records(c, g) => ~Held(g)',
           \A d \in Commands \ {c} : ~Clean(d)',
           Clean(c)' => Knows(c)' /\ \A d \in Commands \ {c} :
                                         command[d].name = "none",
           \A g \in Pids : Held(g)' /\ pidFile = g => Minds(c, g)'
    PROVE  FilesInv'
<1>1. Apart' /\ FilesKnown'
  BY DEF Apart, FilesKnown, Others, Same
<1>2. Owned'
  <2>. SUFFICES ASSUME NEW g \in Pids, Held(g)', pidFile # g
                PROVE  \E d \in Commands : Records(d, g)'
    BY DEF Owned
  <2>1. PICK d \in Commands : Records(d, g)
    BY DEF FilesInv, Owned
  <2>2. d # c
    BY <2>1 DEF Records, Held, Live
  <2>. QED BY <2>1, <2>2 DEF Records, Recording, Others, Same
<1>3. Named'
  <2>. SUFFICES ASSUME NEW g \in Pids, NEW d \in Commands \ {c},
                       Held(g)', pidFile = g
                PROVE  Minds(d, g)'
    BY DEF Named
  <2>1. Minds(d, g)
    BY DEF FilesInv, Named
  <2>. QED BY <2>1 DEF Minds, Others, Same
<1>. QED BY <1>1, <1>2, <1>3 DEF FilesInv

\* A command that has come to where it changes the files, and does not record a
\* gateway left to itself, does so when there is none.
LEMMA NothingHeld ==
    ASSUME TypeOK, Shape, FilesInv, NEW c \in Commands,
           command[c].at \in {"unlink", "unlink_stopped", "spawn", "open",
                              "write", "replace"},
           Recording(c) => ~Held(command[c].pid)
    PROVE  \A g \in Pids : ~Held(g)
<1>. SUFFICES ASSUME NEW g \in Pids, Held(g) PROVE FALSE
  OBVIOUS
<1>1. pidFile # g
  BY DEF FilesInv, Named, Minds
<1>2. PICK d \in Commands : Records(d, g)
  BY <1>1 DEF FilesInv, Owned
<1>3. Clean(d) /\ d # c
  BY <1>2 DEF Clean, Records
<1>. QED BY <1>3 DEF FilesInv, Apart, Shape

\* Nothing is asked of the files while there is no gateway or start that was
\* left to itself.
LEMMA Vacuous ==
    ASSUME \A g \in Pids : ~Held(g)', \A d \in Commands : ~Clean(d)'
    PROVE  FilesInv'
  BY DEF FilesInv, Apart, FilesKnown, Owned, Named

\* A command begins; if it meets a start, or is one that meets a command, the
\* gateway of that start is not asked about.
LEMMA BeginStep ==
    ASSUME TypeOK, Shape, FilesInv, NEW c \in Commands,
           NEW name \in {"start", "stop"}, Begin(c, name)
    PROVE  FilesInv'
<1>1. /\ UNCHANGED <<fileVars, gatewayVars>> /\ ~Recording(c)
      /\ stray \subseteq stray'
      /\ \A d \in Commands \ {c}, g \in Pids :
            Records(d, g) /\ command[d].name = "start" /\ Live(g) =>
                g \in stray'
  BY DEF Begin, Busy, Shape, Recording, Records
<1>2. /\ Others(c) /\ command'[c].name = name /\ command'[c].at = "exists"
      /\ \A d \in Commands \ {c} :
            Busy(d) /\ name = "start" => command'[c].met
      /\ \A d \in Commands \ {c} :
            command[d].name = "start" /\ ~Recording(d) =>
                command'[d].met \/ ~Busy(d)
  BY BeginIs
<1>3. \A g \in Pids : Held(g)' => Held(g)
  BY <1>1 DEF Held, Live
<1>4. ASSUME NEW d \in Commands \ {c} PROVE ~Clean(d)'
  <2>1. CASE Recording(d)
    <3>1. command[d].pid \in Pids /\ command[d].name = "start"
      BY <2>1 DEF Shape, Recording
    <3>2. Live(command[d].pid) => command[d].pid \in stray'
      BY <1>1, <2>1, <3>1 DEF Records
    <3>3. \A g \in Pids : g = command[d].pid => ~Held(g)'
      BY <1>1, <3>2 DEF Held, Live
    <3>. QED BY <1>2, <2>1, <3>1, <3>3 DEF Clean, Recording, Others, Same
  <2>2. CASE ~Recording(d)
    BY <1>2, <2>2 DEF Clean, Recording, Others, Same, Busy
  <2>. QED BY <2>1, <2>2
<1>5. Clean(c)' =>
          Knows(c)' /\ \A d \in Commands \ {c} : command[d].name = "none"
  <2>1. Clean(c)' => name = "start" /\ ~command'[c].met
    BY <1>2 DEF Clean, Recording
  <2>. QED BY <1>2, <2>1 DEF Knows, Recording, Busy
<1>6. \A g \in Pids : Minds(c, g)'
  BY <1>2 DEF Minds
<1>. QED BY <1>1, <1>2, <1>3, <1>4, <1>5, <1>6, QuietMove DEF Records

\* A command looks at the pid file, the process, or gives up.
LEMMA LookStep ==
    ASSUME TypeOK, Shape, FilesInv, NEW c \in Commands,
           FindPid(c) \/ ReadPid(c) \/ Probe(c) \/ Poll(c)
    PROVE  FilesInv'
<1>1. /\ UNCHANGED <<fileVars, gatewayVars, stray>>
      /\ command[c].at \in {"exists", "read", "probe", "poll"}
      /\ Busy(c) /\ ~Recording(c)
  BY DEF FindPid, ReadPid, Probe, Poll, Busy, Shape, Recording
<1>2. \A g \in Pids : Held(g)' <=> Held(g)
  BY <1>1 DEF Held, Live
<1>3. Others(c)
  BY EndsIs, GoesToIs, TakesIs
     DEF FindPid, ReadPid, Probe, Poll, Continue, WhenStopped, WhenRunning,
         Forgets
<1>4. \A d \in Commands \ {c} : ~Clean(d)'
  BY <1>1, <1>2, <1>3, Alone DEF FilesInv
<1>5. \/ command'[c] = NoCommand
      \/ /\ command'[c].name = command[c].name
         /\ command'[c].met = command[c].met
         /\ \/ command'[c].at = "read"
            \/ command'[c].at = "spawn" /\ pidFile = None
            \/ command'[c].at = "probe" /\ command'[c].pid = pidFile
            \/ command'[c].at = "unlink" /\ pidFile \notin Pids
            \/ /\ command'[c].at = "kill" /\ command[c].at = "probe"
               /\ command'[c].pid = command[c].pid
            \/ /\ command'[c].at \in {"unlink", "unlink_stopped"}
               /\ command[c].at \in {"probe", "poll"}
               /\ gateway[command[c].pid] = "none"
  <2>1. CASE FindPid(c)
    BY <2>1, EndsIs, GoesToIs DEF FindPid, Continue, WhenStopped
  <2>2. CASE ReadPid(c)
    BY <2>2, TakesIs DEF ReadPid, Forgets
  <2>3. CASE Probe(c)
    BY <2>3, EndsIs, GoesToIs, TakesIs
       DEF Probe, Continue, WhenRunning, Forgets
  <2>4. CASE Poll(c)
    BY <2>4, EndsIs, TakesIs DEF Poll, Forgets
  <2>. QED BY <2>1, <2>2, <2>3, <2>4
<1>6. Clean(c)' =>
          Knows(c)' /\ \A d \in Commands \ {c} : command[d].name = "none"
  <2>1. Clean(c)' => Clean(c)
    BY <1>1, <1>5 DEF Clean, Recording, NoCommand
  <2>2. Knows(c)'
    BY <1>1, <1>5 DEF Knows, Recording, NoCommand
  <2>. QED BY <2>1, <2>2 DEF FilesInv, Apart
<1>7. ASSUME NEW g \in Pids, Held(g)', pidFile = g PROVE Minds(c, g)'
  <2>1. Held(g) /\ Minds(c, g) /\ gateway[g] # "none"
    BY <1>2, <1>7 DEF FilesInv, Named, Held, Live
  <2>2. command[c].at \in {"probe", "poll"} => command[c].pid = g
    BY <2>1 DEF Minds
  <2>. QED BY <1>5, <1>7, <2>1, <2>2 DEF Minds, NoCommand
<1>. QED BY <1>1, <1>2, <1>3, <1>4, <1>6, <1>7, QuietMove DEF Records

\* A stop signals the process, which is a gateway, another one or gone.
LEMMA KillStep ==
    ASSUME TypeOK, Shape, FilesInv, NEW c \in Commands, Kill(c)
    PROVE  FilesInv'
<1>1. /\ UNCHANGED fileVars /\ command[c].at = "kill" /\ command[c].pid \in Pids
      /\ command[c].name = "stop" /\ Busy(c) /\ ~Recording(c)
  BY DEF Kill, Shape, Busy, Recording
<1>2. \A g \in Pids : Held(g)' => Held(g)
  BY <1>1 DEF Kill, Terminated, Dies, Held, Live, TypeOK
<1>3. /\ Others(c)
      /\ \/ command'[c] = NoCommand
         \/ /\ command'[c].at = "poll" /\ command'[c].name = "stop"
            /\ command'[c].pid = command[c].pid
  BY <1>1, EndsIs, GoesToIs DEF Kill
<1>4. \A d \in Commands \ {c} : ~Clean(d)'
  BY <1>1, <1>2, <1>3, Alone DEF FilesInv
<1>5. ~Clean(c)'
  BY <1>3 DEF Clean, Recording, NoCommand
<1>6. ASSUME NEW g \in Pids, Held(g)', pidFile = g PROVE Minds(c, g)'
  <2>1. Minds(c, g)
    BY <1>2, <1>6 DEF FilesInv, Named
  <2>. QED BY <1>1, <1>3, <2>1 DEF Minds, NoCommand
<1>. QED BY <1>1, <1>2, <1>3, <1>4, <1>5, <1>6, QuietMove DEF Records

\* A command is interrupted, or its rename raises, and ends.
LEMMA EndStep ==
    ASSUME TypeOK, Shape, FilesInv, NEW c \in Commands,
           Interrupted(c) \/ (ReplacePid(c) /\ pidTmp = None)
    PROVE  FilesInv'
<1>1. /\ UNCHANGED <<fileVars, gatewayVars>> /\ Ends(c) /\ Busy(c)
      /\ stray \subseteq stray'
  BY DEF Interrupted, ReplacePid, Busy, Shape
<1>2. Others(c) /\ command'[c] = NoCommand
  BY <1>1, EndsIs
<1>3. \A g \in Pids : Held(g)' => Held(g)
  BY <1>1 DEF Held, Live
<1>4. ASSUME NEW g \in Pids, Records(c, g) PROVE ~Held(g)'
  <2>1. CASE Interrupted(c)
    BY <1>1, <1>4, <2>1 DEF Interrupted, Held, Live
  <2>2. CASE ReplacePid(c) /\ pidTmp = None
    <3>1. ~Held(g)
      BY <1>4, <2>2
         DEF ReplacePid, FilesInv, FilesKnown, Knows, Clean, Records
    <3>. QED BY <1>3, <3>1
  <2>. QED BY <2>1, <2>2
<1>5. \A d \in Commands \ {c} : ~Clean(d)'
  BY <1>1, <1>2, <1>3, Alone DEF FilesInv
<1>6. ~Clean(c)' /\ \A g \in Pids : Minds(c, g)'
  BY <1>2 DEF Clean, Recording, Minds, NoCommand
<1>. QED BY <1>1, <1>2, <1>3, <1>4, <1>5, <1>6, QuietMove DEF Records

\* A command removes the pid file, when it names no gateway left to itself.
LEMMA UnlinkStep ==
    ASSUME TypeOK, Shape, FilesInv, NEW c \in Commands,
           UnlinkStale(c) \/ UnlinkStopped(c)
    PROVE  FilesInv'
<1>1. /\ UNCHANGED <<gatewayVars, stray>>
      /\ command[c].at \in {"unlink", "unlink_stopped"}
      /\ Busy(c) /\ ~Recording(c)
  BY DEF UnlinkStale, UnlinkStopped, Busy, Shape, Recording
<1>2. \A g \in Pids : ~Held(g) /\ ~Held(g)'
  BY <1>1, NothingHeld DEF Held, Live
<1>3. /\ pidFile' = None /\ Others(c)
      /\ \/ command'[c] = NoCommand
         \/ /\ command'[c].name = command[c].name
            /\ command'[c].at = "spawn"
            /\ command'[c].met = command[c].met
  BY Unlinks DEF UnlinkStale, UnlinkStopped, WhenStopped
<1>4. \A d \in Commands \ {c} : ~Clean(d)'
  BY <1>1, <1>2, <1>3, Alone DEF FilesInv
<1>5. Clean(c)' => Clean(c) /\ Knows(c)'
  BY <1>1, <1>3 DEF Clean, Knows, Recording, NoCommand
<1>6. Clean(c) => \A d \in Commands \ {c} : command'[d].name = "none"
  BY <1>3 DEF FilesInv, Apart, Others, Same
<1>7. Apart' /\ FilesKnown'
  BY <1>4, <1>5, <1>6 DEF Apart, FilesKnown
<1>. QED BY <1>2, <1>7 DEF FilesInv, Owned, Named

\* A start spawns a gateway: it is left to itself if the start was.
LEMMA SpawnStep ==
    ASSUME TypeOK, Shape, FilesInv, NEW c \in Commands, Spawn(c)
    PROVE  FilesInv'
<1>1. PICK g \in Pids :
          /\ gateway[g] = "none"
          /\ gateway' = [gateway EXCEPT ![g] = "loading"]
          /\ command' = [command EXCEPT ![c].at = "open", ![c].pid = g,
                                        ![c].met = FALSE]
          /\ stray' = IF command[c].met THEN stray \cup {g} ELSE stray
  BY DEF Spawn
<1>2. /\ command[c].at = "spawn" /\ command[c].name = "start" /\ Busy(c)
      /\ ~Recording(c) /\ UNCHANGED fileVars
  BY DEF Spawn, Shape, Busy, Recording
<1>3. /\ Others(c) /\ command'[c].at = "open" /\ command'[c].pid = g
  BY <1>1, SpawnIs
<1>4. \A h \in Pids : ~Held(h)
  BY <1>2, NothingHeld
<1>5. \A h \in Pids : Held(h)' => h = g /\ ~command[c].met
  BY <1>1, <1>4 DEF Held, Live, TypeOK
<1>6. Clean(c) <=> ~command[c].met
  BY <1>2 DEF Clean
<1>7. CASE command[c].met
  <2>1. \A h \in Pids : ~Held(h)' /\ (Held(h)' => Held(h))
    BY <1>5, <1>7
  <2>2. \A d \in Commands \ {c} : ~Clean(d)'
    BY <1>2, <1>3, <2>1, Alone DEF FilesInv
  <2>3. ~Clean(c)'
    BY <1>3, <2>1 DEF Clean, Recording, Held, Live
  <2>. QED BY <2>1, <2>2, <2>3, Vacuous
<1>8. CASE ~command[c].met
  <2>1. \A d \in Commands \ {c} :
            command'[d].name = "none" /\ command'[d].at = "none"
    BY <1>3, <1>6, <1>8 DEF FilesInv, Apart, Shape, Others, Same
  <2>2. pidFile = None
    BY <1>2, <1>6, <1>8 DEF FilesInv, FilesKnown, Knows
  <2>3. Apart' /\ FilesKnown'
    BY <1>2, <1>3, <2>1, <2>2 DEF Apart, FilesKnown, Clean, Knows, Recording
  <2>4. Owned' /\ Named'
    BY <1>2, <1>3, <1>5, <2>2 DEF Owned, Named, Records, Recording
  <2>. QED BY <2>3, <2>4 DEF FilesInv
<1>. QED BY <1>7, <1>8

\* A start writes the pid of the gateway it has spawned.
LEMMA RecordStep ==
    ASSUME TypeOK, Shape, FilesInv, NEW c \in Commands,
           OpenTmp(c) \/ WriteTmp(c) \/ (ReplacePid(c) /\ pidTmp # None)
    PROVE  FilesInv'
<1>1. /\ Recording(c) /\ command[c].pid \in Pids /\ Busy(c)
      /\ UNCHANGED <<gatewayVars, stray>>
  BY DEF OpenTmp, WriteTmp, ReplacePid, Recording, Shape, Busy
<1>2. \A g \in Pids : Held(g)' <=> Held(g)
  BY <1>1 DEF Held, Live
<1>3. /\ Others(c)
      /\ \/ /\ command'[c].at \in {"write", "replace"}
            /\ command'[c].pid = command[c].pid
         \/ command'[c] = NoCommand
  BY WritesIs, ReplacesIs DEF OpenTmp, WriteTmp
<1>4. \A d \in Commands \ {c} : ~Clean(d)'
  BY <1>1, <1>2, <1>3, Alone DEF FilesInv
<1>5. CASE ~Held(command[c].pid)
  <2>1. \A g \in Pids : ~Held(g)'
    BY <1>1, <1>2, <1>5, NothingHeld DEF Recording
  <2>2. ~Clean(c)'
    BY <1>1, <1>3, <2>1 DEF Clean, Recording, NoCommand, Held, Live
  <2>. QED BY <1>4, <2>1, <2>2, Vacuous
<1>6. CASE Held(command[c].pid)
  <2>1. Clean(c) /\ Knows(c) /\ pidFile = None
    BY <1>1, <1>6 DEF Clean, FilesInv, FilesKnown, Knows
  <2>2. \A d \in Commands \ {c} :
            /\ command[d].name = "none" /\ command[d].at = "none"
            /\ command'[d].name = "none" /\ command'[d].at = "none"
    BY <1>3, <2>1 DEF FilesInv, Apart, Shape, Others, Same
  <2>3. \A g \in Pids : Held(g)' => g = command[c].pid
    BY <1>2, <2>1, <2>2 DEF FilesInv, Owned, Records, Recording
  <2>4. Apart'
    BY <1>4, <2>2 DEF Apart
  <2>5. CASE OpenTmp(c) \/ WriteTmp(c)
    <3>1. /\ pidFile' = None
          /\ command'[c].pid = command[c].pid
          /\ \/ command'[c].at = "write" /\ command'[c].fd = "tmp"
             \/ command'[c].at = "replace" /\ pidTmp' = command[c].pid
      BY <2>1, <2>5, WritesIs DEF OpenTmp, WriteTmp, Knows
    <3>2. FilesKnown'
      BY <1>4, <3>1 DEF FilesKnown, Knows, Recording
    <3>3. Owned' /\ Named'
      BY <2>3, <3>1 DEF Owned, Named, Records, Recording
    <3>. QED BY <2>4, <3>2, <3>3 DEF FilesInv
  <2>6. CASE ReplacePid(c) /\ pidTmp # None
    <3>1. pidFile' = command[c].pid /\ command'[c] = NoCommand
      BY <2>1, <2>6, ReplacesIs DEF ReplacePid, Knows
    <3>2. FilesKnown'
      BY <1>4, <3>1 DEF FilesKnown, Knows, Recording, NoCommand
    <3>3. Owned' /\ Named'
      BY <2>2, <2>3, <3>1 DEF Owned, Named, Minds, NoCommand
    <3>. QED BY <2>4, <3>2, <3>3 DEF FilesInv
  <2>. QED BY <2>5, <2>6
<1>. QED BY <1>5, <1>6

\* A gateway ends, or goes on, and no command moves.
LEMMA Dwindles ==
    ASSUME Shape, FilesInv, UNCHANGED <<fileVars, command>>,
           \A g \in Pids : Held(g)' => Held(g)
    PROVE  FilesInv'
<1>1. \A c \in Commands : Recording(c) => command[c].pid \in Pids
  BY DEF Shape, Recording
<1>2. \A c \in Commands : Clean(c)' => Clean(c)
  BY <1>1 DEF Clean, Recording
<1>3. \A c \in Commands : Knows(c)' <=> Knows(c)
  BY DEF Knows, Recording
<1>. QED BY <1>2, <1>3 DEF FilesInv, Apart, FilesKnown, Owned, Named, Minds,
                           Records, Recording
-----------------------------------------------------------------------------
\* Every step keeps the types,
LEMMA TypeStep ==
    ASSUME TypeOK, Shape, [Next]_vars
    PROVE  TypeOK'
<1>0. command' \in [Commands -> Forms] =>
          (TypeOK' <=> /\ pidFile' \in Contents
                       /\ pidTmp' \in Contents
                       /\ token' \in BOOLEAN
                       /\ tokenTmp' \in BOOLEAN
                       /\ gateway' \in [Pids -> GatewayStates]
                       /\ thread' \in [Pids -> Threads]
                       /\ job' \in {"none", "QUEUED", "RUNNING", "SUCCEEDED"}
                       /\ runs' \in Nat
                       /\ stray' \in SUBSET Pids
                       /\ crowded' \in BOOLEAN
                       /\ contested' \in BOOLEAN)
  BY DEF TypeOK, Forms
<1>1. command \in [Commands -> Forms]
  BY DEF TypeOK, Forms
<1>2. ASSUME NEW c \in Commands, Command(c)
      PROVE  TypeOK'
  <2>1. command' \in [Commands -> Forms]
    <3>1. CASE \E name \in {"start", "stop"} : Begin(c, name)
      BY <3>1, BeginIs
    <3>2. CASE FindPid(c) \/ ReadPid(c) \/ Probe(c) \/ Poll(c)
      BY <3>2, EndsIs, GoesToIs, TakesIs
         DEF FindPid, ReadPid, Probe, Poll, Continue, WhenStopped, WhenRunning,
             Forgets
    <3>3. CASE UnlinkStale(c) \/ UnlinkStopped(c)
      BY <3>3, Unlinks DEF UnlinkStale, UnlinkStopped, WhenStopped
    <3>4. CASE Spawn(c)
      BY <3>4, SpawnIs DEF Spawn
    <3>5. CASE OpenTmp(c) \/ WriteTmp(c)
      BY <3>5, WritesIs DEF OpenTmp, WriteTmp
    <3>6. CASE ReplacePid(c)
      BY <3>6, EndsIs, ReplacesIs DEF ReplacePid
    <3>7. CASE Kill(c) \/ Interrupted(c)
      BY <3>7, EndsIs, GoesToIs DEF Kill, Interrupted
    <3>. QED BY <1>2, <3>1, <3>2, <3>3, <3>4, <3>5, <3>6, <3>7 DEF Command
  <2>2. pidFile' \in Contents /\ pidTmp' \in Contents
    BY <1>2 DEF Command, Begin, FindPid, ReadPid, Probe, UnlinkStale, Spawn,
                OpenTmp, WriteTmp, ReplacePid, Kill, Poll, UnlinkStopped,
                Interrupted, UnlinkPid, TypeOK, Contents, Shape
  <2>3. /\ gateway' \in [Pids -> GatewayStates]
        /\ thread' \in [Pids -> Threads]
        /\ stray' \in SUBSET Pids /\ crowded' \in BOOLEAN
    <3>1. CASE Spawn(c) \/ Kill(c)
      BY <3>1 DEF Spawn, Kill, Terminated, Dies, Disperses, TypeOK,
                  GatewayStates, Threads
    <3>2. CASE ~(Spawn(c) \/ Kill(c))
      BY <1>2, <3>2
         DEF Command, Begin, FindPid, ReadPid, Probe, UnlinkStale, OpenTmp,
             WriteTmp, ReplacePid, Poll, UnlinkStopped, Interrupted, TypeOK
    <3>. QED BY <3>1, <3>2
  <2>4. UNCHANGED <<tokenVars, jobVars, contested>>
    BY <1>2 DEF Command, Begin, FindPid, ReadPid, Probe, UnlinkStale, Spawn,
                OpenTmp, WriteTmp, ReplacePid, Kill, Poll, UnlinkStopped,
                Interrupted
  <2>. QED BY <1>0, <2>1, <2>2, <2>3, <2>4 DEF TypeOK
<1>3. ASSUME NEW g \in Pids, Gateway(g)
      PROVE  TypeOK'
  <2>1. CASE FindToken(g) \/ WriteToken(g) \/ ReplaceToken(g) \/ HardenToken(g)
             \/ UndoToken(g)
    BY <1>0, <1>1, <2>1
       DEF FindToken, WriteToken, ReplaceToken, HardenToken, UndoToken, Dies,
           Disperses, Becomes, TypeOK, GatewayStates, Threads
  <2>2. CASE StartScheduler(g) \/ Bind(g) \/ Exit(g) \/ Crash(g) \/ Foreign(g)
    BY <1>0, <1>1, <2>2
       DEF StartScheduler, Bind, Exit, Crash, Foreign, Dies, Disperses,
           Becomes, TypeOK, GatewayStates, Threads
  <2>. QED BY <1>3, <2>1, <2>2 DEF Gateway
<1>4. ASSUME NEW g \in Pids, Scheduler(g)
      PROVE  TypeOK'
  <2>1. UNCHANGED <<fileVars, tokenVars, gateway, command, stray, crowded>>
    BY <1>4 DEF Scheduler, Pick, Select, Claim, Run, Finish
  <2>2. /\ thread' \in [Pids -> Threads] /\ runs' \in Nat
        /\ job' \in {"none", "QUEUED", "RUNNING", "SUCCEEDED"}
    BY <1>4
       DEF Scheduler, Pick, Select, Claim, Run, Finish, Goes, Threads, TypeOK
  <2>3. contested' \in BOOLEAN
    BY <1>4 DEF Scheduler, Pick, Select, Claim, Run, Finish, TypeOK
  <2>. QED BY <1>0, <1>1, <2>1, <2>2, <2>3 DEF TypeOK
<1>5. CASE CreateJob \/ UNCHANGED vars
  BY <1>0, <1>1, <1>5 DEF CreateJob, vars, TypeOK
<1>. QED BY <1>2, <1>3, <1>4, <1>5 DEF Next

\* and a command goes from place to place as its function does.
LEMMA ShapeStep ==
    ASSUME TypeOK, Shape, NEW c \in Commands, Command(c)
    PROVE  Shape'
<1>1. /\ Others(c)
      /\ \/ command'[c] = NoCommand
         \/ /\ command'[c].at = "exists"
            /\ command'[c].name \in {"start", "stop"}
         \/ /\ command'[c].name = command[c].name
            /\ command[c].name # "none"
            /\ \/ command'[c].at \in {"read", "unlink"}
               \/ command'[c].at = "probe" /\ command'[c].pid \in Pids
               \/ command'[c].at = "spawn" /\ command[c].name = "start"
               \/ /\ command'[c].at \in {"open", "write", "replace"}
                  /\ command[c].name = "start" /\ command'[c].pid \in Pids
               \/ /\ command'[c].at \in {"kill", "poll"}
                  /\ command[c].name = "stop" /\ command'[c].pid \in Pids
               \/ /\ command'[c].at = "unlink_stopped"
                  /\ command[c].name = "stop"
  <2>1. CASE \E name \in {"start", "stop"} : Begin(c, name)
    BY <2>1, BeginIs
  <2>2. CASE FindPid(c)
    BY <2>2, EndsIs, GoesToIs DEF FindPid, Continue, WhenStopped, Shape
  <2>3. CASE ReadPid(c)
    BY <2>3, TakesIs DEF ReadPid, Forgets, Shape
  <2>4. CASE Probe(c)
    <3>1. command[c].name # "none" /\ command[c].pid \in Pids
      BY <2>4 DEF Probe, Shape
    <3>2. /\ Others(c)
          /\ \/ command'[c] = NoCommand
             \/ /\ command'[c].name = command[c].name
                /\ \/ command'[c].at = "unlink"
                   \/ /\ command'[c].at = "kill" /\ command[c].name = "stop"
                      /\ command'[c].pid = command[c].pid
      BY <2>4, EndsIs, GoesToIs, TakesIs
         DEF Probe, Continue, WhenRunning, Forgets
    <3>. QED BY <3>1, <3>2
  <2>5. CASE UnlinkStale(c) \/ UnlinkStopped(c)
    <3>1. command[c].name # "none"
      BY <2>5 DEF UnlinkStale, UnlinkStopped, Shape
    <3>2. /\ Others(c)
          /\ \/ command'[c] = NoCommand
             \/ /\ command'[c].at = "spawn" /\ command[c].name = "start"
                /\ command'[c].name = command[c].name
      BY <2>5, Unlinks DEF UnlinkStale, UnlinkStopped, WhenStopped
    <3>. QED BY <3>1, <3>2
  <2>6. CASE Spawn(c)
    <3>1. command[c].name = "start"
      BY <2>6 DEF Spawn, Shape
    <3>2. PICK g \in Pids :
              command' = [command EXCEPT ![c].at = "open", ![c].pid = g,
                                         ![c].met = FALSE]
      BY <2>6 DEF Spawn
    <3>3. /\ Others(c) /\ command'[c].name = command[c].name
          /\ command'[c].at = "open" /\ command'[c].pid = g
      BY <3>2, SpawnIs
    <3>. QED BY <3>1, <3>3
  <2>7. CASE OpenTmp(c) \/ WriteTmp(c)
    <3>1. command[c].name = "start" /\ command[c].pid \in Pids
      BY <2>7 DEF OpenTmp, WriteTmp, Shape
    <3>2. /\ Others(c) /\ command'[c].name = command[c].name
          /\ command'[c].pid = command[c].pid
          /\ command'[c].at \in {"write", "replace"}
      BY <2>7, WritesIs DEF OpenTmp, WriteTmp
    <3>. QED BY <3>1, <3>2
  <2>8. CASE ReplacePid(c)
    BY <2>8, EndsIs, ReplacesIs DEF ReplacePid
  <2>9. CASE Kill(c)
    BY <2>9, EndsIs, GoesToIs DEF Kill, Shape
  <2>10. CASE Poll(c)
    BY <2>10, EndsIs, TakesIs DEF Poll, Forgets, Shape
  <2>11. CASE Interrupted(c)
    BY <2>11, EndsIs DEF Interrupted
  <2>. QED BY <2>1, <2>2, <2>3, <2>4, <2>5, <2>6, <2>7, <2>8, <2>9, <2>10,
              <2>11 DEF Command
<1>. QED BY <1>1 DEF Shape, NoCommand, Others, Same

\* The scheduler and the life of a gateway, and the job, leave the commands and
\* their files alone.
LEMMA OtherStep ==
    ASSUME TypeOK, Shape, FilesInv,
           \/ \E g \in Pids : Gateway(g) \/ Scheduler(g)
           \/ CreateJob \/ UNCHANGED vars
    PROVE  Shape' /\ FilesInv'
<1>1. UNCHANGED <<fileVars, command>>
  BY DEF Gateway, FindToken, WriteToken, ReplaceToken, HardenToken, UndoToken,
         StartScheduler, Bind, Exit, Crash, Foreign, Scheduler, Pick, Select,
         Claim, Run, Finish, CreateJob, vars
<1>2. \A h \in Pids : Held(h)' => Held(h)
  <2>1. CASE \E g \in Pids : Gateway(g)
    BY <2>1 DEF Gateway, FindToken, WriteToken, ReplaceToken, HardenToken,
                UndoToken, StartScheduler, Bind, Exit, Crash, Foreign, Dies,
                Becomes, Held, Live, TypeOK
  <2>2. CASE (\E g \in Pids : Scheduler(g)) \/ CreateJob \/ UNCHANGED vars
    BY <2>2 DEF Scheduler, Pick, Select, Claim, Run, Finish, CreateJob, vars,
                Held, Live
  <2>. QED BY <2>1, <2>2
<1>. QED BY <1>1, <1>2, Dwindles DEF Shape

\* A crowd that is gone when g is done has left the token file, or nobody.
LEMMA Dispersed ==
    ASSUME TypeOK, NEW g \in Pids, Disperses(g), crowded, ~crowded',
           \A h \in Pids \ {g} : gateway'[h] = gateway[h],
           \/ gateway'[g] = "none"
           \/ gateway'[g] = "starting" /\ token'
    PROVE  OneMaker' /\ HasToken'
<1>1. \A h \in Pids \ {g} : ~Live(h) \/ (token' /\ ~Making(h))
  BY DEF Disperses
<1>2. \A h \in Pids : ~Making(h)'
  BY <1>1 DEF Live, Making
<1>3. HasToken'
  BY <1>1 DEF Live, HasToken
<1>. QED BY <1>2, <1>3 DEF OneMaker

\* Every step keeps what is known of the files.
LEMMA FilesStep ==
    ASSUME TypeOK, Shape, FilesInv, [Next]_vars
    PROVE  Shape' /\ FilesInv'
<1>1. ASSUME NEW c \in Commands, Command(c) PROVE Shape' /\ FilesInv'
  BY <1>1, ShapeStep, BeginStep, LookStep, KillStep, EndStep, UnlinkStep,
     SpawnStep, RecordStep DEF Command
<1>. QED BY <1>1, OtherStep DEF Next
-----------------------------------------------------------------------------
\* When a gateway ends, the others keep their token, and the token files have
\* been left alone since then if it was the last.
LEMMA TokenDies ==
    ASSUME TypeOK, TokenInv, NEW g \in Pids, Dies(g),
           token' # token => Making(g)
    PROVE  TokenInv'
<1>1. /\ gateway'[g] = "none"
      /\ \A h \in Pids \ {g} : gateway'[h] = gateway[h]
  BY DEF Dies, TypeOK
<1>2. CASE crowded
  <2>1. SUFFICES ASSUME ~crowded' PROVE OneMaker' /\ HasToken'
    BY DEF TokenInv
  <2>. QED BY <1>1, <1>2, <2>1, Dispersed DEF Dies
<1>3. CASE ~crowded
  <2>1. OneMaker /\ HasToken
    BY <1>3 DEF TokenInv
  <2>2. OneMaker'
    BY <1>1, <2>1 DEF OneMaker, Making
  <2>3. HasToken'
    <3>1. CASE Making(g)
      BY <1>1, <2>1, <3>1 DEF OneMaker, HasToken
    <3>2. CASE token' = token
      BY <1>1, <2>1, <3>2 DEF HasToken
    <3>. QED BY <3>1, <3>2
  <2>. QED BY <2>2, <2>3 DEF TokenInv
<1>. QED BY <1>2, <1>3

\* A gateway in its start, one step on.
LEMMA TokenStep ==
    ASSUME TypeOK, TokenInv, [Next]_vars, Shape
    PROVE  TokenInv'
<1>1. ASSUME NEW c \in Commands, Command(c) PROVE TokenInv'
  <2>1. token' = token
    BY <1>1 DEF Command, Begin, FindPid, ReadPid, Probe, UnlinkStale, Spawn,
                OpenTmp, WriteTmp, ReplacePid, Kill, Poll, UnlinkStopped,
                Interrupted
  <2>2. CASE Spawn(c)
    <3>1. PICK g \in Pids : gateway' = [gateway EXCEPT ![g] = "loading"]
      BY <2>2 DEF Spawn
    <3>. QED BY <2>1, <2>2, <3>1
             DEF Spawn, TypeOK, TokenInv, OneMaker, HasToken, Making
  <2>3. CASE Kill(c)
    <3>1. command[c].pid \in Pids
      BY <2>3 DEF Kill, Shape
    <3>2. CASE Dies(command[c].pid)
      BY <2>1, <3>1, <3>2, TokenDies
    <3>3. CASE ~Dies(command[c].pid)
      BY <2>1, <2>3, <3>1, <3>3
         DEF Kill, Terminated, TypeOK, TokenInv, OneMaker, HasToken, Making
    <3>. QED BY <3>2, <3>3
  <2>4. CASE ~Spawn(c) /\ ~Kill(c)
    <3>1. UNCHANGED <<gateway, crowded>>
      BY <1>1, <2>4
         DEF Command, Begin, FindPid, ReadPid, Probe, UnlinkStale, OpenTmp,
             WriteTmp, ReplacePid, Poll, UnlinkStopped, Interrupted
    <3>. QED BY <2>1, <3>1 DEF TokenInv, OneMaker, HasToken, Making
  <2>. QED BY <2>2, <2>3, <2>4
<1>2. ASSUME NEW g \in Pids, Gateway(g) PROVE TokenInv'
  <2>1. CASE FindToken(g)
    BY <2>1 DEF FindToken, Becomes, TypeOK, TokenInv, OneMaker,
             HasToken, Making
  <2>2. CASE WriteToken(g)
    BY <2>2 DEF WriteToken, Becomes, TypeOK, TokenInv, OneMaker,
             HasToken, Making
  <2>3. CASE ReplaceToken(g)
    BY <2>3 DEF ReplaceToken, Becomes, TypeOK, TokenInv, OneMaker,
             HasToken, Making
  <2>4. CASE HardenToken(g)
    <3>1. CASE crowded /\ ~crowded'
      <4>1. /\ gateway' = [gateway EXCEPT ![g] = "starting"]
            /\ token' /\ Disperses(g)
        BY <2>4, <3>1 DEF HardenToken, Becomes
      <4>. QED BY <3>1, <4>1, Dispersed DEF TokenInv, TypeOK
    <3>2. CASE ~crowded \/ crowded'
      BY <2>4, <3>2 DEF HardenToken, Becomes, Disperses, TypeOK, TokenInv,
                        OneMaker, HasToken, Making
    <3>. QED BY <3>1, <3>2
  <2>5. CASE UndoToken(g) \/ Exit(g) \/ Crash(g)
    <3>1. Dies(g) /\ (token' # token => Making(g))
      BY <2>5 DEF UndoToken, Exit, Crash, Making
    <3>. QED BY <3>1, TokenDies
  <2>6. CASE StartScheduler(g) \/ Bind(g) \/ Foreign(g)
    BY <2>6 DEF StartScheduler, Bind, Foreign, Becomes, TypeOK, TokenInv,
                OneMaker, HasToken, Making
  <2>. QED BY <1>2, <2>1, <2>2, <2>3, <2>4, <2>5, <2>6 DEF Gateway
<1>3. CASE (\E g \in Pids : Scheduler(g)) \/ CreateJob \/ UNCHANGED vars
  BY <1>3 DEF Scheduler, Pick, Select, Claim, Run, Finish, CreateJob, vars,
              TokenInv, OneMaker, HasToken, Making
<1>. QED BY <1>1, <1>2, <1>3 DEF Next

\* The one scheduler that has the job in hand, one step on.
LEMMA JobStep ==
    ASSUME TypeOK, Shape, JobInv, [Next]_vars
    PROVE  JobInv'
<1>0. contested => contested'
  <2>1. ASSUME NEW c \in Commands, Command(c) PROVE contested' = contested
    BY <2>1 DEF Command, Begin, FindPid, ReadPid, Probe, UnlinkStale, Spawn,
                OpenTmp, WriteTmp, ReplacePid, Kill, Poll, UnlinkStopped,
                Interrupted
  <2>2. ASSUME NEW g \in Pids, Gateway(g) PROVE contested' = contested
    BY <2>2 DEF Gateway, FindToken, WriteToken, ReplaceToken, HardenToken,
                UndoToken, StartScheduler, Bind, Exit, Crash, Foreign
  <2>3. ASSUME NEW g \in Pids, Scheduler(g) PROVE contested => contested'
    BY <2>3 DEF Scheduler, Pick, Select, Claim, Run, Finish
  <2>4. CASE CreateJob \/ UNCHANGED vars
    BY <2>4 DEF CreateJob, vars
  <2>. QED BY <2>1, <2>2, <2>3, <2>4 DEF Next
<1>. SUFFICES ASSUME ~contested, ~contested' PROVE OneHand' /\ JobHeld'
  BY <1>0 DEF JobInv
<1>1. OneHand /\ JobHeld
  BY DEF JobInv
<1>2. ASSUME UNCHANGED jobVars,
             \A g \in Pids : thread'[g] \in {thread[g], "none", "idle"}
      PROVE  OneHand' /\ JobHeld'
  BY <1>1, <1>2 DEF OneHand, JobHeld, InHand
<1>3. ASSUME NEW c \in Commands, Command(c) PROVE OneHand' /\ JobHeld'
  <2>1. UNCHANGED jobVars
    BY <1>3 DEF Command, Begin, FindPid, ReadPid, Probe, UnlinkStale, Spawn,
                OpenTmp, WriteTmp, ReplacePid, Kill, Poll, UnlinkStopped,
                Interrupted
  <2>2. CASE Kill(c)
    <3>1. \A g \in Pids : thread'[g] \in {thread[g], "none"}
      BY <2>2 DEF Kill, Terminated, Dies, TypeOK
    <3>. QED BY <1>2, <2>1, <3>1
  <2>3. CASE ~Kill(c)
    <3>1. thread' = thread
      BY <1>3, <2>3
         DEF Command, Begin, FindPid, ReadPid, Probe, UnlinkStale, Spawn,
             OpenTmp, WriteTmp, ReplacePid, Poll, UnlinkStopped, Interrupted
    <3>. QED BY <1>2, <2>1, <3>1
  <2>. QED BY <2>2, <2>3
<1>4. ASSUME NEW g \in Pids, Gateway(g) PROVE OneHand' /\ JobHeld'
  <2>1. /\ UNCHANGED jobVars
        /\ \A h \in Pids : thread'[h] \in {thread[h], "none", "idle"}
    BY <1>4 DEF Gateway, FindToken, WriteToken, ReplaceToken, HardenToken,
                UndoToken, StartScheduler, Bind, Exit, Crash, Foreign, Dies,
                TypeOK
  <2>. QED BY <1>2, <2>1
<1>5. ASSUME NEW g \in Pids, Pick(g) PROVE OneHand' /\ JobHeld'
  <2>1. \A h \in Pids : ~InHand(h)
    BY <1>5 DEF Pick
  <2>. QED BY <1>1, <1>5, <2>1
           DEF Pick, Goes, OneHand, JobHeld, InHand, TypeOK
<1>6. ASSUME NEW g \in Pids, Select(g) \/ Claim(g) \/ Run(g) \/ Finish(g)
      PROVE  OneHand' /\ JobHeld'
  <2>1. InHand(g) /\ \A h \in Pids \ {g} : ~InHand(h) /\ thread'[h] = thread[h]
    BY <1>1, <1>6 DEF Select, Claim, Run, Finish, Goes, InHand, OneHand, TypeOK
  <2>2. OneHand'
    BY <2>1 DEF OneHand, InHand
  <2>3. JobHeld'
    BY <1>1, <1>6, <2>1
       DEF Select, Claim, Run, Finish, Goes, InHand, JobHeld, TypeOK
  <2>. QED BY <2>2, <2>3
<1>7. CASE CreateJob \/ UNCHANGED vars
  BY <1>1, <1>7 DEF CreateJob, vars, OneHand, JobHeld, InHand
<1>. QED BY <1>3, <1>4, <1>5, <1>6, <1>7 DEF Next, Scheduler

\* Every step keeps the invariant.
LEMMA Inductive == IInv /\ [Next]_vars => IInv'
  BY TypeStep, FilesStep, TokenStep, JobStep DEF IInv

\* The invariant holds in every state that is reached.
LEMMA Invariant == Spec => []IInv
  BY InitInv, Inductive, PTL DEF Spec
-----------------------------------------------------------------------------
\* The two files, the gateways, their threads and the commands keep their types,
\* for any number of commands and of process ids.
THEOREM TypeCorrect == Spec => []TypeOK
  BY Invariant, PTL DEF IInv

\* A gateway whose start neither met another command nor was interrupted is
\* named by the pid file, or by its start, which is about to write it, as long
\* as it runs, whatever is started, stopped or interrupted after it.
THEOREM GatewayOwned == Spec => []OneOwner
<1>1. IInv => OneOwner
  BY DEF IInv, FilesInv, Owned, Held, Records, OneOwner
<1>. QED BY <1>1, Invariant, PTL

\* When a stop reports that the gateway has ended, the gateways that still run
\* are those whose start met another command or was interrupted.
THEOREM StopLeavesStray == Spec => []StopEnds
<1>1. IInv => StopEnds
  <2>. SUFFICES ASSUME IInv, NEW c \in Commands,
                       command[c].at = "unlink_stopped"
                PROVE  \A g \in Pids : ~Held(g)
    BY DEF StopEnds, Held
  <2>1. ~Recording(c)
    BY DEF Recording
  <2>. QED BY <2>1, NothingHeld DEF IInv
<1>. QED BY <1>1, Invariant, PTL

\* A gateway that serves has its token file, although one that cannot protect
\* the file removes it, if no gateway came to it while another was making it.
THEOREM TokenStays == Spec => []TokenThere
<1>1. IInv => TokenThere
  BY DEF IInv, TokenInv, HasToken, TokenThere
<1>. QED BY <1>1, Invariant, PTL

\* The schedulers of all gateways run the job at most once if none picks it
\* while another has it in hand, wherever a gateway was killed between claim and
\* result.
THEOREM JobAtMostOnce == Spec => []JobRunOnce
<1>1. IInv => JobRunOnce
  BY DEF IInv, JobInv, JobHeld, JobRunOnce
<1>. QED BY <1>1, Invariant, PTL
=============================================================================
