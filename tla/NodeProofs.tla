---------------------------- MODULE NodeProofs ----------------------------
(***************************************************************************)
(* Proofs about Node, for any number of processes on one socket path, of   *)
(* clients and of requests.                                                *)
(***************************************************************************)
EXTENDS Node, TLAPS

\* The stages before a process has its socket, and the ones in AddHandler.
Before == {"off"} \cup Securing
Registering == {"core", "admin", "multicastHandlers", "tunHandlers"}

\* What a process has at each stage of main().
StageInv ==
    \A p \in Procs :
        /\ pc[p] \in Before => listening[p] = "none"
        /\ pc[p] \in Registering \cup {"chmod"} => listening[p] = "open"
        /\ listening[p] = "closed" => pc[p] = "stopping"
        /\ p \in serving => pc[p] \notin Before \cup {"chmod"}
        /\ p \in writing <=> pc[p] \in Registering

\* The handlers that are registered at each stage.
TableInv ==
    \A p \in Procs : listening[p] # "none" =>
        /\ pc[p] # "chmod" => "list" \in handlers[p]
        /\ pc[p] \notin {"chmod", "core"} => "core" \in handlers[p]
        /\ pc[p] \notin {"chmod", "core", "admin"} => "admin" \in handlers[p]
        /\ pc[p] \in {"tun", "tunHandlers", "chuser", "ready", "stopping"} =>
             "multicast" \in handlers[p]
        /\ pc[p] \in {"chuser", "ready", "stopping"} => "tun" \in handlers[p]

\* The file of a process is one that it has bound and not yet unlinked.
FileInv ==
    \A p \in Procs : file = p => pc[p] \notin Before

\* Without an excuse, nobody else looks after the file, and the one who is
\* about to remove it has made sure that nobody serves it.
OneStarter ==
    ~excused =>
        /\ \A p, q \in Procs : pc[p] \in Securing /\ pc[q] \in Securing => p = q
        /\ \A p, q \in Procs : pc[p] = "remove" /\ pc[q] \in Running => ~HasAdmin(q)

\* A client that connected to a process that was ready finds it so.
SettledInv ==
    \A c \in settled : conn[c] # None =>
        pc[conn[c]] \in {"ready", "stopping"} /\ listening[conn[c]] # "none"

\* What a client has at each stage of its exchange.
ClientInv ==
    \A c \in Clients :
        /\ cpc[c] = "idle" => asked[c] = None /\ answer[c] = None /\ code[c] = None
        /\ cpc[c] \in {"waiting", "open"} \/ conn[c] # None => asked[c] # None
        /\ cpc[c] \in {"idle", "done"} => conn[c] = None
        /\ cpc[c] = "open" => asked[c].keep
        /\ code[c] # None => cpc[c] = "done"
        /\ cpc[c] = "waiting" /\ answer[c] # None /\ conn[c] # None => asked[c].keep

IndInv ==
    /\ NTypeOK
    /\ StageInv /\ TableInv /\ FileInv /\ OneStarter /\ Reachable
    /\ SettledInv /\ ClientInv /\ CodesAgree

\* The initial state satisfies the invariant.
LEMMA InitInv == Init => IndInv
<1> SUFFICES ASSUME Init PROVE IndInv
  OBVIOUS
<1>1. NTypeOK
  BY AdminAssumption DEF Init, AInit, NTypeOK, ATypeOK, Stages, Securing
<1>2. StageInv
  BY AdminAssumption DEF Init, AInit, StageInv, Before, Registering, Securing
<1>3. TableInv
  BY AdminAssumption DEF Init, AInit, TableInv
<1>4. FileInv
  BY AdminAssumption DEF Init, AInit, FileInv, Before, Securing
<1>5. OneStarter
  BY AdminAssumption DEF Init, AInit, OneStarter, Running, Stages, Securing, HasAdmin
<1>6. Reachable
  BY AdminAssumption DEF Init, AInit, Reachable, Running, Stages, Securing, HasAdmin
<1>7. SettledInv
  BY AdminAssumption DEF Init, AInit, SettledInv
<1>8. ClientInv
  BY AdminAssumption DEF Init, AInit, ClientInv
<1>9. CodesAgree
  BY AdminAssumption DEF Init, AInit, CodesAgree
<1> QED BY <1>1, <1>2, <1>3, <1>4, <1>5, <1>6, <1>7, <1>8, <1>9 DEF IndInv

\* Connections end or stay.
LEMMA LoseEffect ==
    ASSUME NTypeOK, NEW p \in Procs, NEW lost, Lose(p, lost)
    PROVE  /\ conn' \in [Clients -> Procs \cup {None}]
           /\ srv' \in [Clients -> {"none", "backlog", "read", "lookup", "handle"}]
           /\ \A c \in Clients : \/ conn'[c] = conn[c] /\ srv'[c] = srv[c]
                                 \/ conn'[c] = None /\ srv'[c] = "none"
           /\ UNCHANGED <<cpc, asked, answer, code>>
           /\ lost = {"backlog", "read", "lookup", "handle"} => \A c \in Clients : conn'[c] # p
<1> DEFINE gone == {c \in Clients : conn[c] = p /\ srv[c] \in lost}
<1>1. /\ conn' = [c \in Clients |-> IF c \in gone THEN None ELSE conn[c]]
      /\ srv' = [c \in Clients |-> IF c \in gone THEN "none" ELSE srv[c]]
      /\ UNCHANGED <<cpc, asked, answer, code>>
  BY DEF Lose
<1>2. /\ conn \in [Clients -> Procs \cup {None}]
      /\ srv \in [Clients -> {"none", "backlog", "read", "lookup", "handle"}]
      /\ \A c \in Clients : srv[c] = "none" <=> conn[c] = None
  BY DEF NTypeOK, ATypeOK
<1>3. lost = {"backlog", "read", "lookup", "handle"} =>
        \A c \in Clients : conn[c] = p => c \in gone
  BY <1>2, AdminAssumption
<1>4. \A c \in gone : conn'[c] = None /\ srv'[c] = "none"
  BY <1>1
<1>5. \A c \in Clients \ gone : conn'[c] = conn[c] /\ srv'[c] = srv[c]
  BY <1>1
<1>6. \A c \in Clients : c \in gone \/ c \in Clients \ gone
  OBVIOUS
<1>7. /\ conn' \in [Clients -> Procs \cup {None}]
      /\ srv' \in [Clients -> {"none", "backlog", "read", "lookup", "handle"}]
  BY <1>1, <1>2
<1> HIDE DEF gone
<1>8. \A c \in Clients : \/ conn'[c] = conn[c] /\ srv'[c] = srv[c]
                         \/ conn'[c] = None /\ srv'[c] = "none"
  BY <1>4, <1>5, <1>6
<1>9. lost = {"backlog", "read", "lookup", "handle"} => \A c \in Clients : conn'[c] # p
  BY <1>3, <1>4, <1>5, <1>6, AdminAssumption
<1> QED BY <1>1, <1>7, <1>8, <1>9

\* A process that ends, in whichever way, takes nothing from the others.
LEMMA ExitsInv ==
    ASSUME IndInv, NEW p \in Procs, Exits(p)
    PROVE  IndInv'
<1>0. /\ conn' \in [Clients -> Procs \cup {None}]
      /\ srv' \in [Clients -> {"none", "backlog", "read", "lookup", "handle"}]
      /\ \A c \in Clients : \/ conn'[c] = conn[c] /\ srv'[c] = srv[c]
                            \/ conn'[c] = None /\ srv'[c] = "none"
      /\ UNCHANGED <<cpc, asked, answer, code>>
      /\ \A c \in Clients : conn'[c] # p
  BY LoseEffect DEF IndInv, Exits, ProcessGone
<1> USE AdminAssumption DEF IndInv, NTypeOK, ATypeOK, Exits, ProcessGone, Goto
<1>1. NTypeOK'
  BY <1>0 DEF Stages, Securing, StageInv, Before, Registering, Groups
<1>2. StageInv'
  BY <1>0 DEF Stages, Securing, StageInv, Before, Registering
<1>3. TableInv'
  BY <1>0 DEF Stages, Securing, StageInv, Before, Registering, TableInv
<1>4. FileInv'
  BY <1>0 DEF Stages, Securing, StageInv, Before, Registering, FileInv
<1>5. OneStarter'
  BY <1>0 DEF Stages, Securing, StageInv, Before, Registering, OneStarter, Running, HasAdmin, Reachable
<1>6. Reachable'
  BY <1>0 DEF Stages, Securing, StageInv, Before, Registering, OneStarter, Running, HasAdmin, Reachable
<1>7. SettledInv'
  BY <1>0 DEF Securing, StageInv, Before, Registering, SettledInv
<1>8. ClientInv'
  BY <1>0 DEF Securing, ClientInv
<1>9. CodesAgree'
  BY <1>0 DEF Securing, ClientInv, CodesAgree
<1> QED BY <1>1, <1>2, <1>3, <1>4, <1>5, <1>6, <1>7, <1>8, <1>9

\* A process starts to look after the socket file.
LEMMA StartInv ==
    ASSUME IndInv, NEW p \in Procs, Start(p)
    PROVE  IndInv'
<1> USE AdminAssumption DEF IndInv, NTypeOK, ATypeOK, Start, From, Goto,
        adminVars, procVars, connVars
<1>1. NTypeOK'
  BY DEF Stages, Securing, StageInv, Before, Registering, Groups
<1>2. StageInv'
  BY DEF Stages, Securing, StageInv, Before, Registering
<1>3. TableInv'
  BY DEF Stages, Securing, StageInv, Before, Registering, TableInv
<1>4. FileInv'
  BY DEF Stages, Securing, StageInv, Before, Registering, FileInv
<1>5. OneStarter'
  <2> SUFFICES ASSUME ~excused' PROVE OneStarter'
    BY DEF OneStarter
  <2>1. ~excused /\ \A q \in Procs : pc[q] \notin Securing
    OBVIOUS
  <2>2. pc[p] = "off" /\ pc'[p] = "stat" /\ \A q \in Procs : q # p => pc'[q] = pc[q]
    OBVIOUS
  <2>3. \A q \in Procs : pc'[q] \in Securing => q = p
    BY <2>1, <2>2
  <2>4. \A q \in Procs : pc'[q] # "remove"
    BY <2>1, <2>2 DEF Securing
  <2> QED BY <2>3, <2>4 DEF OneStarter
<1>6. Reachable'
  BY DEF Stages, Securing, StageInv, Before, Registering, OneStarter, Running, HasAdmin, Reachable
<1>7. SettledInv'
  BY DEF Securing, StageInv, Before, Registering, SettledInv
<1>8. ClientInv'
  BY DEF Securing, ClientInv
<1>9. CodesAgree'
  BY DEF Securing, ClientInv, CodesAgree
<1> QED BY <1>1, <1>2, <1>3, <1>4, <1>5, <1>6, <1>7, <1>8, <1>9

\* A process without an admin socket.
LEMMA StartWithoutAdminInv ==
    ASSUME IndInv, NEW p \in Procs, StartWithoutAdmin(p)
    PROVE  IndInv'
<1> USE AdminAssumption DEF IndInv, NTypeOK, ATypeOK, StartWithoutAdmin, From, Goto, NoChange,
        adminVars, procVars, connVars
<1>1. NTypeOK'
  BY DEF Stages, Securing, StageInv, Before, Registering, Groups
<1>2. StageInv'
  BY DEF Stages, Securing, StageInv, Before, Registering
<1>3. TableInv'
  BY DEF Stages, Securing, StageInv, Before, Registering, TableInv
<1>4. FileInv'
  BY DEF Stages, Securing, StageInv, Before, Registering, FileInv
<1>5. OneStarter'
  BY DEF Stages, Securing, StageInv, Before, Registering, OneStarter, Running, HasAdmin, Reachable
<1>6. Reachable'
  BY DEF Stages, Securing, StageInv, Before, Registering, OneStarter, Running, HasAdmin, Reachable
<1>7. SettledInv'
  BY DEF Securing, StageInv, Before, Registering, SettledInv
<1>8. ClientInv'
  BY DEF Securing, ClientInv
<1>9. CodesAgree'
  BY DEF Securing, ClientInv, CodesAgree
<1> QED BY <1>1, <1>2, <1>3, <1>4, <1>5, <1>6, <1>7, <1>8, <1>9

\* os.Stat of the socket file.
LEMMA StatInv ==
    ASSUME IndInv, NEW p \in Procs, Stat(p)
    PROVE  IndInv'
<1> USE AdminAssumption DEF IndInv, NTypeOK, ATypeOK, Stat, From, Goto, NoChange,
        adminVars, procVars, connVars
<1>1. NTypeOK'
  BY DEF Stages, Securing, StageInv, Before, Registering, Groups
<1>2. StageInv'
  BY DEF Stages, Securing, StageInv, Before, Registering
<1>3. TableInv'
  BY DEF Stages, Securing, StageInv, Before, Registering, TableInv
<1>4. FileInv'
  BY DEF Stages, Securing, StageInv, Before, Registering, FileInv
<1>5. OneStarter'
  BY DEF Stages, Securing, StageInv, Before, Registering, OneStarter, Running, HasAdmin, Reachable
<1>6. Reachable'
  BY DEF Stages, Securing, StageInv, Before, Registering, OneStarter, Running, HasAdmin, Reachable
<1>7. SettledInv'
  BY DEF Securing, StageInv, Before, Registering, SettledInv
<1>8. ClientInv'
  BY DEF Securing, ClientInv
<1>9. CodesAgree'
  BY DEF Securing, ClientInv, CodesAgree
<1> QED BY <1>1, <1>2, <1>3, <1>4, <1>5, <1>6, <1>7, <1>8, <1>9

\* A process that finds the file in use leaves; one that does not may remove it.
LEMMA DialInv ==
    ASSUME IndInv, NEW p \in Procs, Dial(p)
    PROVE  IndInv'
<1> SUFFICES ASSUME ~Exits(p) PROVE IndInv'
  BY ExitsInv
<1>0. ~InUse \/ excused'
  BY DEF Dial
<1> USE AdminAssumption DEF IndInv, NTypeOK, ATypeOK, Dial, InUse, Goto, NoChange,
        adminVars, procVars, connVars
<1>1. NTypeOK'
  <2>1. excused' \in BOOLEAN
    OBVIOUS
  <2>2. pc' \in [Procs -> Stages]
    BY DEF Stages, Securing
  <2> QED BY <2>1, <2>2
<1>2. StageInv'
  BY <1>0 DEF Stages, Securing, StageInv, Before, Registering
<1>3. TableInv'
  BY <1>0 DEF Stages, Securing, StageInv, Before, Registering, TableInv
<1>4. FileInv'
  BY <1>0 DEF Stages, Securing, StageInv, Before, Registering, FileInv
<1>5. OneStarter'
  BY <1>0 DEF Stages, Securing, StageInv, Before, Registering, OneStarter, Running, HasAdmin, Reachable
<1>6. Reachable'
  BY <1>0 DEF Stages, Securing, StageInv, Before, Registering, OneStarter, Running, HasAdmin, Reachable
<1>7. SettledInv'
  BY <1>0 DEF Securing, StageInv, Before, Registering, SettledInv
<1>8. ClientInv'
  BY <1>0 DEF Securing, ClientInv
<1>9. CodesAgree'
  BY <1>0 DEF Securing, ClientInv, CodesAgree
<1> QED BY <1>1, <1>2, <1>3, <1>4, <1>5, <1>6, <1>7, <1>8, <1>9

\* Only a file that nobody serves is removed, unless there is an excuse.
LEMMA RemoveInv ==
    ASSUME IndInv, NEW p \in Procs, Remove(p)
    PROVE  IndInv'
<1> SUFFICES ASSUME ~Exits(p) PROVE IndInv'
  BY ExitsInv
<1>0. file # None
  BY DEF Remove
<1> USE AdminAssumption DEF IndInv, NTypeOK, ATypeOK, Remove, Goto,
        adminVars, procVars, connVars
<1>1. NTypeOK'
  BY <1>0 DEF Stages, Securing, StageInv, Before, Registering, Groups
<1>2. StageInv'
  BY <1>0 DEF Stages, Securing, StageInv, Before, Registering
<1>3. TableInv'
  BY <1>0 DEF Stages, Securing, StageInv, Before, Registering, TableInv
<1>4. FileInv'
  BY <1>0 DEF Stages, Securing, StageInv, Before, Registering, FileInv
<1>5. OneStarter'
  BY <1>0 DEF Stages, Securing, StageInv, Before, Registering, OneStarter, Running, HasAdmin, Reachable
<1>6. Reachable'
  BY <1>0 DEF Stages, Securing, StageInv, Before, Registering, OneStarter, Running, HasAdmin, Reachable
<1>7. SettledInv'
  BY <1>0 DEF Securing, StageInv, Before, Registering, SettledInv
<1>8. ClientInv'
  BY <1>0 DEF Securing, ClientInv
<1>9. CodesAgree'
  BY <1>0 DEF Securing, ClientInv, CodesAgree
<1> QED BY <1>1, <1>2, <1>3, <1>4, <1>5, <1>6, <1>7, <1>8, <1>9

\* A new socket takes the place of no other.
LEMMA ListenOkInv ==
    ASSUME IndInv, NEW p \in Procs, ListenOk(p)
    PROVE  IndInv'
<1> USE AdminAssumption DEF IndInv, NTypeOK, ATypeOK, ListenOk, Listen, From, Goto,
        adminVars, procVars, connVars
<1>1. NTypeOK'
  BY DEF Stages, Securing, StageInv, Before, Registering, Groups
<1>2. StageInv'
  BY DEF Stages, Securing, StageInv, Before, Registering
<1>3. TableInv'
  BY DEF Stages, Securing, StageInv, Before, Registering, TableInv
<1>4. FileInv'
  BY DEF Stages, Securing, StageInv, Before, Registering, FileInv
<1>5. OneStarter'
  BY DEF Stages, Securing, StageInv, Before, Registering, OneStarter, Running, HasAdmin, Reachable
<1>6. Reachable'
  BY DEF Stages, Securing, StageInv, Before, Registering, OneStarter, Running, HasAdmin, Reachable
<1>7. SettledInv'
  BY DEF Securing, StageInv, Before, Registering, SettledInv
<1>8. ClientInv'
  BY DEF Securing, ClientInv
<1>9. CodesAgree'
  BY DEF Securing, ClientInv, CodesAgree
<1> QED BY <1>1, <1>2, <1>3, <1>4, <1>5, <1>6, <1>7, <1>8, <1>9

\* The socket is chmoded, then served.
LEMMA ChmodOkInv ==
    ASSUME IndInv, NEW p \in Procs, ChmodOk(p)
    PROVE  IndInv'
<1> USE AdminAssumption DEF IndInv, NTypeOK, ATypeOK, ChmodOk, SecureUnixSocket, From, Goto,
        adminVars, procVars, connVars
<1>1. NTypeOK'
  BY DEF Stages, Securing, StageInv, Before, Registering, Groups
<1>2. StageInv'
  BY DEF Stages, Securing, StageInv, Before, Registering
<1>3. TableInv'
  BY DEF Stages, Securing, StageInv, Before, Registering, TableInv
<1>4. FileInv'
  BY DEF Stages, Securing, StageInv, Before, Registering, FileInv
<1>5. OneStarter'
  BY DEF Stages, Securing, StageInv, Before, Registering, OneStarter, Running, HasAdmin, Reachable
<1>6. Reachable'
  BY DEF Stages, Securing, StageInv, Before, Registering, OneStarter, Running, HasAdmin, Reachable
<1>7. SettledInv'
  BY DEF Securing, StageInv, Before, Registering, SettledInv
<1>8. ClientInv'
  BY DEF Securing, ClientInv
<1>9. CodesAgree'
  BY DEF Securing, ClientInv, CodesAgree
<1> QED BY <1>1, <1>2, <1>3, <1>4, <1>5, <1>6, <1>7, <1>8, <1>9

\* The file that is unlinked is the process's own, unless starts overlap.
LEMMA ChmodFailsInv ==
    ASSUME IndInv, NEW p \in Procs, ChmodFails(p)
    PROVE  IndInv'
<1>0. /\ conn' \in [Clients -> Procs \cup {None}]
      /\ srv' \in [Clients -> {"none", "backlog", "read", "lookup", "handle"}]
      /\ \A c \in Clients : \/ conn'[c] = conn[c] /\ srv'[c] = srv[c]
                            \/ conn'[c] = None /\ srv'[c] = "none"
      /\ UNCHANGED <<cpc, asked, answer, code>>
  BY LoseEffect DEF IndInv, ChmodFails
<1> USE AdminAssumption DEF IndInv, NTypeOK, ATypeOK, ChmodFails, Goto
<1>1. NTypeOK'
  BY <1>0 DEF Stages, Securing, StageInv, Before, Registering, Groups
<1>2. StageInv'
  BY <1>0 DEF Stages, Securing, StageInv, Before, Registering
<1>3. TableInv'
  BY <1>0 DEF Stages, Securing, StageInv, Before, Registering, TableInv
<1>4. FileInv'
  BY <1>0 DEF Stages, Securing, StageInv, Before, Registering, FileInv
<1>5. OneStarter'
  BY <1>0 DEF Stages, Securing, StageInv, Before, Registering, OneStarter, Running, HasAdmin, Reachable
<1>6. Reachable'
  BY <1>0 DEF Stages, Securing, StageInv, Before, Registering, OneStarter, Running, HasAdmin, Reachable
<1>7. SettledInv'
  BY <1>0 DEF Securing, StageInv, Before, Registering, SettledInv
<1>8. ClientInv'
  BY <1>0 DEF Securing, ClientInv
<1>9. CodesAgree'
  BY <1>0 DEF Securing, ClientInv, CodesAgree
<1> QED BY <1>1, <1>2, <1>3, <1>4, <1>5, <1>6, <1>7, <1>8, <1>9

\* SetAdmin.
LEMMA RegisterCoreInv ==
    ASSUME IndInv, NEW p \in Procs, RegisterCore(p)
    PROVE  IndInv'
<1> USE AdminAssumption DEF IndInv, NTypeOK, ATypeOK, RegisterCore, Registers, From, Goto,
        adminVars, procVars, connVars
<1>1. NTypeOK'
  BY DEF Stages, Securing, StageInv, Before, Registering, Groups
<1>2. StageInv'
  BY DEF Stages, Securing, StageInv, Before, Registering
<1>3. TableInv'
  BY DEF Stages, Securing, StageInv, Before, Registering, TableInv
<1>4. FileInv'
  BY DEF Stages, Securing, StageInv, Before, Registering, FileInv
<1>5. OneStarter'
  BY DEF Stages, Securing, StageInv, Before, Registering, OneStarter, Running, HasAdmin, Reachable
<1>6. Reachable'
  BY DEF Stages, Securing, StageInv, Before, Registering, OneStarter, Running, HasAdmin, Reachable
<1>7. SettledInv'
  BY DEF Securing, StageInv, Before, Registering, SettledInv
<1>8. ClientInv'
  BY DEF Securing, ClientInv
<1>9. CodesAgree'
  BY DEF Securing, ClientInv, CodesAgree
<1> QED BY <1>1, <1>2, <1>3, <1>4, <1>5, <1>6, <1>7, <1>8, <1>9

\* SetupAdminHandlers of the admin socket.
LEMMA RegisterAdminInv ==
    ASSUME IndInv, NEW p \in Procs, RegisterAdmin(p)
    PROVE  IndInv'
<1> USE AdminAssumption DEF IndInv, NTypeOK, ATypeOK, RegisterAdmin, Registers, From, Goto,
        adminVars, procVars, connVars
<1>1. NTypeOK'
  BY DEF Stages, Securing, StageInv, Before, Registering, Groups
<1>2. StageInv'
  BY DEF Stages, Securing, StageInv, Before, Registering
<1>3. TableInv'
  BY DEF Stages, Securing, StageInv, Before, Registering, TableInv
<1>4. FileInv'
  BY DEF Stages, Securing, StageInv, Before, Registering, FileInv
<1>5. OneStarter'
  BY DEF Stages, Securing, StageInv, Before, Registering, OneStarter, Running, HasAdmin, Reachable
<1>6. Reachable'
  BY DEF Stages, Securing, StageInv, Before, Registering, OneStarter, Running, HasAdmin, Reachable
<1>7. SettledInv'
  BY DEF Securing, StageInv, Before, Registering, SettledInv
<1>8. ClientInv'
  BY DEF Securing, ClientInv
<1>9. CodesAgree'
  BY DEF Securing, ClientInv, CodesAgree
<1> QED BY <1>1, <1>2, <1>3, <1>4, <1>5, <1>6, <1>7, <1>8, <1>9

\* Multicast starts.
LEMMA MulticastOkInv ==
    ASSUME IndInv, NEW p \in Procs, MulticastOk(p)
    PROVE  IndInv'
<1> USE AdminAssumption DEF IndInv, NTypeOK, ATypeOK, MulticastOk, BeginsHandlers, HasAdmin, From, Goto,
        adminVars, procVars, connVars
<1>1. NTypeOK'
  BY DEF Stages, Securing, StageInv, Before, Registering, Groups
<1>2. StageInv'
  BY DEF Stages, Securing, StageInv, Before, Registering
<1>3. TableInv'
  BY DEF Stages, Securing, StageInv, Before, Registering, TableInv
<1>4. FileInv'
  BY DEF Stages, Securing, StageInv, Before, Registering, FileInv
<1>5. OneStarter'
  BY DEF Stages, Securing, StageInv, Before, Registering, OneStarter, Running, HasAdmin, Reachable
<1>6. Reachable'
  BY DEF Stages, Securing, StageInv, Before, Registering, OneStarter, Running, HasAdmin, Reachable
<1>7. SettledInv'
  BY DEF Securing, StageInv, Before, Registering, SettledInv
<1>8. ClientInv'
  BY DEF Securing, ClientInv
<1>9. CodesAgree'
  BY DEF Securing, ClientInv, CodesAgree
<1> QED BY <1>1, <1>2, <1>3, <1>4, <1>5, <1>6, <1>7, <1>8, <1>9

\* SetupAdminHandlers of multicast.
LEMMA RegisterMulticastInv ==
    ASSUME IndInv, NEW p \in Procs, RegisterMulticast(p)
    PROVE  IndInv'
<1> USE AdminAssumption DEF IndInv, NTypeOK, ATypeOK, RegisterMulticast, Registers, From, Goto,
        adminVars, procVars, connVars
<1>1. NTypeOK'
  BY DEF Stages, Securing, StageInv, Before, Registering, Groups
<1>2. StageInv'
  BY DEF Stages, Securing, StageInv, Before, Registering
<1>3. TableInv'
  BY DEF Stages, Securing, StageInv, Before, Registering, TableInv
<1>4. FileInv'
  BY DEF Stages, Securing, StageInv, Before, Registering, FileInv
<1>5. OneStarter'
  BY DEF Stages, Securing, StageInv, Before, Registering, OneStarter, Running, HasAdmin, Reachable
<1>6. Reachable'
  BY DEF Stages, Securing, StageInv, Before, Registering, OneStarter, Running, HasAdmin, Reachable
<1>7. SettledInv'
  BY DEF Securing, StageInv, Before, Registering, SettledInv
<1>8. ClientInv'
  BY DEF Securing, ClientInv
<1>9. CodesAgree'
  BY DEF Securing, ClientInv, CodesAgree
<1> QED BY <1>1, <1>2, <1>3, <1>4, <1>5, <1>6, <1>7, <1>8, <1>9

\* The TUN adapter starts.
LEMMA TunOkInv ==
    ASSUME IndInv, NEW p \in Procs, TunOk(p)
    PROVE  IndInv'
<1> USE AdminAssumption DEF IndInv, NTypeOK, ATypeOK, TunOk, BeginsHandlers, HasAdmin, From, Goto,
        adminVars, procVars, connVars
<1>1. NTypeOK'
  BY DEF Stages, Securing, StageInv, Before, Registering, Groups
<1>2. StageInv'
  BY DEF Stages, Securing, StageInv, Before, Registering
<1>3. TableInv'
  BY DEF Stages, Securing, StageInv, Before, Registering, TableInv
<1>4. FileInv'
  BY DEF Stages, Securing, StageInv, Before, Registering, FileInv
<1>5. OneStarter'
  BY DEF Stages, Securing, StageInv, Before, Registering, OneStarter, Running, HasAdmin, Reachable
<1>6. Reachable'
  BY DEF Stages, Securing, StageInv, Before, Registering, OneStarter, Running, HasAdmin, Reachable
<1>7. SettledInv'
  BY DEF Securing, StageInv, Before, Registering, SettledInv
<1>8. ClientInv'
  BY DEF Securing, ClientInv
<1>9. CodesAgree'
  BY DEF Securing, ClientInv, CodesAgree
<1> QED BY <1>1, <1>2, <1>3, <1>4, <1>5, <1>6, <1>7, <1>8, <1>9

\* SetupAdminHandlers of the TUN adapter.
LEMMA RegisterTunInv ==
    ASSUME IndInv, NEW p \in Procs, RegisterTun(p)
    PROVE  IndInv'
<1> USE AdminAssumption DEF IndInv, NTypeOK, ATypeOK, RegisterTun, Registers, From, Goto,
        adminVars, procVars, connVars
<1>1. NTypeOK'
  BY DEF Stages, Securing, StageInv, Before, Registering, Groups
<1>2. StageInv'
  BY DEF Stages, Securing, StageInv, Before, Registering
<1>3. TableInv'
  BY DEF Stages, Securing, StageInv, Before, Registering, TableInv
<1>4. FileInv'
  BY DEF Stages, Securing, StageInv, Before, Registering, FileInv
<1>5. OneStarter'
  BY DEF Stages, Securing, StageInv, Before, Registering, OneStarter, Running, HasAdmin, Reachable
<1>6. Reachable'
  BY DEF Stages, Securing, StageInv, Before, Registering, OneStarter, Running, HasAdmin, Reachable
<1>7. SettledInv'
  BY DEF Securing, StageInv, Before, Registering, SettledInv
<1>8. ClientInv'
  BY DEF Securing, ClientInv
<1>9. CodesAgree'
  BY DEF Securing, ClientInv, CodesAgree
<1> QED BY <1>1, <1>2, <1>3, <1>4, <1>5, <1>6, <1>7, <1>8, <1>9

\* Privileges are dropped.
LEMMA ChuserOkInv ==
    ASSUME IndInv, NEW p \in Procs, ChuserOk(p)
    PROVE  IndInv'
<1> USE AdminAssumption DEF IndInv, NTypeOK, ATypeOK, ChuserOk, From, Goto, NoChange,
        adminVars, procVars, connVars
<1>1. NTypeOK'
  BY DEF Stages, Securing, StageInv, Before, Registering, Groups
<1>2. StageInv'
  BY DEF Stages, Securing, StageInv, Before, Registering
<1>3. TableInv'
  BY DEF Stages, Securing, StageInv, Before, Registering, TableInv
<1>4. FileInv'
  BY DEF Stages, Securing, StageInv, Before, Registering, FileInv
<1>5. OneStarter'
  BY DEF Stages, Securing, StageInv, Before, Registering, OneStarter, Running, HasAdmin, Reachable
<1>6. Reachable'
  BY DEF Stages, Securing, StageInv, Before, Registering, OneStarter, Running, HasAdmin, Reachable
<1>7. SettledInv'
  BY DEF Securing, StageInv, Before, Registering, SettledInv
<1>8. ClientInv'
  BY DEF Securing, ClientInv
<1>9. CodesAgree'
  BY DEF Securing, ClientInv, CodesAgree
<1> QED BY <1>1, <1>2, <1>3, <1>4, <1>5, <1>6, <1>7, <1>8, <1>9

\* The file that Stop unlinks is the process's own, unless starts overlap.
LEMMA StopAdminInv ==
    ASSUME IndInv, NEW p \in Procs, StopAdmin(p)
    PROVE  IndInv'
<1>0. /\ conn' \in [Clients -> Procs \cup {None}]
      /\ srv' \in [Clients -> {"none", "backlog", "read", "lookup", "handle"}]
      /\ \A c \in Clients : \/ conn'[c] = conn[c] /\ srv'[c] = srv[c]
                            \/ conn'[c] = None /\ srv'[c] = "none"
      /\ UNCHANGED <<cpc, asked, answer, code>>
  <2>1. CASE HasAdmin(p)
    BY <2>1, LoseEffect DEF IndInv, StopAdmin, CloseListener
  <2>2. CASE ~HasAdmin(p)
    <3>1. UNCHANGED connVars
      BY <2>2 DEF StopAdmin
    <3> QED BY <3>1 DEF IndInv, NTypeOK, ATypeOK, connVars
  <2> QED BY <2>1, <2>2
<1> USE AdminAssumption DEF IndInv, NTypeOK, ATypeOK, StopAdmin, CloseListener, HasAdmin, From, Goto
<1>1. NTypeOK'
  BY <1>0 DEF Stages, Securing, StageInv, Before, Registering, Groups
<1>2. StageInv'
  BY <1>0 DEF Stages, Securing, StageInv, Before, Registering
<1>3. TableInv'
  BY <1>0 DEF Stages, Securing, StageInv, Before, Registering, TableInv
<1>4. FileInv'
  BY <1>0 DEF Stages, Securing, StageInv, Before, Registering, FileInv
<1>5. OneStarter'
  BY <1>0 DEF Stages, Securing, StageInv, Before, Registering, OneStarter, Running, HasAdmin, Reachable
<1>6. Reachable'
  BY <1>0 DEF Stages, Securing, StageInv, Before, Registering, OneStarter, Running, HasAdmin, Reachable
<1>7. SettledInv'
  BY <1>0 DEF Securing, StageInv, Before, Registering, SettledInv
<1>8. ClientInv'
  BY <1>0 DEF Securing, ClientInv
<1>9. CodesAgree'
  BY <1>0 DEF Securing, ClientInv, CodesAgree
<1> QED BY <1>1, <1>2, <1>3, <1>4, <1>5, <1>6, <1>7, <1>8, <1>9

\* The invariants of processes are none of a client's business.
LEMMA ProcessStays ==
    ASSUME IndInv, UNCHANGED <<file, listening, handlers, writing, pc, excused>>,
           serving' \subseteq serving
    PROVE  StageInv' /\ TableInv' /\ FileInv' /\ OneStarter' /\ Reachable'
<1> USE DEF IndInv
<1>1. StageInv'
  BY DEF StageInv
<1>2. TableInv'
  BY DEF TableInv
<1>3. FileInv'
  BY DEF FileInv
<1>4. OneStarter'
  BY DEF OneStarter, HasAdmin
<1>5. Reachable'
  BY DEF Reachable, HasAdmin
<1> QED BY <1>1, <1>2, <1>3, <1>4, <1>5

\* A client connects to the process that the file leads to, if one listens.
LEMMA ClientConnectsInv ==
    ASSUME IndInv, NEW c \in Clients, ClientConnects(c),
           UNCHANGED <<pc, excused>>
    PROVE  IndInv'
<1> USE AdminAssumption DEF IndInv, NTypeOK, ATypeOK, ClientConnects, Connect, InUse,
        procVars
<1>1. StageInv' /\ TableInv' /\ FileInv' /\ OneStarter' /\ Reachable'
  BY ProcessStays
<1>2. NTypeOK'
  <2>1. PICK r \in Requests : Connect(c, r)
    OBVIOUS
  <2>2. settled' \in SUBSET Clients
    OBVIOUS
  <2>3. CASE /\ InUse /\ UNCHANGED code
             /\ conn' = [conn EXCEPT ![c] = file] /\ srv' = [srv EXCEPT ![c] = "backlog"]
             /\ asked' = [asked EXCEPT ![c] = r]
    <3>1. cpc' \in [Clients -> {"idle", "waiting", "open", "gone", "done"}]
      BY <2>1
    <3>2. asked' \in [Clients -> Requests \cup {None}] /\ code' = code
      BY <2>3
    <3>3. /\ conn' \in [Clients -> Procs \cup {None}]
          /\ srv' \in [Clients -> {"none", "backlog", "read", "lookup", "handle"}]
          /\ \A d \in Clients : srv'[d] = "none" <=> conn'[d] = None
      BY <2>3
    <3> QED BY <2>1, <2>2, <3>1, <3>2, <3>3
  <2>4. CASE UNCHANGED <<conn, srv, asked>>
    BY <2>1, <2>2, <2>4
  <2> QED BY <2>1, <2>3, <2>4
<1>3. SettledInv'
  BY DEF SettledInv
<1>4. ClientInv'
  BY DEF ClientInv
<1>5. CodesAgree'
  BY DEF ClientInv, CodesAgree
<1> QED BY <1>1, <1>2, <1>3, <1>4, <1>5

\* An answer arrives; what uqdactl exits with says which.
LEMMA ReceiveInv ==
    ASSUME IndInv, NEW c \in Clients, Receive(c), UNCHANGED settled,
           UNCHANGED <<pc, excused>>
    PROVE  IndInv'
<1> USE AdminAssumption DEF IndInv, NTypeOK, ATypeOK, Receive, ExitCode,
        procVars
<1>1. StageInv' /\ TableInv' /\ FileInv' /\ OneStarter' /\ Reachable'
  BY ProcessStays
<1>2. NTypeOK'
  BY DEF ClientInv
<1>3. SettledInv'
  BY DEF SettledInv
<1>4. ClientInv'
  BY DEF ClientInv
<1>5. CodesAgree'
  <2>1. UNCHANGED <<answer, asked>> /\ \A d \in Clients : d # c => code'[d] = code[d]
    OBVIOUS
  <2>2. answer[c] \in Answers /\ (code'[c] = code[c] \/ code'[c] = ExitCode(answer[c]))
    OBVIOUS
  <2>3. \/ code'[c] = code[c]
        \/ code'[c] = 1 /\ answer[c] \in {"error", "failure"}
        \/ code'[c] = 2 /\ answer[c] = "warning"
        \/ code'[c] = 0 /\ answer[c] = "success"
    BY <2>2 DEF Answers
  <2> HIDE DEF Receive, ExitCode, NTypeOK, ATypeOK
  <2>4. ASSUME NEW d \in Clients
        PROVE  /\ code'[d] = 2 => answer[d] = "warning"
               /\ code'[d] = 1 => answer[d] \in {"error", "failure"} \/ asked[d] = None
               /\ code'[d] = 0 => answer[d] \in {"success", None}
    BY <2>1, <2>3 DEF CodesAgree
  <2> QED BY <2>1, <2>4 DEF CodesAgree
<1> QED BY <1>1, <1>2, <1>3, <1>4, <1>5

\* The connection ends without an answer.
LEMMA ReceiveEOFInv ==
    ASSUME IndInv, NEW c \in Clients, ReceiveEOF(c), UNCHANGED settled,
           UNCHANGED <<pc, excused>>
    PROVE  IndInv'
<1> USE AdminAssumption DEF IndInv, NTypeOK, ATypeOK, ReceiveEOF,
        procVars
<1>1. StageInv' /\ TableInv' /\ FileInv' /\ OneStarter' /\ Reachable'
  BY ProcessStays
<1>2. NTypeOK'
  BY DEF ClientInv
<1>3. SettledInv'
  BY DEF SettledInv
<1>4. ClientInv'
  BY DEF ClientInv
<1>5. CodesAgree'
  BY DEF ClientInv, CodesAgree
<1> QED BY <1>1, <1>2, <1>3, <1>4, <1>5

\* The next request on a connection.
LEMMA AskAgainInv ==
    ASSUME IndInv, NEW c \in Clients, NEW r \in Requests, AskAgain(c, r), UNCHANGED settled,
           UNCHANGED <<pc, excused>>
    PROVE  IndInv'
<1> USE AdminAssumption DEF IndInv, NTypeOK, ATypeOK, AskAgain,
        procVars
<1>1. StageInv' /\ TableInv' /\ FileInv' /\ OneStarter' /\ Reachable'
  BY ProcessStays
<1>2. NTypeOK'
  BY DEF ClientInv
<1>3. SettledInv'
  BY DEF SettledInv
<1>4. ClientInv'
  BY DEF ClientInv
<1>5. CodesAgree'
  BY DEF ClientInv, CodesAgree
<1> QED BY <1>1, <1>2, <1>3, <1>4, <1>5

\* A client leaves.
LEMMA HangupInv ==
    ASSUME IndInv, NEW c \in Clients, Hangup(c), UNCHANGED settled,
           UNCHANGED <<pc, excused>>
    PROVE  IndInv'
<1> USE AdminAssumption DEF IndInv, NTypeOK, ATypeOK, Hangup,
        procVars
<1>1. StageInv' /\ TableInv' /\ FileInv' /\ OneStarter' /\ Reachable'
  BY ProcessStays
<1>2. NTypeOK'
  BY DEF ClientInv
<1>3. SettledInv'
  BY DEF SettledInv
<1>4. ClientInv'
  BY DEF ClientInv
<1>5. CodesAgree'
  BY DEF ClientInv, CodesAgree
<1> QED BY <1>1, <1>2, <1>3, <1>4, <1>5

\* The next client.
LEMMA NextClientInv ==
    ASSUME IndInv, NEW c \in Clients, NextClient(c), UNCHANGED settled,
           UNCHANGED <<pc, excused>>
    PROVE  IndInv'
<1> USE AdminAssumption DEF IndInv, NTypeOK, ATypeOK, NextClient,
        procVars
<1>1. StageInv' /\ TableInv' /\ FileInv' /\ OneStarter' /\ Reachable'
  BY ProcessStays
<1>2. NTypeOK'
  BY DEF ClientInv
<1>3. SettledInv'
  BY DEF SettledInv
<1>4. ClientInv'
  BY DEF ClientInv
<1>5. CodesAgree'
  BY DEF ClientInv, CodesAgree
<1> QED BY <1>1, <1>2, <1>3, <1>4, <1>5

\* A connection is accepted.
LEMMA AcceptInv ==
    ASSUME IndInv, NEW c \in Clients, Accept(c), UNCHANGED settled,
           UNCHANGED <<pc, excused>>
    PROVE  IndInv'
<1> USE AdminAssumption DEF IndInv, NTypeOK, ATypeOK, Accept,
        procVars
<1>1. StageInv' /\ TableInv' /\ FileInv' /\ OneStarter' /\ Reachable'
  BY ProcessStays
<1>2. NTypeOK'
  BY DEF ClientInv
<1>3. SettledInv'
  BY DEF SettledInv
<1>4. ClientInv'
  BY DEF ClientInv
<1>5. CodesAgree'
  BY DEF ClientInv, CodesAgree
<1> QED BY <1>1, <1>2, <1>3, <1>4, <1>5

\* An answer is sent; the connection is closed unless it is to be kept.
LEMMA ReplyInv ==
    ASSUME IndInv, NEW c \in Clients, NEW a \in Answers, srv[c] # "none", Reply(c, a), UNCHANGED settled,
           UNCHANGED <<pc, excused>>
    PROVE  IndInv'
<1> USE AdminAssumption DEF IndInv, NTypeOK, ATypeOK, Reply,
        procVars
<1>1. StageInv' /\ TableInv' /\ FileInv' /\ OneStarter' /\ Reachable'
  BY ProcessStays
<1>2. NTypeOK'
  BY DEF ClientInv
<1>3. SettledInv'
  BY DEF SettledInv
<1>4. ClientInv'
  BY DEF ClientInv
<1>5. CodesAgree'
  BY DEF ClientInv, CodesAgree
<1> QED BY <1>1, <1>2, <1>3, <1>4, <1>5

\* The server notices that the client has gone.
LEMMA ReadEndInv ==
    ASSUME IndInv, NEW c \in Clients, ReadEnd(c), UNCHANGED settled,
           UNCHANGED <<pc, excused>>
    PROVE  IndInv'
<1> USE AdminAssumption DEF IndInv, NTypeOK, ATypeOK, ReadEnd,
        procVars
<1>1. StageInv' /\ TableInv' /\ FileInv' /\ OneStarter' /\ Reachable'
  BY ProcessStays
<1>2. NTypeOK'
  BY DEF ClientInv
<1>3. SettledInv'
  BY DEF SettledInv
<1>4. ClientInv'
  BY DEF ClientInv
<1>5. CodesAgree'
  BY DEF ClientInv, CodesAgree
<1> QED BY <1>1, <1>2, <1>3, <1>4, <1>5

\* The goroutine of a connection goes on.
LEMMA AdvanceInv ==
    ASSUME IndInv, NEW c \in Clients, NEW l \in {"lookup", "handle"}, srv[c] # "none",
           srv' = [srv EXCEPT ![c] = l],
           UNCHANGED <<file, procVars, cpc, conn, asked, answer, code, settled>>,
           UNCHANGED <<pc, excused>>
    PROVE  IndInv'
<1> USE AdminAssumption DEF IndInv, NTypeOK, ATypeOK,
        procVars
<1>1. StageInv' /\ TableInv' /\ FileInv' /\ OneStarter' /\ Reachable'
  BY ProcessStays
<1>2. NTypeOK'
  BY DEF ClientInv
<1>3. SettledInv'
  BY DEF SettledInv
<1>4. ClientInv'
  BY DEF ClientInv
<1>5. CodesAgree'
  BY DEF ClientInv, CodesAgree
<1> QED BY <1>1, <1>2, <1>3, <1>4, <1>5

\* A step of a client or of the goroutine of its connection.
LEMMA ConnectionInv ==
    ASSUME IndInv, NEW c \in Clients, UNCHANGED <<pc, excused>>,
           ClientConnects(c) \/ ClientGoesOn(c) \/ ClientChoice(c) \/ Serve(c)
    PROVE  IndInv'
<1>1. CASE ClientConnects(c)
  BY <1>1, ClientConnectsInv
<1>2. CASE ClientGoesOn(c)
  BY <1>2, ReceiveInv, ReceiveEOFInv DEF ClientGoesOn
<1>3. CASE ClientChoice(c)
  BY <1>3, AskAgainInv, HangupInv, NextClientInv DEF ClientChoice
<1>4. CASE Serve(c)
  <2>0. UNCHANGED settled
    BY <1>4 DEF Serve
  <2>1. CASE Accept(c)
    BY <2>0, <2>1, AcceptInv
  <2>2. CASE ReadEnd(c)
    BY <2>0, <2>2, ReadEndInv
  <2>3. CASE ReadRequest(c)
    <3>1. CASE Reply(c, "error")
      BY <2>0, <2>3, <3>1, ReplyInv DEF ReadRequest, Answers
    <3>2. CASE srv' = [srv EXCEPT ![c] = "lookup"]
               /\ UNCHANGED <<file, procVars, cpc, conn, asked, answer, code>>
      BY <2>0, <2>3, <3>2, AdvanceInv DEF ReadRequest
    <3> QED BY <2>3, <3>1, <3>2 DEF ReadRequest
  <2>4. CASE Lookup(c)
    <3>1. CASE Reply(c, "error")
      BY <2>0, <2>4, <3>1, ReplyInv DEF Lookup, Answers
    <3>2. CASE srv' = [srv EXCEPT ![c] = "handle"]
               /\ UNCHANGED <<file, procVars, cpc, conn, asked, answer, code>>
      BY <2>0, <2>4, <3>2, AdvanceInv DEF Lookup
    <3> QED BY <2>4, <3>1, <3>2 DEF Lookup
  <2>5. ASSUME NEW a \in Answers, Handle(c, a) PROVE IndInv'
    BY <2>0, <2>5, ReplyInv DEF Handle
  <2> QED BY <1>4, <2>1, <2>2, <2>3, <2>4, <2>5 DEF Serve
<1> QED BY <1>1, <1>2, <1>3, <1>4

\* The accept loop passes over an error, or ends.
LEMMA AcceptErrorInv ==
    ASSUME IndInv, NEW p \in Procs, AcceptError(p), UNCHANGED <<pc, excused, settled>>
    PROVE  IndInv'
<1>0. /\ serving' \subseteq serving
      /\ UNCHANGED <<file, listening, handlers, writing, connVars>>
  BY DEF AcceptError
<1>1. StageInv' /\ TableInv' /\ FileInv' /\ OneStarter' /\ Reachable'
  BY <1>0, ProcessStays
<1>2. NTypeOK'
  BY <1>0 DEF IndInv, NTypeOK, ATypeOK, connVars
<1>3. SettledInv' /\ ClientInv' /\ CodesAgree'
  BY <1>0 DEF IndInv, SettledInv, ClientInv, CodesAgree, connVars
<1> QED BY <1>1, <1>2, <1>3 DEF IndInv

\* Every step keeps the invariant.
LEMMA NextInv == IndInv /\ [Next]_vars => IndInv'
<1> SUFFICES ASSUME IndInv, [Next]_vars PROVE IndInv'
  OBVIOUS
<1>1. ASSUME NEW p \in Procs, Main(p) PROVE IndInv'
  <2>1. CASE Exits(p)
    BY <2>1, ExitsInv
  <2>2. CASE Stat(p) \/ Dial(p) \/ Remove(p) \/ ListenOk(p) \/ ChmodOk(p) \/ ChmodFails(p)
    BY <2>2, StatInv, DialInv, RemoveInv, ListenOkInv, ChmodOkInv, ChmodFailsInv
  <2>3. CASE RegisterCore(p) \/ RegisterAdmin(p) \/ MulticastOk(p) \/ RegisterMulticast(p)
               \/ TunOk(p) \/ RegisterTun(p) \/ ChuserOk(p)
    BY <2>3, RegisterCoreInv, RegisterAdminInv, MulticastOkInv, RegisterMulticastInv,
       TunOkInv, RegisterTunInv, ChuserOkInv
  <2> QED BY <1>1, <2>1, <2>2, <2>3 DEF Main, ListenFails, ModuleFails, ChuserFails, StopRest
<1>2. ASSUME NEW p \in Procs, Environment(p) PROVE IndInv'
  <2>1. CASE Exits(p)
    BY <2>1, ExitsInv
  <2>2. CASE Start(p) \/ StartWithoutAdmin(p) \/ StopAdmin(p)
    BY <2>2, StartInv, StartWithoutAdminInv, StopAdminInv
  <2> QED BY <1>2, <2>1, <2>2 DEF Environment, Kill, Fault
<1>3. CASE UNCHANGED vars
  <2>1. UNCHANGED <<file, listening, handlers, writing, serving, connVars, pc, excused, settled>>
    BY <1>3 DEF vars, adminVars, procVars
  <2>2. StageInv' /\ TableInv' /\ FileInv' /\ OneStarter' /\ Reachable'
    BY <2>1, ProcessStays
  <2>3. NTypeOK'
    BY <2>1 DEF IndInv, NTypeOK, ATypeOK, connVars
  <2>4. SettledInv' /\ ClientInv' /\ CodesAgree'
    BY <2>1 DEF IndInv, SettledInv, ClientInv, CodesAgree, connVars
  <2> QED BY <2>2, <2>3, <2>4 DEF IndInv
<1> QED BY <1>1, <1>2, <1>3, AcceptErrorInv, ConnectionInv DEF Next

\* The invariant is inductive: it holds of every reachable state.
THEOREM Inductive == Spec => []IndInv
<1>1. Init => IndInv
  BY InitInv
<1>2. IndInv /\ [Next]_vars => IndInv'
  BY NextInv
<1> QED BY <1>1, <1>2, PTL DEF Spec

\* The variables keep their types; only a process with a socket serves it or adds
\* handlers.
THEOREM TypeCorrect == Spec => []NTypeOK
<1>1. IndInv => NTypeOK
  BY DEF IndInv
<1> QED BY Inductive, <1>1, PTL

\* However many daemons are started, stopped and killed on one path, one that runs is
\* the one its socket file leads to, unless two starts overlapped or one was refused by
\* a socket that it may not open.
THEOREM ServersAreReachable == Spec => []Reachable
<1>1. IndInv => Reachable
  BY DEF IndInv
<1> QED BY Inductive, <1>1, PTL

\* A client of a process that was ready finds every handler and a quiet table.
THEOREM ReadyMeansSettled == Spec => []Settled
<1>1. IndInv => Settled
  <2> SUFFICES ASSUME IndInv, NEW c \in settled, conn[c] # None
               PROVE  /\ conn[c] \notin writing
                      /\ srv[c] = "lookup" /\ asked[c].name \notin {"unknown", "malformed"} =>
                           GroupOf(asked[c].name) \in handlers[conn[c]]
    BY DEF Settled
  <2>1. c \in Clients /\ conn[c] \in Procs /\ asked[c] \in Requests
    BY AdminAssumption DEF IndInv, NTypeOK, ATypeOK, ClientInv
  <2>2. pc[conn[c]] \in {"ready", "stopping"} /\ listening[conn[c]] # "none"
    BY DEF IndInv, SettledInv
  <2>3. conn[c] \notin writing
    BY <2>1, <2>2 DEF IndInv, StageInv, Registering
  <2>4. Groups \subseteq handlers[conn[c]]
    BY <2>1, <2>2 DEF IndInv, TableInv, Groups
  <2>5. asked[c].name \in Names
    BY <2>1, AdminAssumption
  <2>6. asked[c].name \notin {"unknown", "malformed"} => GroupOf(asked[c].name) \in Groups
    BY <2>5 DEF Names, GroupOf, Groups
  <2> QED BY <2>3, <2>4, <2>6
<1> QED BY Inductive, <1>1, PTL

\* The exit code of uqdactl tells how its request went.
THEOREM ExitCodesAgree == Spec => []CodesAgree
<1>1. IndInv => CodesAgree
  BY DEF IndInv
<1> QED BY Inductive, <1>1, PTL
=============================================================================
