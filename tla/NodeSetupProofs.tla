--------------------------- MODULE NodeSetupProofs ---------------------------
(***************************************************************************)
(* For any callers, addresses and numbers of calls and mishaps: what the   *)
(* unlocked rewriting of pg_hba.conf keeps, and short of which races.      *)
(***************************************************************************)
EXTENDS NodeSetup, TLAPS

\* The addresses are none of the file's other entries; the writers differ.
LEMMA Basics ==
  /\ Auth \in {"trust", "scram"} /\ MaxCalls \in Nat /\ MaxEvents \in Nat
  /\ \A a \in Addrs : a \notin {Down, "none", "name", "garbled"}
  /\ Cli \in Writers /\ Monitor \in Writers /\ Cli # Monitor
  /\ Empty \in Files /\ Initdb \in Files
  /\ Empty.base = FALSE /\ Empty.repl = "none" /\ Empty.app = "none"
  /\ Initdb.base = TRUE /\ Initdb.repl = "none" /\ Initdb.app = "none"
BY SetupAssumption DEF Writers, Cli, Monitor, Empty, Initdb, Files

\* Two files with the same three parts are the same file.
LEMMA SameFile ==
  ASSUME NEW f \in Files, NEW g \in Files, f.base = g.base, f.repl = g.repl, f.app = g.app
  PROVE  f = g
BY DEF Files

\* What an upsert makes of a file: its own line, the other parts as they were.
LEMMA UpsertedParts ==
  ASSUME NEW f \in Files, NEW w \in Writers, w # Cli => want[w] \in Addrs
  PROVE  /\ Upserted(f, w) \in Files /\ Upserted(f, w).base = f.base
         /\ w = Cli => Upserted(f, w).repl = f.repl /\ Upserted(f, w).app = "scram"
         /\ w # Cli => Upserted(f, w).repl = want[w] /\ Upserted(f, w).app = f.app
BY DEF Upserted, Files

LEMMA JunkParts ==
  ASSUME NEW f \in Files, NEW w \in Writers
  PROVE  /\ Junk(f, w) \in Files
         /\ Junk(f, w).app = IF w = Cli THEN "garbled" ELSE f.app
BY DEF Junk, Files

\* What a write leaves.
LEMMA WriteLeaves ==
  ASSUME TypeOK, UpsertKnows, NEW w \in Writers, Write(w)
  PROVE  /\ file' \in Files
         /\ file'.app \in {seen[w].app, file.app, "scram", "garbled"}
         /\ w = Cli => file'.app \in {"scram", "garbled"}
         /\ ~raced => file' = Upserted(seen[w], w)
<1> DEFINE new == Upserted(seen[w], w)
<1>1. seen[w] \in Files /\ file \in Files /\ (w # Cli => want[w] \in Addrs) /\ pc[w] = "write"
  BY DEF TypeOK, UpsertKnows, Write
<1>2. new \in Files /\ new.app \in {seen[w].app, "scram"} /\ (w = Cli => new.app = "scram")
  BY <1>1, UpsertedParts
<1>3. file' \in {new, Junk(new, w), Junk(file, w)}
  BY DEF Write, Written
<1>4. ~raced => file' = new
  BY <1>1 DEF Write, Written, UpsertKnows
<1> HIDE DEF new
<1>5. /\ Junk(new, w) \in Files /\ Junk(new, w).app = IF w = Cli THEN "garbled" ELSE new.app
      /\ Junk(file, w) \in Files /\ Junk(file, w).app = IF w = Cli THEN "garbled" ELSE file.app
  BY <1>1, <1>2, JunkParts
<1> QED
  BY <1>2, <1>3, <1>4, <1>5 DEF new

\* What a load of the file does to the history: nothing, unless the file is sound.
LEMMA LoadNotes ==
  ASSUME TypeOK, NoteLoad
  PROVE  /\ {raced, torn, cut, hardened}' \subseteq BOOLEAN
         /\ hardened' = hardened
         /\ Sound \/ (raced' = raced /\ torn' = torn /\ cut' = cut)
BY DEF TypeOK, NoteLoad

\* bootstrap.go's first state satisfies the inductive invariant.
LEMMA InitIInv == Init => IInv
<1> SUFFICES ASSUME Init PROVE IInv
  OBVIOUS
<1> USE Basics DEF Init
<1>1. TypeOK
  <2>1. {up, primary, role, hardened, raced, torn, cut, lost} \subseteq BOOLEAN
    OBVIOUS
  <2>2. file \in Files /\ loaded \in Files
    OBVIOUS
  <2>3. pc \in [Writers -> {"idle", "connect", "read", "truncate", "write", "reload", "create"}]
        /\ conn \in [Writers -> BOOLEAN] /\ want \in [Writers -> Addrs \cup {"none"}]
    OBVIOUS
  <2>4. seen \in [Writers -> Files]
    OBVIOUS
  <2>5. /\ peer \in Addrs \cup {Down} /\ boot \in {"initdb", "hba", "done"}
        /\ calls \in 0..MaxCalls /\ events \in 0..MaxEvents
    OBVIOUS
  <2> QED
    BY <2>1, <2>2, <2>3, <2>4, <2>5 DEF TypeOK
<1>2. BootFirst /\ UpsertKnows /\ HardenedStays /\ NobodyHoldsTrust
  BY DEF BootFirst, UpsertKnows, HardenedStays, NobodyHoldsTrust, InUpsert
<1>3. CopiesGood /\ RulesInEffect /\ FileIntact
  BY DEF CopiesGood, RulesInEffect, FileIntact, InUpsert
<1> QED
  BY <1>1, <1>2, <1>3 DEF IInv

\* Every step keeps the types.
LEMMA TypeStep == TypeOK /\ UpsertKnows /\ [Next]_vars => TypeOK'
<1> SUFFICES ASSUME TypeOK, UpsertKnows, [Next]_vars PROVE TypeOK'
  OBVIOUS
<1> USE Basics DEF node, writers, history, counts, Event, Goto, TypeOK, UpsertKnows
<1>1. ASSUME RunInitdb PROVE TypeOK'
  BY <1>1 DEF RunInitdb
<1>2. ASSUME BootstrapHBA PROVE TypeOK'
  <2>1. /\ peer' \in Addrs \cup {Down} /\ boot' \in {"initdb", "hba", "done"}
        /\ calls' \in 0..MaxCalls /\ events' \in 0..MaxEvents
    BY <1>2 DEF BootstrapHBA
  <2>2. {up, primary, role, hardened, raced, torn, cut, lost}' \subseteq BOOLEAN
    BY <1>2 DEF BootstrapHBA
  <2>3. file' \in Files /\ loaded' \in Files
    BY <1>2 DEF BootstrapHBA, Files
  <2>4. /\ pc' \in [Writers -> {"idle", "connect", "read", "truncate", "write", "reload", "create"}]
        /\ conn' \in [Writers -> BOOLEAN]
    BY <1>2 DEF BootstrapHBA
  <2>5. want' \in [Writers -> Addrs \cup {"none"}] /\ seen' \in [Writers -> Files]
    BY <1>2 DEF BootstrapHBA
  <2> QED
    BY <2>1, <2>2, <2>3, <2>4, <2>5
<1>3. ASSUME BootstrapCut PROVE TypeOK'
  BY <1>3 DEF BootstrapCut
<1>4. ASSUME PostgresUp PROVE TypeOK'
  BY <1>4, LoadNotes DEF PostgresUp, Sound
<1>5. ASSUME PostgresDown PROVE TypeOK'
  <2>1. /\ peer' \in Addrs \cup {Down} /\ boot' \in {"initdb", "hba", "done"}
        /\ calls' \in 0..MaxCalls /\ events' \in 0..MaxEvents
    BY <1>5 DEF PostgresDown
  <2>2. {up, primary, role, hardened, raced, torn, cut, lost}' \subseteq BOOLEAN
    BY <1>5 DEF PostgresDown
  <2>3. file' \in Files /\ loaded' \in Files
    BY <1>5 DEF PostgresDown
  <2>4. /\ pc' \in [Writers -> {"idle", "connect", "read", "truncate", "write", "reload", "create"}]
        /\ conn' \in [Writers -> BOOLEAN]
    BY <1>5 DEF PostgresDown
  <2>5. want' \in [Writers -> Addrs \cup {"none"}] /\ seen' \in [Writers -> Files]
    BY <1>5 DEF PostgresDown
  <2> QED
    BY <2>1, <2>2, <2>3, <2>4, <2>5
<1>6. ASSUME Promoted PROVE TypeOK'
  BY <1>6 DEF Promoted
<1>7. ASSUME Rejoined PROVE TypeOK'
  <2>1. /\ peer' \in Addrs \cup {Down} /\ boot' \in {"initdb", "hba", "done"}
        /\ calls' \in 0..MaxCalls /\ events' \in 0..MaxEvents
    BY <1>7 DEF Rejoined
  <2>2. {up, primary, role, hardened, raced, torn, cut, lost}' \subseteq BOOLEAN
    <3>1. raced' \in BOOLEAN
      BY <1>7, Zenon DEF Rejoined
    <3>2. {up, primary, role, hardened, torn, cut, lost}' \subseteq BOOLEAN
      BY <1>7 DEF Rejoined
    <3> QED
      BY <3>1, <3>2
  <2>3. file' \in Files /\ loaded' \in Files
    BY <1>7 DEF Rejoined, Files
  <2>4. /\ pc' \in [Writers -> {"idle", "connect", "read", "truncate", "write", "reload", "create"}]
        /\ conn' \in [Writers -> BOOLEAN]
    BY <1>7 DEF Rejoined
  <2>5. want' \in [Writers -> Addrs \cup {"none"}] /\ seen' \in [Writers -> Files]
    BY <1>7 DEF Rejoined
  <2> QED
    BY <2>1, <2>2, <2>3, <2>4, <2>5
<1>8. ASSUME PeerMoves PROVE TypeOK'
  BY <1>8 DEF PeerMoves
<1>9. ASSUME Crash PROVE TypeOK'
  <2>1. /\ peer' \in Addrs \cup {Down} /\ boot' \in {"initdb", "hba", "done"}
        /\ calls' \in 0..MaxCalls /\ events' \in 0..MaxEvents
    BY <1>9 DEF Crash
  <2>2. {up, primary, role, hardened, raced, torn, cut, lost}' \subseteq BOOLEAN
    <3>1. torn' \in BOOLEAN
      BY <1>9, Zenon DEF Crash
    <3>2. {up, primary, role, hardened, raced, cut, lost}' \subseteq BOOLEAN
      BY <1>9 DEF Crash
    <3> QED
      BY <3>1, <3>2
  <2>3. file' \in Files /\ loaded' \in Files
    BY <1>9 DEF Crash
  <2>4. /\ pc' \in [Writers -> {"idle", "connect", "read", "truncate", "write", "reload", "create"}]
        /\ conn' \in [Writers -> BOOLEAN]
    BY <1>9 DEF Crash
  <2>5. want' \in [Writers -> Addrs \cup {"none"}] /\ seen' \in [Writers -> Files]
    BY <1>9 DEF Crash
  <2> QED
    BY <2>1, <2>2, <2>3, <2>4, <2>5
<1>10. ASSUME CliKilled PROVE TypeOK'
  BY <1>10 DEF CliKilled
<1>11. ASSUME NEW w \in Writers, Begin(w) PROVE TypeOK'
  BY <1>11 DEF Begin
<1>12. ASSUME NEW w \in Writers, Connect(w) PROVE TypeOK'
  <2>1. /\ peer' \in Addrs \cup {Down} /\ boot' \in {"initdb", "hba", "done"}
        /\ calls' \in 0..MaxCalls /\ events' \in 0..MaxEvents
    BY <1>12 DEF Connect, Resolved
  <2>2. {up, primary, role, hardened, raced, torn, cut, lost}' \subseteq BOOLEAN
    BY <1>12 DEF Connect, Resolved
  <2>3. file' \in Files /\ loaded' \in Files
    BY <1>12 DEF Connect, Resolved
  <2>4. /\ pc' \in [Writers -> {"idle", "connect", "read", "truncate", "write", "reload", "create"}]
        /\ conn' \in [Writers -> BOOLEAN]
    BY <1>12 DEF Connect, Resolved
  <2>5. want' \in [Writers -> Addrs \cup {"none"}] /\ seen' \in [Writers -> Files]
    BY <1>12 DEF Connect, Resolved
  <2> QED
    BY <2>1, <2>2, <2>3, <2>4, <2>5
<1>13. ASSUME NEW w \in Writers, ConnectFails(w) PROVE TypeOK'
  BY <1>13 DEF ConnectFails
<1>14. ASSUME NEW w \in Writers, Read(w) PROVE TypeOK'
  <2>1. /\ peer' \in Addrs \cup {Down} /\ boot' \in {"initdb", "hba", "done"}
        /\ calls' \in 0..MaxCalls /\ events' \in 0..MaxEvents
    BY <1>14 DEF Read, AfterUpsert
  <2>2. {up, primary, role, hardened, raced, torn, cut, lost}' \subseteq BOOLEAN
    <3>1. raced' \in BOOLEAN /\ hardened' \in BOOLEAN
      BY <1>14, Zenon DEF Read
    <3>2. {up, primary, role, torn, cut, lost}' \subseteq BOOLEAN
      BY <1>14 DEF Read
    <3> QED
      BY <3>1, <3>2
  <2>3. file' \in Files /\ loaded' \in Files
    BY <1>14 DEF Read, AfterUpsert
  <2>4. /\ pc' \in [Writers -> {"idle", "connect", "read", "truncate", "write", "reload", "create"}]
        /\ conn' \in [Writers -> BOOLEAN]
    BY <1>14 DEF Read, AfterUpsert
  <2>5. want' \in [Writers -> Addrs \cup {"none"}] /\ seen' \in [Writers -> Files]
    BY <1>14 DEF Read, AfterUpsert
  <2> QED
    BY <2>1, <2>2, <2>3, <2>4, <2>5
<1>15. ASSUME NEW w \in Writers, Truncate(w) PROVE TypeOK'
  BY <1>15 DEF Truncate
<1>16. ASSUME NEW w \in Writers, Write(w) PROVE TypeOK'
  BY <1>16, WriteLeaves DEF Write
<1>17. ASSUME NEW w \in Writers, WriteFails(w) PROVE TypeOK'
  BY <1>17 DEF WriteFails, AfterUpsert
<1>18. ASSUME NEW w \in Writers, Reload(w) PROVE TypeOK'
  BY <1>18, LoadNotes DEF Reload, AfterUpsert, Sound
<1>19. ASSUME NEW w \in Writers, ReloadFails(w) PROVE TypeOK'
  BY <1>19 DEF ReloadFails, AfterUpsert
<1>20. ASSUME NEW w \in Writers, Create(w) PROVE TypeOK'
  BY <1>20 DEF Create
<1>21. CASE UNCHANGED vars
  BY <1>21 DEF vars
<1> QED
  BY <1>1, <1>2, <1>3, <1>4, <1>5, <1>6, <1>7, <1>8, <1>9, <1>10, <1>11, <1>12, <1>13, <1>14,
     <1>15, <1>16, <1>17, <1>18, <1>19, <1>20, <1>21 DEF Next, Environment, Step

\* Every step keeps the writers behind the bootstrap.
LEMMA BootStep == TypeOK /\ BootFirst /\ [Next]_vars => BootFirst'
<1> SUFFICES ASSUME TypeOK, BootFirst, [Next]_vars PROVE BootFirst'
  OBVIOUS
<1> USE Basics DEF node, writers, history, counts, Event, Goto, TypeOK, BootFirst
<1>1. ASSUME RunInitdb PROVE BootFirst'
  BY <1>1 DEF RunInitdb
<1>2. ASSUME BootstrapHBA PROVE BootFirst'
  BY <1>2 DEF BootstrapHBA
<1>3. ASSUME BootstrapCut PROVE BootFirst'
  BY <1>3 DEF BootstrapCut
<1>4. ASSUME PostgresUp PROVE BootFirst'
  BY <1>4, LoadNotes DEF PostgresUp, Sound
<1>5. ASSUME PostgresDown PROVE BootFirst'
  BY <1>5 DEF PostgresDown
<1>6. ASSUME Promoted PROVE BootFirst'
  BY <1>6 DEF Promoted
<1>7. ASSUME Rejoined PROVE BootFirst'
  BY <1>7 DEF Rejoined
<1>8. ASSUME PeerMoves PROVE BootFirst'
  BY <1>8 DEF PeerMoves
<1>9. ASSUME Crash PROVE BootFirst'
  BY <1>9 DEF Crash
<1>10. ASSUME CliKilled PROVE BootFirst'
  BY <1>10 DEF CliKilled
<1>11. ASSUME NEW w \in Writers, Begin(w) PROVE BootFirst'
  BY <1>11 DEF Begin
<1>12. ASSUME NEW w \in Writers, Connect(w) PROVE BootFirst'
  BY <1>12 DEF Connect, Resolved
<1>13. ASSUME NEW w \in Writers, ConnectFails(w) PROVE BootFirst'
  BY <1>13 DEF ConnectFails
<1>14. ASSUME NEW w \in Writers, Read(w) PROVE BootFirst'
  BY <1>14 DEF Read, AfterUpsert, UpToDate
<1>15. ASSUME NEW w \in Writers, Truncate(w) PROVE BootFirst'
  BY <1>15 DEF Truncate
<1>16. ASSUME NEW w \in Writers, Write(w) PROVE BootFirst'
  BY <1>16, WriteLeaves DEF Write
<1>17. ASSUME NEW w \in Writers, WriteFails(w) PROVE BootFirst'
  BY <1>17 DEF WriteFails, AfterUpsert
<1>18. ASSUME NEW w \in Writers, Reload(w) PROVE BootFirst'
  BY <1>18, LoadNotes DEF Reload, AfterUpsert, Sound
<1>19. ASSUME NEW w \in Writers, ReloadFails(w) PROVE BootFirst'
  BY <1>19 DEF ReloadFails, AfterUpsert
<1>20. ASSUME NEW w \in Writers, Create(w) PROVE BootFirst'
  BY <1>20 DEF Create
<1>21. CASE UNCHANGED vars
  BY <1>21 DEF vars
<1> QED
  BY <1>1, <1>2, <1>3, <1>4, <1>5, <1>6, <1>7, <1>8, <1>9, <1>10, <1>11, <1>12, <1>13, <1>14,
     <1>15, <1>16, <1>17, <1>18, <1>19, <1>20, <1>21 DEF Next, Environment, Step

\* Every step keeps what an upsert knows.
LEMMA UpsertStep == TypeOK /\ BootFirst /\ UpsertKnows /\ [Next]_vars => UpsertKnows'
<1> SUFFICES ASSUME TypeOK, BootFirst, UpsertKnows, [Next]_vars PROVE UpsertKnows'
  OBVIOUS
<1> USE Basics DEF node, writers, history, counts, Event, Goto, TypeOK, BootFirst, UpsertKnows, InUpsert
<1>1. ASSUME RunInitdb PROVE UpsertKnows'
  BY <1>1 DEF RunInitdb
<1>2. ASSUME BootstrapHBA PROVE UpsertKnows'
  BY <1>2 DEF BootstrapHBA
<1>3. ASSUME BootstrapCut PROVE UpsertKnows'
  BY <1>3 DEF BootstrapCut
<1>4. ASSUME PostgresUp PROVE UpsertKnows'
  BY <1>4, LoadNotes DEF PostgresUp, Sound
<1>5. ASSUME PostgresDown PROVE UpsertKnows'
  BY <1>5 DEF PostgresDown
<1>6. ASSUME Promoted PROVE UpsertKnows'
  BY <1>6 DEF Promoted
<1>7. ASSUME Rejoined PROVE UpsertKnows'
  BY <1>7 DEF Rejoined
<1>8. ASSUME PeerMoves PROVE UpsertKnows'
  BY <1>8 DEF PeerMoves
<1>9. ASSUME Crash PROVE UpsertKnows'
  BY <1>9 DEF Crash
<1>10. ASSUME CliKilled PROVE UpsertKnows'
  BY <1>10 DEF CliKilled
<1>11. ASSUME NEW w \in Writers, Begin(w) PROVE UpsertKnows'
  BY <1>11 DEF Begin
<1>12. ASSUME NEW w \in Writers, Connect(w) PROVE UpsertKnows'
  BY <1>12 DEF Connect, Resolved
<1>13. ASSUME NEW w \in Writers, ConnectFails(w) PROVE UpsertKnows'
  BY <1>13 DEF ConnectFails
<1>14. ASSUME NEW w \in Writers, Read(w) PROVE UpsertKnows'
  BY <1>14 DEF Read, AfterUpsert, UpToDate
<1>15. ASSUME NEW w \in Writers, Truncate(w) PROVE UpsertKnows'
  BY <1>15 DEF Truncate
<1>16. ASSUME NEW w \in Writers, Write(w) PROVE UpsertKnows'
  BY <1>16, WriteLeaves DEF Write
<1>17. ASSUME NEW w \in Writers, WriteFails(w) PROVE UpsertKnows'
  BY <1>17 DEF WriteFails, AfterUpsert
<1>18. ASSUME NEW w \in Writers, Reload(w) PROVE UpsertKnows'
  BY <1>18, LoadNotes DEF Reload, AfterUpsert, Sound
<1>19. ASSUME NEW w \in Writers, ReloadFails(w) PROVE UpsertKnows'
  BY <1>19 DEF ReloadFails, AfterUpsert
<1>20. ASSUME NEW w \in Writers, Create(w) PROVE UpsertKnows'
  BY <1>20 DEF Create
<1>21. CASE UNCHANGED vars
  BY <1>21 DEF vars
<1> QED
  BY <1>1, <1>2, <1>3, <1>4, <1>5, <1>6, <1>7, <1>8, <1>9, <1>10, <1>11, <1>12, <1>13, <1>14,
     <1>15, <1>16, <1>17, <1>18, <1>19, <1>20, <1>21 DEF Next, Environment, Step

\* Every step keeps trust out of a hardened file.
LEMMA HardenedStep == TypeOK /\ BootFirst /\ UpsertKnows /\ HardenedStays /\ NobodyHoldsTrust /\ [Next]_vars => HardenedStays'
<1> SUFFICES ASSUME TypeOK, BootFirst, UpsertKnows, HardenedStays, NobodyHoldsTrust, [Next]_vars PROVE HardenedStays'
  OBVIOUS
<1> USE Basics DEF node, writers, history, counts, Event, Goto, TypeOK, BootFirst, UpsertKnows, HardenedStays, NobodyHoldsTrust, InUpsert
<1>1. ASSUME RunInitdb PROVE HardenedStays'
  BY <1>1 DEF RunInitdb
<1>2. ASSUME BootstrapHBA PROVE HardenedStays'
  BY <1>2 DEF BootstrapHBA
<1>3. ASSUME BootstrapCut PROVE HardenedStays'
  BY <1>3 DEF BootstrapCut
<1>4. ASSUME PostgresUp PROVE HardenedStays'
  BY <1>4, LoadNotes DEF PostgresUp, Sound
<1>5. ASSUME PostgresDown PROVE HardenedStays'
  BY <1>5 DEF PostgresDown
<1>6. ASSUME Promoted PROVE HardenedStays'
  BY <1>6 DEF Promoted
<1>7. ASSUME Rejoined PROVE HardenedStays'
  BY <1>7 DEF Rejoined
<1>8. ASSUME PeerMoves PROVE HardenedStays'
  BY <1>8 DEF PeerMoves
<1>9. ASSUME Crash PROVE HardenedStays'
  BY <1>9 DEF Crash
<1>10. ASSUME CliKilled PROVE HardenedStays'
  BY <1>10 DEF CliKilled
<1>11. ASSUME NEW w \in Writers, Begin(w) PROVE HardenedStays'
  BY <1>11 DEF Begin
<1>12. ASSUME NEW w \in Writers, Connect(w) PROVE HardenedStays'
  BY <1>12 DEF Connect, Resolved
<1>13. ASSUME NEW w \in Writers, ConnectFails(w) PROVE HardenedStays'
  BY <1>13 DEF ConnectFails
<1>14. ASSUME NEW w \in Writers, Read(w) PROVE HardenedStays'
  BY <1>14 DEF Read, AfterUpsert, UpToDate
<1>15. ASSUME NEW w \in Writers, Truncate(w) PROVE HardenedStays'
  BY <1>15 DEF Truncate
<1>16. ASSUME NEW w \in Writers, Write(w) PROVE HardenedStays'
  <2>1. file'.app \in {seen[w].app, file.app, "scram", "garbled"}
        /\ (w = Cli => file'.app \in {"scram", "garbled"})
    BY <1>16, WriteLeaves
  <2>2. pc[w] = "write" /\ (w # Cli => hardened' = hardened)
    BY <1>16 DEF Write
  <2>3. hardened => file.app # "trust" /\ seen[w].app # "trust"
    BY <2>2
  <2> QED
    BY <2>1, <2>2, <2>3
<1>17. ASSUME NEW w \in Writers, WriteFails(w) PROVE HardenedStays'
  BY <1>17 DEF WriteFails, AfterUpsert
<1>18. ASSUME NEW w \in Writers, Reload(w) PROVE HardenedStays'
  BY <1>18, LoadNotes DEF Reload, AfterUpsert, Sound
<1>19. ASSUME NEW w \in Writers, ReloadFails(w) PROVE HardenedStays'
  BY <1>19 DEF ReloadFails, AfterUpsert
<1>20. ASSUME NEW w \in Writers, Create(w) PROVE HardenedStays'
  BY <1>20 DEF Create
<1>21. CASE UNCHANGED vars
  BY <1>21 DEF vars
<1> QED
  BY <1>1, <1>2, <1>3, <1>4, <1>5, <1>6, <1>7, <1>8, <1>9, <1>10, <1>11, <1>12, <1>13, <1>14,
     <1>15, <1>16, <1>17, <1>18, <1>19, <1>20, <1>21 DEF Next, Environment, Step

\* Every step keeps trust out of the copies.
LEMMA CopyStep == TypeOK /\ BootFirst /\ UpsertKnows /\ HardenedStays /\ NobodyHoldsTrust /\ [Next]_vars => NobodyHoldsTrust'
<1> SUFFICES ASSUME TypeOK, BootFirst, UpsertKnows, HardenedStays, NobodyHoldsTrust, [Next]_vars PROVE NobodyHoldsTrust'
  OBVIOUS
<1> USE Basics DEF node, writers, history, counts, Event, Goto, TypeOK, BootFirst, UpsertKnows, HardenedStays, NobodyHoldsTrust, InUpsert
<1>1. ASSUME RunInitdb PROVE NobodyHoldsTrust'
  BY <1>1 DEF RunInitdb
<1>2. ASSUME BootstrapHBA PROVE NobodyHoldsTrust'
  BY <1>2 DEF BootstrapHBA
<1>3. ASSUME BootstrapCut PROVE NobodyHoldsTrust'
  BY <1>3 DEF BootstrapCut
<1>4. ASSUME PostgresUp PROVE NobodyHoldsTrust'
  BY <1>4, LoadNotes DEF PostgresUp, Sound
<1>5. ASSUME PostgresDown PROVE NobodyHoldsTrust'
  BY <1>5 DEF PostgresDown
<1>6. ASSUME Promoted PROVE NobodyHoldsTrust'
  BY <1>6 DEF Promoted
<1>7. ASSUME Rejoined PROVE NobodyHoldsTrust'
  BY <1>7 DEF Rejoined
<1>8. ASSUME PeerMoves PROVE NobodyHoldsTrust'
  BY <1>8 DEF PeerMoves
<1>9. ASSUME Crash PROVE NobodyHoldsTrust'
  BY <1>9 DEF Crash
<1>10. ASSUME CliKilled PROVE NobodyHoldsTrust'
  BY <1>10 DEF CliKilled
<1>11. ASSUME NEW w \in Writers, Begin(w) PROVE NobodyHoldsTrust'
  BY <1>11 DEF Begin
<1>12. ASSUME NEW w \in Writers, Connect(w) PROVE NobodyHoldsTrust'
  BY <1>12 DEF Connect, Resolved
<1>13. ASSUME NEW w \in Writers, ConnectFails(w) PROVE NobodyHoldsTrust'
  BY <1>13 DEF ConnectFails
<1>14. ASSUME NEW w \in Writers, Read(w) PROVE NobodyHoldsTrust'
  <2>1. CASE hardened
    <3>1. seen' = seen \/ seen' = [seen EXCEPT ![w] = file] \/ seen' = [seen EXCEPT ![w] = Empty]
      BY <1>14 DEF Read, AfterUpsert
    <3>2. \A v \in Writers : v # w => pc'[v] = pc[v] /\ seen'[v] = seen[v]
      BY <1>14 DEF Read, AfterUpsert
    <3>3. pc'[w] \in {"truncate", "write"} => seen'[w] = file
      BY <1>14 DEF Read, AfterUpsert
    <3> QED
      BY <2>1, <3>2, <3>3
  <2>2. CASE ~hardened /\ hardened'
    <3>1. InUpsert = {} /\ Goto(w, AfterUpsert(w))
      BY <1>14, <2>2 DEF Read
    <3>2. InUpsert' = {}
      BY <3>1 DEF AfterUpsert
    <3> QED
      BY <3>2
  <2> QED
    BY <2>1, <2>2
<1>15. ASSUME NEW w \in Writers, Truncate(w) PROVE NobodyHoldsTrust'
  BY <1>15 DEF Truncate
<1>16. ASSUME NEW w \in Writers, Write(w) PROVE NobodyHoldsTrust'
  BY <1>16, WriteLeaves DEF Write
<1>17. ASSUME NEW w \in Writers, WriteFails(w) PROVE NobodyHoldsTrust'
  BY <1>17 DEF WriteFails, AfterUpsert
<1>18. ASSUME NEW w \in Writers, Reload(w) PROVE NobodyHoldsTrust'
  BY <1>18, LoadNotes DEF Reload, AfterUpsert, Sound
<1>19. ASSUME NEW w \in Writers, ReloadFails(w) PROVE NobodyHoldsTrust'
  BY <1>19 DEF ReloadFails, AfterUpsert
<1>20. ASSUME NEW w \in Writers, Create(w) PROVE NobodyHoldsTrust'
  BY <1>20 DEF Create
<1>21. CASE UNCHANGED vars
  BY <1>21 DEF vars
<1> QED
  BY <1>1, <1>2, <1>3, <1>4, <1>5, <1>6, <1>7, <1>8, <1>9, <1>10, <1>11, <1>12, <1>13, <1>14,
     <1>15, <1>16, <1>17, <1>18, <1>19, <1>20, <1>21 DEF Next, Environment, Step

\* Every step keeps the copies good.
LEMMA GoodStep == TypeOK /\ BootFirst /\ UpsertKnows /\ CopiesGood /\ FileIntact /\ [Next]_vars => CopiesGood'
<1> SUFFICES ASSUME TypeOK, BootFirst, UpsertKnows, CopiesGood, FileIntact, [Next]_vars PROVE CopiesGood'
  OBVIOUS
<1> USE Basics DEF node, writers, history, counts, Event, Goto, TypeOK, BootFirst, UpsertKnows, CopiesGood, FileIntact, InUpsert, Loadable, Whole
<1>1. ASSUME RunInitdb PROVE CopiesGood'
  BY <1>1 DEF RunInitdb
<1>2. ASSUME BootstrapHBA PROVE CopiesGood'
  <2>1. file = Initdb /\ InUpsert' = {} /\ boot = "hba"
    BY <1>2 DEF BootstrapHBA
  <2>2. PICK a \in Addrs \cup {"name"} : file' = [file EXCEPT !.repl = a, !.app = Auth]
    BY <1>2 DEF BootstrapHBA
  <2>3. file'.app = Auth /\ file'.repl = a /\ Auth # "none" /\ Auth # "garbled"
    BY <2>1, <2>2 DEF Files
  <2> QED
    BY <2>1, <2>3
<1>3. ASSUME BootstrapCut PROVE CopiesGood'
  BY <1>3 DEF BootstrapCut
<1>4. ASSUME PostgresUp PROVE CopiesGood'
  BY <1>4, LoadNotes DEF PostgresUp, Sound
<1>5. ASSUME PostgresDown PROVE CopiesGood'
  BY <1>5 DEF PostgresDown
<1>6. ASSUME Promoted PROVE CopiesGood'
  BY <1>6 DEF Promoted
<1>7. ASSUME Rejoined PROVE CopiesGood'
  BY <1>7 DEF Rejoined
<1>8. ASSUME PeerMoves PROVE CopiesGood'
  BY <1>8 DEF PeerMoves
<1>9. ASSUME Crash PROVE CopiesGood'
  BY <1>9 DEF Crash
<1>10. ASSUME CliKilled PROVE CopiesGood'
  BY <1>10 DEF CliKilled
<1>11. ASSUME NEW w \in Writers, Begin(w) PROVE CopiesGood'
  BY <1>11 DEF Begin
<1>12. ASSUME NEW w \in Writers, Connect(w) PROVE CopiesGood'
  BY <1>12 DEF Connect, Resolved
<1>13. ASSUME NEW w \in Writers, ConnectFails(w) PROVE CopiesGood'
  BY <1>13 DEF ConnectFails
<1>14. ASSUME NEW w \in Writers, Read(w) PROVE CopiesGood'
  BY <1>14 DEF Read, AfterUpsert, UpToDate
<1>15. ASSUME NEW w \in Writers, Truncate(w) PROVE CopiesGood'
  BY <1>15 DEF Truncate
<1>16. ASSUME NEW w \in Writers, Write(w) PROVE CopiesGood'
  <2> SUFFICES ASSUME ~raced, ~torn PROVE CopiesGood'
    BY <1>16 DEF Write
  <2> DEFINE new == Upserted(seen[w], w)
  <2>1. pc[w] = "write" /\ Loadable(seen[w]) /\ seen[w] \in Files /\ (w # Cli => want[w] \in Addrs)
    BY <1>16 DEF Write
  <2>2. file' = new
    BY <1>16, WriteLeaves
  <2>3. /\ new.base = seen[w].base
        /\ w = Cli => new.repl = seen[w].repl /\ new.app = "scram"
        /\ w # Cli => new.repl = want[w] /\ new.app = seen[w].app
    BY <2>1, UpsertedParts
  <2> HIDE DEF new
  <2>4. new # Empty /\ new.repl # "garbled" /\ new.app # "garbled"
    BY <2>1, <2>3
  <2>5. InUpsert' = {}
    BY <1>16, <2>1 DEF Write
  <2> QED
    BY <2>2, <2>4, <2>5
<1>17. ASSUME NEW w \in Writers, WriteFails(w) PROVE CopiesGood'
  BY <1>17 DEF WriteFails, AfterUpsert
<1>18. ASSUME NEW w \in Writers, Reload(w) PROVE CopiesGood'
  BY <1>18, LoadNotes DEF Reload, AfterUpsert, Sound
<1>19. ASSUME NEW w \in Writers, ReloadFails(w) PROVE CopiesGood'
  BY <1>19 DEF ReloadFails, AfterUpsert
<1>20. ASSUME NEW w \in Writers, Create(w) PROVE CopiesGood'
  BY <1>20 DEF Create
<1>21. CASE UNCHANGED vars
  BY <1>21 DEF vars
<1> QED
  BY <1>1, <1>2, <1>3, <1>4, <1>5, <1>6, <1>7, <1>8, <1>9, <1>10, <1>11, <1>12, <1>13, <1>14,
     <1>15, <1>16, <1>17, <1>18, <1>19, <1>20, <1>21 DEF Next, Environment, Step

\* Every step keeps the rules in effect.
LEMMA RulesStep == TypeOK /\ BootFirst /\ UpsertKnows /\ CopiesGood /\ RulesInEffect /\ [Next]_vars => RulesInEffect'
<1> SUFFICES ASSUME TypeOK, BootFirst, UpsertKnows, CopiesGood, RulesInEffect, [Next]_vars PROVE RulesInEffect'
  OBVIOUS
<1> USE Basics DEF node, writers, history, counts, Event, Goto, TypeOK, BootFirst, UpsertKnows, CopiesGood, RulesInEffect
<1>1. ASSUME RunInitdb PROVE RulesInEffect'
  BY <1>1 DEF RunInitdb
<1>2. ASSUME BootstrapHBA PROVE RulesInEffect'
  BY <1>2 DEF BootstrapHBA
<1>3. ASSUME BootstrapCut PROVE RulesInEffect'
  BY <1>3 DEF BootstrapCut
<1>4. ASSUME PostgresUp PROVE RulesInEffect'
  BY <1>4, LoadNotes DEF PostgresUp, Sound
<1>5. ASSUME PostgresDown PROVE RulesInEffect'
  BY <1>5 DEF PostgresDown
<1>6. ASSUME Promoted PROVE RulesInEffect'
  BY <1>6 DEF Promoted
<1>7. ASSUME Rejoined PROVE RulesInEffect'
  BY <1>7 DEF Rejoined
<1>8. ASSUME PeerMoves PROVE RulesInEffect'
  BY <1>8 DEF PeerMoves
<1>9. ASSUME Crash PROVE RulesInEffect'
  BY <1>9 DEF Crash
<1>10. ASSUME CliKilled PROVE RulesInEffect'
  BY <1>10 DEF CliKilled
<1>11. ASSUME NEW w \in Writers, Begin(w) PROVE RulesInEffect'
  BY <1>11 DEF Begin
<1>12. ASSUME NEW w \in Writers, Connect(w) PROVE RulesInEffect'
  BY <1>12 DEF Connect, Resolved
<1>13. ASSUME NEW w \in Writers, ConnectFails(w) PROVE RulesInEffect'
  BY <1>13 DEF ConnectFails
<1>14. ASSUME NEW w \in Writers, Read(w) PROVE RulesInEffect'
  BY <1>14 DEF Read, AfterUpsert, UpToDate
<1>15. ASSUME NEW w \in Writers, Truncate(w) PROVE RulesInEffect'
  BY <1>15 DEF Truncate
<1>16. ASSUME NEW w \in Writers, Write(w) PROVE RulesInEffect'
  BY <1>16, WriteLeaves DEF Write
<1>17. ASSUME NEW w \in Writers, WriteFails(w) PROVE RulesInEffect'
  BY <1>17 DEF WriteFails, AfterUpsert
<1>18. ASSUME NEW w \in Writers, Reload(w) PROVE RulesInEffect'
  BY <1>18, LoadNotes DEF Reload, AfterUpsert, Sound
<1>19. ASSUME NEW w \in Writers, ReloadFails(w) PROVE RulesInEffect'
  BY <1>19 DEF ReloadFails, AfterUpsert
<1>20. ASSUME NEW w \in Writers, Create(w) PROVE RulesInEffect'
  BY <1>20 DEF Create
<1>21. CASE UNCHANGED vars
  BY <1>21 DEF vars
<1> QED
  BY <1>1, <1>2, <1>3, <1>4, <1>5, <1>6, <1>7, <1>8, <1>9, <1>10, <1>11, <1>12, <1>13, <1>14,
     <1>15, <1>16, <1>17, <1>18, <1>19, <1>20, <1>21 DEF Next, Environment, Step

\* Every step keeps the file intact.
LEMMA IntactStep == TypeOK /\ BootFirst /\ UpsertKnows /\ CopiesGood /\ FileIntact /\ [Next]_vars => FileIntact'
<1> SUFFICES ASSUME TypeOK, BootFirst, UpsertKnows, CopiesGood, FileIntact, [Next]_vars PROVE FileIntact'
  OBVIOUS
<1> USE Basics DEF node, writers, history, counts, Event, Goto, TypeOK, BootFirst, UpsertKnows, CopiesGood, FileIntact, InUpsert, Whole
<1>1. ASSUME RunInitdb PROVE FileIntact'
  BY <1>1 DEF RunInitdb
<1>2. ASSUME BootstrapHBA PROVE FileIntact'
  BY <1>2 DEF BootstrapHBA
<1>3. ASSUME BootstrapCut PROVE FileIntact'
  BY <1>3 DEF BootstrapCut
<1>4. ASSUME PostgresUp PROVE FileIntact'
  BY <1>4, LoadNotes DEF PostgresUp, Sound
<1>5. ASSUME PostgresDown PROVE FileIntact'
  BY <1>5 DEF PostgresDown
<1>6. ASSUME Promoted PROVE FileIntact'
  BY <1>6 DEF Promoted
<1>7. ASSUME Rejoined PROVE FileIntact'
  BY <1>7 DEF Rejoined
<1>8. ASSUME PeerMoves PROVE FileIntact'
  BY <1>8 DEF PeerMoves
<1>9. ASSUME Crash PROVE FileIntact'
  BY <1>9 DEF Crash
<1>10. ASSUME CliKilled PROVE FileIntact'
  BY <1>10 DEF CliKilled
<1>11. ASSUME NEW w \in Writers, Begin(w) PROVE FileIntact'
  BY <1>11 DEF Begin
<1>12. ASSUME NEW w \in Writers, Connect(w) PROVE FileIntact'
  BY <1>12 DEF Connect, Resolved
<1>13. ASSUME NEW w \in Writers, ConnectFails(w) PROVE FileIntact'
  BY <1>13 DEF ConnectFails
<1>14. ASSUME NEW w \in Writers, Read(w) PROVE FileIntact'
  BY <1>14 DEF Read, AfterUpsert, UpToDate
<1>15. ASSUME NEW w \in Writers, Truncate(w) PROVE FileIntact'
  BY <1>15 DEF Truncate
<1>16. ASSUME NEW w \in Writers, Write(w) PROVE FileIntact'
  <2> SUFFICES ASSUME ~raced, ~torn, ~cut PROVE FileIntact'
    BY <1>16 DEF Write
  <2> DEFINE new == Upserted(seen[w], w)
  <2>1. pc[w] = "write" /\ Whole(seen[w]) /\ seen[w] \in Files /\ (w # Cli => want[w] \in Addrs)
    BY <1>16 DEF Write
  <2>2. file' = new
    BY <1>16, WriteLeaves
  <2>3. /\ new.base = seen[w].base
        /\ w = Cli => new.app = "scram"
        /\ w # Cli => new.app = seen[w].app
    BY <2>1, UpsertedParts
  <2> HIDE DEF new
  <2>4. Whole(new)
    BY <2>1, <2>3
  <2> QED
    BY <2>2, <2>4
<1>17. ASSUME NEW w \in Writers, WriteFails(w) PROVE FileIntact'
  BY <1>17 DEF WriteFails, AfterUpsert
<1>18. ASSUME NEW w \in Writers, Reload(w) PROVE FileIntact'
  BY <1>18, LoadNotes DEF Reload, AfterUpsert, Sound
<1>19. ASSUME NEW w \in Writers, ReloadFails(w) PROVE FileIntact'
  BY <1>19 DEF ReloadFails, AfterUpsert
<1>20. ASSUME NEW w \in Writers, Create(w) PROVE FileIntact'
  BY <1>20 DEF Create
<1>21. CASE UNCHANGED vars
  BY <1>21 DEF vars
<1> QED
  BY <1>1, <1>2, <1>3, <1>4, <1>5, <1>6, <1>7, <1>8, <1>9, <1>10, <1>11, <1>12, <1>13, <1>14,
     <1>15, <1>16, <1>17, <1>18, <1>19, <1>20, <1>21 DEF Next, Environment, Step

\* Spec keeps the whole inductive invariant.
THEOREM NodeSetupInvariant == Spec => []IInv
<1>1. IInv /\ [Next]_vars => IInv'
  BY TypeStep, BootStep, UpsertStep, HardenedStep, CopyStep, GoodStep, RulesStep, IntactStep DEF IInv
<1> QED
  BY InitIInv, <1>1, PTL DEF Spec

\* bootstrap.go, setpassword.go: the file, its copies and the writers keep their types.
THEOREM TypeCorrect == Spec => []TypeOK
<1>1. IInv => TypeOK
  BY DEF IInv
<1> QED
  BY NodeSetupInvariant, <1>1, PTL

\* docker/README.md, Setting a password later: once it is in place with nobody amid
\* an upsert, the scram line never goes back to trust.
THEOREM PasswordStays == Spec => []HardenedStays
<1>1. IInv => HardenedStays
  BY DEF IInv
<1> QED
  BY NodeSetupInvariant, <1>1, PTL

\* bootstrap.go: the rules postgres applies are those of the file, but for a lost
\* reload, a race or a cut-off write.
THEOREM FileInEffect == Spec => []RulesInEffect
<1>1. IInv => RulesInEffect
  BY DEF IInv
<1> QED
  BY NodeSetupInvariant, <1>1, PTL

\* hbaUpsertLine: a writer keeps every line it does not own.
THEOREM LinesKept == Spec => []FileIntact
<1>1. IInv => FileIntact
  BY DEF IInv
<1> QED
  BY NodeSetupInvariant, <1>1, PTL
=============================================================================
