-------------------------- MODULE DebugHostProofs --------------------------
(***************************************************************************)
(* The debugger sees one memory: the safety part of the refinement of      *)
(* DebugMemory by DebugHost, for any number of cores, any registers and    *)
(* values, and whatever the programs do.  What is not under a debugger     *)
(* changes nothing of it.  And the safety of the handler of the traps: no  *)
(* core runs again before it has been served.                              *)
(***************************************************************************)
EXTENDS DebugHost, SequenceTheorems, FiniteSetTheorems, TLAPS

Entry ==
  [write : {TRUE}, place : PlaceSeen, val : Val] \cup
  [write : {FALSE}, place : PlaceSeen, back : BackLoc]

ServerTypes ==
  /\ pc \in {"wait", "pipe", "poll", "pending", "resumed"}
  /\ asked \in Requests \cup {None}
  /\ stimulusArray \in Seq(Entry)
  /\ answers \in Seq([to : OwnLoc \cup BackLoc, val : Val])
  /\ DOMAIN chip = Place /\ \A l \in PlaceSeen : chip[l] \in Val
  /\ \A a \in DOMAIN hostMem : a \in OwnLoc \cup BackLoc /\ hostMem[a] \in Val

\* What the server waits for.
Stages ==
  /\ pc \in {"wait", "resumed"} \/ stopped => asked = None
  /\ pc = "pending" => asked # None /\ asked.op = "write" /\ asked.at \in PlaceSeen
  /\ pc = "poll" =>
       asked # None /\ asked.op = "read" /\ asked.at \in PlaceSeen /\ await \in BackLoc
  /\ pc # "poll" => await = None
  /\ pc # "resumed" /\ ~stopped => serving

\* The queue has at most one write, and the read that is polled for is last.
Queue ==
  \A i \in DOMAIN stimulusArray : LET e == stimulusArray[i] IN
    /\ e.write => i = 1
    /\ ~e.write => /\ i = Len(stimulusArray) /\ pc = "poll"
                   /\ e.place = asked.at /\ e.back = await

ReadQueued == \E i \in DOMAIN stimulusArray : ~stimulusArray[i].write

\* Nothing but the answer to the read is on its way back, and it is so once.
OneAnswer ==
  /\ \A i \in DOMAIN answers : answers[i].to \in BackLoc =>
       /\ pc = "poll" /\ answers[i].to = await /\ ~ReadQueued /\ ~Stored(await)
       /\ \A j \in DOMAIN answers : answers[j].to \in BackLoc => j = i
  /\ \A a \in DOMAIN hostMem : a \in BackLoc => pc = "poll" /\ a = await /\ ~ReadQueued

\* Nobody has written to an address where answers come.
ServerInv ==
  mode = "gdb_server" /\ ~spoilt => ServerTypes /\ Stages /\ Queue /\ OneAnswer
-----------------------------------------------------------------------------
(* What the debugger sees.                                                 *)

Places == PlaceSeen \cup OwnLoc

\* The server polls none of them.
Clear == await \notin Places /\ \A l \in BackLoc : Seen(l) = "zero"

LEMMA Apart ==
  /\ PlaceSeen \cap OwnLoc = {} /\ BackLoc \cap OwnLoc = {} /\ BackLoc \cap PlaceSeen = {}
  /\ None \notin BackLoc \cup Places
  /\ PlaceSeen \subseteq Place
<1>1. PlaceSeen \cap OwnLoc = {}
  BY DebugHostAssumption DEF PlaceSeen, OwnLoc
<1>2. BackLoc \cap OwnLoc = {} /\ BackLoc \cap PlaceSeen = {}
  BY DEF BackLoc, OwnLoc, PlaceSeen
<1>3. None \notin BackLoc \cup Places
  BY NoneAssumption DEF HostLoc, Places
<1>4. PlaceSeen \subseteq Place
  BY DEF PlaceSeen, Place
<1>5. QED BY <1>1, <1>2, <1>3, <1>4

LEMMA EntryIs ==
  ASSUME NEW e \in Entry
  PROVE  /\ e.write \in BOOLEAN /\ e.place \in PlaceSeen
         /\ e.write => e.val \in Val
         /\ ~e.write => e.back \in BackLoc
BY DEF Entry

\* A place is what the write in the queue makes of it, or what the chip has.
LEMMA SeenIs ==
  ServerTypes /\ Stages /\ Queue =>
    /\ \A l \in OwnLoc : Seen(l) = HostValue(l)
    /\ \A l \in PlaceSeen :
         /\ \A i \in DOMAIN stimulusArray :
              stimulusArray[i].write /\ stimulusArray[i].place = l =>
                Seen(l) = stimulusArray[i].val
         /\ (\A i \in DOMAIN stimulusArray :
               ~(stimulusArray[i].write /\ stimulusArray[i].place = l)) => Seen(l) = chip[l]
<1>0. Stages => await \notin Places
  BY Apart DEF Stages, Places
<1> SUFFICES ASSUME ServerTypes, Stages, Queue, NEW l \in PlaceSeen
             PROVE  /\ \A i \in DOMAIN stimulusArray :
                         stimulusArray[i].write /\ stimulusArray[i].place = l =>
                           Seen(l) = stimulusArray[i].val
                    /\ (\A i \in DOMAIN stimulusArray :
                          ~(stimulusArray[i].write /\ stimulusArray[i].place = l)) =>
                         Seen(l) = chip[l]
  BY <1>0 DEF Seen, HostLoc, Places
<1> DEFINE W == {i \in DOMAIN stimulusArray :
                   stimulusArray[i].write /\ stimulusArray[i].place = l}
<1>1. l \notin HostLoc /\ l # await
  BY <1>0, Apart DEF HostLoc, Places
<1>2. ASSUME NEW i \in W PROVE Seen(l) = stimulusArray[i].val
  <2>1. W = {1} /\ i = 1
    BY DEF Queue
  <2>2. Max(W) = 1
    BY <2>1 DEF Max
  <2>3. QED BY <1>1, <2>1, <2>2 DEF Seen
<1>3. W = {} => Seen(l) = chip[l]
  BY <1>1 DEF Seen
<1>4. QED BY <1>2, <1>3

LEMMA SeenNext ==
  ServerTypes' /\ Stages' /\ Queue' =>
    /\ \A l \in OwnLoc : Seen(l)' = HostValue(l)'
    /\ \A l \in PlaceSeen :
         /\ \A i \in DOMAIN stimulusArray' :
              stimulusArray'[i].write /\ stimulusArray'[i].place = l =>
                Seen(l)' = stimulusArray'[i].val
         /\ (\A i \in DOMAIN stimulusArray' :
               ~(stimulusArray'[i].write /\ stimulusArray'[i].place = l)) => Seen(l)' = chip'[l]
<1>1. (ServerTypes /\ Stages /\ Queue =>
         /\ \A l \in OwnLoc : Seen(l) = HostValue(l)
         /\ \A l \in PlaceSeen :
              /\ \A i \in DOMAIN stimulusArray :
                   stimulusArray[i].write /\ stimulusArray[i].place = l =>
                     Seen(l) = stimulusArray[i].val
              /\ (\A i \in DOMAIN stimulusArray :
                    ~(stimulusArray[i].write /\ stimulusArray[i].place = l)) =>
                   Seen(l) = chip[l])'
  BY SeenIs, PTL
<1>2. QED BY <1>1

LEMMA SeenValue ==
  ASSUME ServerTypes, Stages, Queue, NEW l \in Places
  PROVE  Seen(l) \in Val
<1>1. CASE l \in OwnLoc
  BY <1>1, SeenIs, DebugHostAssumption DEF HostValue, Stored, ServerTypes
<1>2. CASE l \in PlaceSeen
  <2>1. \A i \in DOMAIN stimulusArray : stimulusArray[i] \in Entry
    BY DEF ServerTypes
  <2>2. \A i \in DOMAIN stimulusArray : stimulusArray[i].write => stimulusArray[i].val \in Val
    BY <2>1, EntryIs
  <2>3. chip[l] \in Val
    BY <1>2 DEF ServerTypes
  <2>4. QED BY <1>2, <2>2, <2>3, SeenIs
<1>3. QED BY <1>1, <1>2 DEF Places

\* A read has found what is on its way back, or what has come.
LEMMA FoundIs ==
  mode = "gdb_server" /\ ServerTypes /\ Stages /\ OneAnswer =>
    /\ pc # "poll" => Found = None
    /\ pc = "poll" =>
         /\ \A i \in DOMAIN answers : answers[i].to = await => Found = answers[i].val
         /\ (\A i \in DOMAIN answers : answers[i].to # await) =>
              Found = IF Stored(await) THEN hostMem[await] ELSE None
<1> SUFFICES ASSUME mode = "gdb_server", ServerTypes, Stages, OneAnswer
             PROVE  /\ pc # "poll" => Found = None
                    /\ pc = "poll" =>
                         /\ \A i \in DOMAIN answers :
                              answers[i].to = await => Found = answers[i].val
                         /\ (\A i \in DOMAIN answers : answers[i].to # await) =>
                              Found = IF Stored(await) THEN hostMem[await] ELSE None
  OBVIOUS
<1>1. pc # "poll" => Found = None
  BY DEF Found, Stages
<1> DEFINE S == {i \in DOMAIN answers : answers[i].to = await}
<1>2. pc = "poll" => await \in BackLoc /\ await # None
  BY Apart DEF Stages
<1>3. ASSUME pc = "poll", NEW i \in S PROVE Found = answers[i].val
  <2>1. S = {i} /\ i \in Nat
    BY <1>2, <1>3 DEF OneAnswer, ServerTypes
  <2>2. Max(S) = i
    BY <2>1 DEF Max
  <2>3. ~ReadQueued
    BY <1>2, <1>3 DEF OneAnswer
  <2>4. QED BY <1>2, <1>3, <2>1, <2>2, <2>3 DEF Found, ReadQueued
<1>4. ASSUME pc = "poll", S = {}
      PROVE  Found = IF Stored(await) THEN hostMem[await] ELSE None
  <2>1. Found = IF ReadQueued THEN None ELSE IF Stored(await) THEN hostMem[await] ELSE None
    BY <1>2, <1>4 DEF Found, ReadQueued
  <2>2. Stored(await) => ~ReadQueued
    BY <1>2, <1>4 DEF OneAnswer, Stored
  <2>3. QED BY <2>1, <2>2
<1>5. QED BY <1>1, <1>3, <1>4

LEMMA MemorySame ==
  ASSUME UNCHANGED mode, Clear, Clear', \A l \in Places : Seen(l)' = Seen(l)
  PROVE  SeenMemory' = SeenMemory
<1>1. \A l \in BackLoc : Seen(l)' = Seen(l)
  BY DEF Clear
<1>2. \A l \in PlaceSeen \cup HostLoc : Seen(l)' = Seen(l)
  BY <1>1 DEF Places, HostLoc
<1>3. QED BY <1>2 DEF SeenMemory

LEMMA MemoryPut ==
  ASSUME UNCHANGED mode, mode = "gdb_server", Clear, Clear', NEW k \in Places, NEW v,
         \A l \in Places : Seen(l)' = IF l = k THEN v ELSE Seen(l)
  PROVE  SeenMemory' = [SeenMemory EXCEPT ![k] = v]
<1>1. \A l \in BackLoc : l # k /\ Seen(l)' = Seen(l)
  BY Apart DEF Clear, Places
<1>2. \A l \in PlaceSeen \cup HostLoc : Seen(l)' = IF l = k THEN v ELSE Seen(l)
  BY <1>1 DEF Places, HostLoc
<1>3. QED BY <1>2 DEF SeenMemory, Places

LEMMA MemoryHas ==
  ASSUME mode = "gdb_server", NEW l \in Places \cup BackLoc PROVE SeenMemory[l] = Seen(l)
BY DEF SeenMemory, Places, HostLoc

\* The request as the abstract specification has it.
LEMMA AskedIs ==
  asked \in Requests \cup {None} =>
    /\ asked = None => Asked = None
    /\ asked # None =>
         /\ Asked \in Memory!Request /\ Asked # None /\ Asked.op = asked.op
         /\ asked.op \in {"read", "write"} => asked.at \in Places \cup BackLoc /\ Asked.at = asked.at
         /\ asked.op = "write" => asked.val \in Val /\ Asked.val = asked.val
         /\ asked.op \in {"read", "write"} /\ asked.at \notin HostLoc =>
              asked.core \in Core /\ asked.at \in PlaceSeen
<1> SUFFICES ASSUME asked \in Requests, asked # None
             PROVE  /\ Asked \in Memory!Request /\ Asked # None /\ Asked.op = asked.op
                    /\ asked.op \in {"read", "write"} => asked.at \in Places \cup BackLoc /\ Asked.at = asked.at
                    /\ asked.op = "write" => asked.val \in Val /\ Asked.val = asked.val
                    /\ asked.op \in {"read", "write"} /\ asked.at \notin HostLoc =>
                         asked.core \in Core /\ asked.at \in PlaceSeen
  BY DEF Asked
<1>1. CASE asked.op = "read"
  <2>1. Asked = [op |-> "read", at |-> asked.at]
    BY <1>1 DEF Asked
  <2>2. asked.at \in Places \cup BackLoc /\ (asked.at \notin HostLoc => asked.core \in Core)
    BY <1>1, AddressesAssumption DEF Requests, Places, PlaceSeen, HostLoc
  <2>3. Asked \in Memory!Request
    BY <2>1, <2>2 DEF Memory!Request, Places, HostLoc
  <2>4. Asked # None
    BY <2>3, NoneAssumption
  <2>5. asked.at \notin HostLoc => asked.at \in PlaceSeen
    BY <2>2 DEF Places, HostLoc
  <2>6. QED BY <1>1, <2>1, <2>2, <2>3, <2>4, <2>5
<1>2. CASE asked.op = "write"
  <2>1. Asked = [op |-> "write", at |-> asked.at, val |-> asked.val]
    BY <1>2 DEF Asked
  <2>2. /\ asked.at \in Places \cup BackLoc /\ asked.val \in Val
        /\ asked.at \notin HostLoc => asked.core \in Core
    BY <1>2, AddressesAssumption DEF Requests, Places, PlaceSeen, HostLoc
  <2>3. Asked \in Memory!Request
    BY <2>1, <2>2 DEF Memory!Request, Places, HostLoc
  <2>4. Asked # None
    BY <2>3, NoneAssumption
  <2>5. asked.at \notin HostLoc => asked.at \in PlaceSeen
    BY <2>2 DEF Places, HostLoc
  <2>6. QED BY <1>2, <2>1, <2>2, <2>3, <2>4, <2>5
<1>3. CASE asked.op \notin {"read", "write"}
  <2>1. Asked = [op |-> asked.op] /\ asked.op \in {"bad", "trace", "kill", "resume"}
    BY <1>3 DEF Asked, Requests
  <2>2. Asked \in Memory!Request
    BY <2>1 DEF Memory!Request
  <2>3. QED BY <1>3, <2>1, <2>2, NoneAssumption
<1>4. QED BY <1>1, <1>2, <1>3

Under == mode = "gdb_server" /\ ServerTypes /\ Stages /\ Queue /\ OneAnswer

MemoryStep == Memory!Next \/ UNCHANGED Memory!vars

LEMMA FoundNext ==
  Under' =>
    /\ pc' # "poll" => Found' = None
    /\ pc' = "poll" =>
         /\ \A i \in DOMAIN answers' : answers'[i].to = await' => Found' = answers'[i].val
         /\ (\A i \in DOMAIN answers' : answers'[i].to # await') =>
              Found' = IF Stored(await)' THEN hostMem'[await'] ELSE None
<1>1. (mode = "gdb_server" /\ ServerTypes /\ Stages /\ OneAnswer =>
         /\ pc # "poll" => Found = None
         /\ pc = "poll" =>
              /\ \A i \in DOMAIN answers : answers[i].to = await => Found = answers[i].val
              /\ (\A i \in DOMAIN answers : answers[i].to # await) =>
                   Found = IF Stored(await) THEN hostMem[await] ELSE None)'
  BY FoundIs, PTL
<1>2. QED BY <1>1 DEF Under

LEMMA Unseen == Under => Clear
<1> SUFFICES ASSUME Under PROVE Clear
  OBVIOUS
<1>1. await \notin Places
  BY Apart DEF Under, Stages, Places
<1>2. ASSUME NEW l \in BackLoc PROVE Seen(l) = "zero"
  <2>1. ~Stored(l) \/ l = await
    BY DEF Under, OneAnswer, Stored
  <2>2. QED BY <2>1 DEF Seen, HostLoc, HostValue
<1>3. QED BY <1>1, <1>2 DEF Clear

LEMMA UnseenNext == Under' => Clear'
<1>1. (Under => Clear)'
  BY Unseen, PTL
<1>2. QED BY <1>1

LEMMA FoundSame ==
  ASSUME Under, Under', UNCHANGED <<pc, await, answers, hostMem>>
  PROVE  Found' = Found
<1>1. CASE pc # "poll"
  BY <1>1, FoundIs, FoundNext DEF Under
<1>2. CASE pc = "poll" /\ \E i \in DOMAIN answers : answers[i].to = await
  <2>1. PICK i \in DOMAIN answers : answers[i].to = await
    BY <1>2
  <2>2. QED BY <1>2, <2>1, FoundIs, FoundNext DEF Under
<1>3. CASE pc = "poll" /\ \A i \in DOMAIN answers : answers[i].to # await
  BY <1>3, FoundIs, FoundNext DEF Under, Stored
<1>4. QED BY <1>1, <1>2, <1>3

LEMMA Stutter ==
  ASSUME SeenMemory' = SeenMemory, Asked' = Asked, Found' = Found, UNCHANGED <<answer, serving>>
  PROVE  MemoryStep
BY DEF MemoryStep, Memory!vars

LEMMA AskedSame == ASSUME UNCHANGED asked PROVE Asked' = Asked
BY DEF Asked

-----------------------------------------------------------------------------
(* The port and the programs.                                              *)

\* What is at the head of a sequence, and what follows.
LEMMA Followed ==
  ASSUME NEW S, NEW s \in Seq(S), s # <<>>
  PROVE  /\ Len(s) \in Nat \ {0} /\ DOMAIN s = 1 .. Len(s)
         /\ Head(s) = s[1] /\ s[1] \in S
         /\ Tail(s) \in Seq(S) /\ Len(Tail(s)) = Len(s) - 1 /\ DOMAIN Tail(s) = 1 .. Len(s) - 1
         /\ \A i \in DOMAIN Tail(s) : i + 1 \in DOMAIN s /\ Tail(s)[i] = s[i + 1]
<1>1. Len(s) \in Nat \ {0} /\ DOMAIN s = 1 .. Len(s)
  BY LenProperties, EmptySeq
<1>2. /\ Tail(s) \in Seq(S) /\ Len(Tail(s)) = Len(s) - 1
      /\ \A i \in 1 .. Len(Tail(s)) : Tail(s)[i] = s[i + 1]
  BY HeadTailProperties
<1>3. DOMAIN Tail(s) = 1 .. Len(s) - 1
  BY <1>2, LenProperties
<1>4. Head(s) = s[1] /\ s[1] \in S
  BY <1>1
<1>5. QED BY <1>1, <1>2, <1>3, <1>4

LEMMA Appended ==
  ASSUME NEW S, NEW s \in Seq(S), NEW e \in S
  PROVE  /\ Append(s, e) \in Seq(S) /\ Len(s) \in Nat /\ DOMAIN s = 1 .. Len(s)
         /\ Len(Append(s, e)) = Len(s) + 1 /\ DOMAIN Append(s, e) = 1 .. Len(s) + 1
         /\ Append(s, e)[Len(s) + 1] = e
         /\ \A i \in DOMAIN s : i \in DOMAIN Append(s, e) /\ Append(s, e)[i] = s[i]
BY AppendProperties, LenProperties

\* A write goes into the chip: the debugger has seen it already.
LEMMA DeliverWrite ==
  ASSUME Under, Deliver, stimulusArray[1].write
  PROVE  Under' /\ MemoryStep
<1>1. PICK q : q = stimulusArray
  OBVIOUS
<1>2. PICK n : n = Len(q)
  OBVIOUS
<1>3. PICK e : e = q[1]
  OBVIOUS
<1>4. /\ n \in Nat \ {0} /\ DOMAIN q = 1 .. n /\ e \in Entry /\ Head(q) = e
      /\ Tail(q) \in Seq(Entry) /\ Len(Tail(q)) = n - 1 /\ DOMAIN Tail(q) = 1 .. n - 1
      /\ \A i \in DOMAIN Tail(q) : i + 1 \in DOMAIN q /\ Tail(q)[i] = q[i + 1]
  BY <1>1, <1>2, <1>3, Followed DEF Under, ServerTypes, Deliver
<1>5. /\ stimulusArray' = Tail(q) /\ chip' = [chip EXCEPT ![e.place] = e.val]
      /\ UNCHANGED <<answers, hostMem, mode, pc, await, asked, answer, serving, stopped>>
  BY <1>1, <1>3, <1>4
  DEF Deliver, PortStep, serverVars, stdioVars
<1>6. e.write /\ e.place \in PlaceSeen /\ e.val \in Val
  BY <1>1, <1>3, <1>4, EntryIs
<1>7. \A i \in 1 .. n - 1 : i + 1 # 1 /\ i + 1 \in DOMAIN q
  BY <1>4
\* No other write follows in the queue.
<1>8. \A i \in DOMAIN stimulusArray' :
        ~stimulusArray'[i].write /\ stimulusArray'[i] = q[i + 1] /\ i + 1 \in DOMAIN q
  BY <1>1, <1>4, <1>5, <1>7 DEF Under, Queue
<1>9. ServerTypes'
  <2>1. DOMAIN chip' = Place /\ \A l \in PlaceSeen : chip'[l] \in Val
    BY <1>5, <1>6, Apart DEF Under, ServerTypes
  <2>2. QED BY <1>4, <1>5, <2>1 DEF Under, ServerTypes
<1>10. Stages'
  BY <1>5 DEF Under, Stages
<1>11. Queue'
  <2> SUFFICES ASSUME NEW i \in DOMAIN stimulusArray'
               PROVE  /\ i = Len(stimulusArray') /\ pc = "poll"
                      /\ stimulusArray'[i].place = asked.at /\ stimulusArray'[i].back = await
    BY <1>5, <1>8 DEF Queue
  <2>1. i \in 1 .. n - 1 /\ ~q[i + 1].write /\ i + 1 \in DOMAIN q /\ stimulusArray'[i] = q[i + 1]
    BY <1>4, <1>5, <1>8
  <2>2. i + 1 = n /\ pc = "poll" /\ q[i + 1].place = asked.at /\ q[i + 1].back = await
    BY <1>1, <1>2, <2>1 DEF Under, Queue
  <2>3. QED BY <1>4, <1>5, <2>1, <2>2
<1>12. ReadQueued' => ReadQueued
  BY <1>1, <1>8 DEF ReadQueued
<1>13. OneAnswer'
  BY <1>5, <1>12 DEF Under, OneAnswer, Stored
<1>14. Under'
  BY <1>5, <1>9, <1>10, <1>11, <1>13 DEF Under
<1>15. \A l \in Places : Seen(l)' = Seen(l)
  <2>1. (ServerTypes /\ Stages /\ Queue) /\ (ServerTypes /\ Stages /\ Queue)'
    BY <1>9, <1>10, <1>11 DEF Under
  <2>2. /\ \A l \in OwnLoc : Seen(l)' = HostValue(l)'
        /\ \A l \in PlaceSeen : Seen(l)' = chip'[l]
    BY <1>8, <2>1, SeenNext
  <2>3. \A l \in OwnLoc : HostValue(l)' = HostValue(l)
    BY <1>5 DEF HostValue, Stored
  <2>4. Seen(e.place) = e.val
    BY <1>1, <1>3, <1>4, <1>6, <2>1, SeenIs
  <2>5. ASSUME NEW l \in PlaceSeen, l # e.place PROVE Seen(l) = chip[l]
    <3>1. \A i \in DOMAIN stimulusArray :
            ~(stimulusArray[i].write /\ stimulusArray[i].place = l)
      BY <1>1, <1>3, <2>1, <2>5 DEF Queue
    <3>2. QED BY <2>1, <3>1, SeenIs
  <2>6. \A l \in PlaceSeen : chip'[l] = IF l = e.place THEN e.val ELSE chip[l]
    BY <1>5, Apart DEF Under, ServerTypes
  <2>7. QED BY <2>1, <2>2, <2>3, <2>4, <2>5, <2>6, SeenIs DEF Places
<1>16. SeenMemory' = SeenMemory
  BY <1>5, <1>14, <1>15, MemorySame, Unseen, UnseenNext
<1>17. Found' = Found
  BY <1>5, <1>14, FoundSame
<1>18. Asked' = Asked
  BY <1>5, AskedSame
<1>19. QED BY <1>5, <1>14, <1>16, <1>17, <1>18, Stutter

LEMMA AnswerTyped ==
  ASSUME ServerTypes, NEW i \in DOMAIN answers
  PROVE  answers[i] \in [to : OwnLoc \cup BackLoc, val : Val]
<1> DEFINE S == [to : OwnLoc \cup BackLoc, val : Val]
<1>1. answers \in Seq(S)
  BY DEF ServerTypes
<1> HIDE DEF S
<1>2. i \in 1 .. Len(answers)
  BY <1>1, LenProperties
<1>3. answers[i] \in S
  BY <1>1, <1>2, ElementOfSeq
<1>4. QED BY <1>3 DEF S

LEMMA SeenSame ==
  ASSUME Clear, Clear', UNCHANGED <<mode, stimulusArray, chip, hostMem>>
  PROVE  SeenMemory' = SeenMemory
<1>1. \A l \in Places : Seen(l)' = Seen(l)
  BY DEF Clear, Seen, HostValue, Stored
<1>2. QED BY <1>1, MemorySame

\* A place that no write in the queue is for is as the chip has it.
LEMMA NothingWritten ==
  ServerTypes /\ Stages /\ Queue /\ (\A i \in DOMAIN stimulusArray : ~stimulusArray[i].write) =>
    \A l \in PlaceSeen : Seen(l) = chip[l]
BY SeenIs

\* An answer that is not there has not been found.
LEMMA NotFound ==
  mode = "gdb_server" /\ ServerTypes /\ Stages /\ OneAnswer =>
    (pc = "poll" /\ (\A i \in DOMAIN answers : answers[i].to # await) /\ ~Stored(await) =>
       Found = None)
BY FoundIs

\* The read that is polled for goes into the chip, and is answered or lost.
LEMMA DeliverRead ==
  ASSUME Under, Deliver, ~stimulusArray[1].write
  PROVE  Under' /\ MemoryStep
<1>1. PICK e : e = stimulusArray[1]
  OBVIOUS
<1>2. /\ e \in Entry /\ Head(stimulusArray) = e /\ Len(stimulusArray) \in Nat \ {0}
      /\ 1 \in DOMAIN stimulusArray /\ DOMAIN Tail(stimulusArray) = 1 .. Len(stimulusArray) - 1
      /\ Tail(stimulusArray) \in Seq(Entry)
  BY <1>1, Followed DEF Under, ServerTypes, Deliver
<1>3. /\ Len(stimulusArray) = 1 /\ pc = "poll" /\ e.place = asked.at /\ e.back = await
  BY <1>1, <1>2 DEF Under, Queue
<1>4. /\ ~e.write /\ e.place \in PlaceSeen /\ await \in BackLoc
      /\ asked # None /\ asked.op = "read"
  BY <1>1, <1>2, <1>3, EntryIs DEF Under, Stages
<1>5. /\ stimulusArray' = Tail(stimulusArray)
      /\ UNCHANGED <<chip, hostMem, mode, pc, await, asked, answer, serving, stopped>>
      /\ \/ answers' = Append(answers, [to |-> await, val |-> chip[asked.at]])
         \/ UNCHANGED answers
  BY <1>1, <1>2, <1>3, <1>4 DEF Deliver, PortStep, serverVars, stdioVars
<1>6. DOMAIN stimulusArray' = {}
  BY <1>2, <1>3, <1>5
<1>7. /\ ReadQueued /\ ~ReadQueued'
      /\ \A i \in DOMAIN stimulusArray : ~stimulusArray[i].write
  <2>1. DOMAIN stimulusArray = {1}
    BY <1>2, <1>3 DEF Under, ServerTypes
  <2>2. QED BY <1>1, <1>4, <1>6, <2>1 DEF ReadQueued
<1>8. ~Stored(await) /\ \A i \in DOMAIN answers : answers[i].to \in OwnLoc
  <2>1. \A i \in DOMAIN answers : answers[i] \in [to : OwnLoc \cup BackLoc, val : Val]
    BY AnswerTyped DEF Under
  <2>2. \A i \in DOMAIN answers : answers[i].to \notin BackLoc
    BY <1>7 DEF Under, OneAnswer
  <2>3. ~Stored(await)
    BY <1>4, <1>7 DEF Under, OneAnswer, Stored
  <2>4. QED BY <2>1, <2>2, <2>3
<1>9. chip[asked.at] \in Val
  BY <1>3, <1>4 DEF Under, ServerTypes
<1>10. [to |-> await, val |-> chip[asked.at]] \in [to : OwnLoc \cup BackLoc, val : Val]
  BY <1>4, <1>9
<1>11. /\ Len(answers) \in Nat /\ DOMAIN answers = 1 .. Len(answers)
       /\ answers \in Seq([to : OwnLoc \cup BackLoc, val : Val])
  BY LenProperties DEF Under, ServerTypes
<1>12. CASE answers' = Append(answers, [to |-> await, val |-> chip[asked.at]])
  <2>1. /\ answers' \in Seq([to : OwnLoc \cup BackLoc, val : Val])
        /\ DOMAIN answers' = 1 .. Len(answers) + 1
        /\ answers'[Len(answers) + 1] = [to |-> await, val |-> chip[asked.at]]
        /\ \A i \in DOMAIN answers : answers'[i] = answers[i]
    BY <1>10, <1>11, <1>12, Appended
  <2>2. \A i \in DOMAIN answers' : i \in DOMAIN answers \/ i = Len(answers) + 1
    BY <1>11, <2>1
  <2>3. \A i \in DOMAIN answers' : answers'[i].to \in BackLoc => i = Len(answers) + 1
    BY <1>8, <2>1, <2>2, Apart
  <2>4. ServerTypes'
    BY <1>2, <1>5, <2>1 DEF Under, ServerTypes
  <2>5. Stages'
    BY <1>5 DEF Under, Stages
  <2>6. Queue'
    BY <1>6 DEF Queue
  <2>7. OneAnswer'
    <3>1. ASSUME NEW i \in DOMAIN answers', answers'[i].to \in BackLoc
          PROVE  /\ pc' = "poll" /\ answers'[i].to = await' /\ ~ReadQueued' /\ ~Stored(await)'
                 /\ \A j \in DOMAIN answers' : answers'[j].to \in BackLoc => j = i
      BY <1>3, <1>5, <1>7, <1>8, <2>1, <2>3, <3>1 DEF Stored
    <3>2. \A a \in DOMAIN hostMem' : a \in BackLoc => pc' = "poll" /\ a = await' /\ ~ReadQueued'
      BY <1>5, <1>7 DEF Under, OneAnswer
    <3>3. QED BY <3>1, <3>2 DEF OneAnswer
  <2>8. Under'
    BY <1>5, <2>4, <2>5, <2>6, <2>7 DEF Under
  <2>9. Found = None
    BY <1>3, <1>4, <1>8, Apart, NotFound DEF Under
  <2>10. Found' = chip[asked.at]
    <3>1. Len(answers) + 1 \in DOMAIN answers'
      BY <1>11, <2>1
    <3>2. QED BY <1>3, <1>5, <2>1, <2>8, <3>1, FoundNext
  <2>11. \A l \in PlaceSeen : Seen(l) = chip[l] /\ Seen(l)' = chip[l]
    <3>1. \A l \in PlaceSeen : Seen(l)' = chip'[l]
      BY <1>6, <2>4, <2>5, <2>6, SeenNext
    <3>2. QED BY <1>5, <1>7, <3>1, NothingWritten DEF Under
  <2>12. \A l \in OwnLoc : Seen(l)' = Seen(l)
    BY <1>5 DEF Seen, HostLoc, HostValue, Stored
  <2>13. SeenMemory' = SeenMemory
    BY <1>5, <2>8, <2>11, <2>12, MemorySame, Unseen, UnseenNext DEF Places
  <2>14. asked \in Requests \cup {None}
    BY DEF Under, ServerTypes
  <2>15. Asked # None /\ Asked.op = "read" /\ Asked.at = asked.at
    BY <1>4, <2>14, AskedIs
  <2>16. SeenMemory[asked.at] = chip[asked.at]
    BY <1>3, <1>4, <2>11, MemoryHas DEF Under, Places
  <2>17. Memory!LookUp
    BY <1>5, <2>9, <2>10, <2>13, <2>15, <2>16, AskedSame DEF Memory!LookUp
  <2>18. QED BY <2>8, <2>17 DEF MemoryStep, Memory!Next
<1>13. CASE UNCHANGED answers
  <2>1. ServerTypes'
    BY <1>2, <1>5, <1>13 DEF Under, ServerTypes
  <2>2. Stages'
    BY <1>5 DEF Under, Stages
  <2>3. Queue'
    BY <1>6 DEF Queue
  <2>4. OneAnswer'
    BY <1>5, <1>7, <1>13 DEF Under, OneAnswer, Stored
  <2>5. \A l \in PlaceSeen : Seen(l) = chip[l] /\ Seen(l)' = chip[l]
    <3>1. \A l \in PlaceSeen : Seen(l)' = chip'[l]
      BY <1>6, <2>1, <2>2, <2>3, SeenNext
    <3>2. QED BY <1>5, <1>7, <3>1, NothingWritten DEF Under
  <2>6. \A l \in OwnLoc : Seen(l)' = Seen(l)
    BY <1>5 DEF Seen, HostLoc, HostValue, Stored
  <2>7. Under'
    BY <1>5, <2>1, <2>2, <2>3, <2>4 DEF Under
  <2>8. SeenMemory' = SeenMemory
    BY <1>5, <2>5, <2>6, <2>7, MemorySame, Unseen, UnseenNext DEF Places
  <2>9. Found' = Found
    BY <1>5, <1>13, <2>7, FoundSame
  <2>10. QED BY <1>5, <2>7, <2>8, <2>9, AskedSame, Stutter
<1>14. QED BY <1>5, <1>12, <1>13

\* What the host memory has of a place, and what of it an answer to a read is.
LEMMA StoreIs ==
  ASSUME NEW a, NEW v, hostMem' = Store(a, v)
  PROVE  /\ DOMAIN hostMem' = DOMAIN hostMem \cup {a} /\ hostMem'[a] = v
         /\ \A b \in DOMAIN hostMem : b # a => hostMem'[b] = hostMem[b]
         /\ \A b : Stored(b)' <=> b = a \/ Stored(b)
         /\ \A b : HostValue(b)' = IF b = a THEN v ELSE HostValue(b)
<1>1. /\ DOMAIN hostMem' = DOMAIN hostMem \cup {a} /\ hostMem'[a] = v
      /\ \A b \in DOMAIN hostMem : b # a => hostMem'[b] = hostMem[b]
  BY DEF Store
<1>2. \A b : Stored(b)' <=> b = a \/ Stored(b)
  BY <1>1 DEF Stored
<1>3. \A b : HostValue(b)' = IF b = a THEN v ELSE HostValue(b)
  BY <1>1 DEF HostValue, Stored
<1>4. QED BY <1>1, <1>2, <1>3

LEMMA StoreTyped ==
  ASSUME Under, NEW a \in OwnLoc \cup BackLoc, NEW v \in Val, hostMem' = Store(a, v)
  PROVE  \A b \in DOMAIN hostMem' : b \in OwnLoc \cup BackLoc /\ hostMem'[b] \in Val
<1>1. /\ DOMAIN hostMem' = DOMAIN hostMem \cup {a} /\ hostMem'[a] = v
      /\ \A b \in DOMAIN hostMem : b # a => hostMem'[b] = hostMem[b]
  BY StoreIs
<1>2. \A b \in DOMAIN hostMem : b \in OwnLoc \cup BackLoc /\ hostMem[b] \in Val
  BY DEF Under, ServerTypes
<1>3. QED BY <1>1, <1>2

\* The host memory is the debugger's own, in its part of it.
LEMMA SeenStored ==
  ASSUME UNCHANGED <<mode, stimulusArray, chip>>, mode = "gdb_server", Clear, Clear',
         NEW a, NEW v, hostMem' = Store(a, v)
  PROVE  /\ a \in OwnLoc => SeenMemory' = [SeenMemory EXCEPT ![a] = v]
         /\ a \notin OwnLoc => SeenMemory' = SeenMemory
<1>1. \A l \in PlaceSeen : l \notin HostLoc /\ l # await /\ l # await'
  BY DebugHostAssumption DEF Clear, Places, HostLoc, OwnLoc, BackLoc, PlaceSeen
<1>2. \A l \in PlaceSeen : Seen(l)' = Seen(l)
  BY <1>1 DEF Seen
<1>3. \A l \in OwnLoc : l \in HostLoc /\ l # await /\ l # await'
  BY DEF Clear, Places, HostLoc
<1>4. \A l \in OwnLoc : Seen(l)' = IF l = a THEN v ELSE Seen(l)
  BY <1>3, StoreIs DEF Seen
<1>5. CASE a \in OwnLoc
  <2>1. \A l \in Places : Seen(l)' = IF l = a THEN v ELSE Seen(l)
    BY <1>2, <1>4, <1>5, Apart DEF Places
  <2>2. a \in Places
    BY <1>5 DEF Places
  <2>3. SeenMemory' = [SeenMemory EXCEPT ![a] = v]
    BY <2>1, <2>2, MemoryPut
  <2>4. QED BY <1>5, <2>3
<1>6. CASE a \notin OwnLoc
  <2>1. \A l \in Places : Seen(l)' = Seen(l)
    BY <1>2, <1>4, <1>6 DEF Places
  <2>2. QED BY <1>6, <2>1, MemorySame
<1>7. QED BY <1>5, <1>6

LEMMA ProgramChanges ==
  ASSUME NEW l \in Places \cup BackLoc, NEW v \in Val, SeenMemory' = [SeenMemory EXCEPT ![l] = v],
         Asked' = Asked, Found' = Found, UNCHANGED <<answer, serving>>
  PROVE  MemoryStep
<1>1. Memory!Program
  BY DEF Memory!Program, Places, HostLoc
<1>2. QED BY <1>1 DEF MemoryStep, Memory!Next

\* An answer of the chip, or what a program writes for the host, arrives.
LEMMA SampleStep ==
  ASSUME Under, Sample
  PROVE  Under' /\ MemoryStep
<1>1. PICK q : q = answers
  OBVIOUS
<1>2. PICK n : n = Len(q)
  OBVIOUS
<1>3. PICK e : e = q[1]
  OBVIOUS
<1>4. /\ n \in Nat \ {0} /\ DOMAIN q = 1 .. n /\ 1 \in DOMAIN q /\ Head(q) = e
      /\ e \in [to : OwnLoc \cup BackLoc, val : Val]
      /\ Tail(q) \in Seq([to : OwnLoc \cup BackLoc, val : Val]) /\ DOMAIN Tail(q) = 1 .. n - 1
      /\ \A i \in DOMAIN Tail(q) : i + 1 \in DOMAIN q /\ Tail(q)[i] = q[i + 1]
  <2>1. q \in Seq([to : OwnLoc \cup BackLoc, val : Val]) /\ q # <<>>
    BY <1>1 DEF Under, ServerTypes, Sample
  <2> DEFINE S == [to : OwnLoc \cup BackLoc, val : Val]
  <2> HIDE DEF S
  <2>2. q \in Seq(S)
    BY <2>1 DEF S
  <2>3. /\ n \in Nat \ {0} /\ DOMAIN q = 1 .. n /\ Head(q) = e /\ e \in S
        /\ Tail(q) \in Seq(S) /\ DOMAIN Tail(q) = 1 .. n - 1
        /\ \A i \in DOMAIN Tail(q) : i + 1 \in DOMAIN q /\ Tail(q)[i] = q[i + 1]
    BY <1>2, <1>3, <2>1, <2>2, Followed
  <2>4. 1 \in DOMAIN q
    BY <2>3
  <2>5. QED BY <2>3, <2>4 DEF S
<1>5. /\ answers' = Tail(q) /\ hostMem' = Store(e.to, e.val)
      /\ UNCHANGED <<stimulusArray, chip, mode, pc, await, asked, answer, serving, stopped>>
  BY <1>1, <1>4 DEF Sample, PortStep, serverVars, stdioVars
<1>6. e.to \in OwnLoc \cup BackLoc /\ e.val \in Val
  BY <1>4
<1>7. \A i \in DOMAIN answers' : i + 1 \in DOMAIN q /\ i + 1 # 1 /\ answers'[i] = q[i + 1]
  BY <1>4, <1>5
<1>8. ServerTypes'
  <2>1. \A b \in DOMAIN hostMem' : b \in OwnLoc \cup BackLoc /\ hostMem'[b] \in Val
    BY <1>5, <1>6, StoreTyped
  <2>2. QED BY <1>4, <1>5, <2>1 DEF Under, ServerTypes
<1>9. Stages' /\ Queue'
  BY <1>5 DEF Under, Stages, Queue
<1>10. ReadQueued' <=> ReadQueued
  BY <1>5 DEF ReadQueued
<1>11. \A b : Stored(b)' <=> b = e.to \/ Stored(b)
  BY <1>5, StoreIs
<1>12. Under' => SeenMemory' = IF e.to \in OwnLoc THEN [SeenMemory EXCEPT ![e.to] = e.val]
                               ELSE SeenMemory
  BY <1>5, SeenStored, Unseen, UnseenNext DEF Under
<1>13. Asked' = Asked
  BY <1>5, AskedSame
<1>14. CASE e.to \in OwnLoc
  <2>1. e.to \notin BackLoc
    BY <1>14, Apart
  <2>2. \A i \in DOMAIN answers' : answers'[i].to \in BackLoc =>
          /\ pc' = "poll" /\ answers'[i].to = await' /\ ~ReadQueued' /\ ~Stored(await)'
          /\ \A j \in DOMAIN answers' : answers'[j].to \in BackLoc => j = i
    <3> SUFFICES ASSUME NEW i \in DOMAIN answers', answers'[i].to \in BackLoc
                 PROVE  /\ pc = "poll" /\ answers'[i].to = await /\ ~ReadQueued
                        /\ ~Stored(await)'
                        /\ \A j \in DOMAIN answers' : answers'[j].to \in BackLoc => j = i
      BY <1>5, <1>10
    <3>1. /\ pc = "poll" /\ q[i + 1].to = await /\ ~ReadQueued /\ ~Stored(await)
          /\ \A j \in DOMAIN q : q[j].to \in BackLoc => j = i + 1
      BY <1>1, <1>7 DEF Under, OneAnswer
    <3>2. \A j \in DOMAIN answers' : answers'[j].to \in BackLoc => j + 1 = i + 1
      BY <1>7, <3>1
    <3>3. \A j \in DOMAIN answers' : j \in Nat
      BY <1>4, <1>5
    <3>4. await # e.to
      BY <1>7, <2>1, <3>1
    <3>5. ~Stored(await)'
      BY <1>5, <1>11, <3>1, <3>4 DEF Stored
    <3>6. QED BY <1>7, <3>1, <3>2, <3>3, <3>5
  <2>3. \A a \in DOMAIN hostMem' : a \in BackLoc => pc' = "poll" /\ a = await' /\ ~ReadQueued'
    <3>1. \A a \in DOMAIN hostMem' : a \in BackLoc => a \in DOMAIN hostMem
      BY <1>11, <2>1 DEF Stored
    <3>2. QED BY <1>5, <1>10, <3>1 DEF Under, OneAnswer
  <2>4. Under'
    BY <1>5, <1>8, <1>9, <2>2, <2>3 DEF Under, OneAnswer
  <2>5. Found' = Found
    <3>1. CASE pc # "poll"
      BY <1>5, <2>4, <3>1, FoundIs, FoundNext DEF Under
    <3>2. CASE pc = "poll" /\ \E i \in DOMAIN answers' : answers'[i].to = await
      <4>1. PICK i \in DOMAIN answers' : answers'[i].to = await
        BY <3>2
      <4>2. Found' = answers'[i].val
        BY <1>5, <2>4, <3>2, <4>1, FoundNext
      <4>3. Found = q[i + 1].val
        BY <1>1, <1>7, <3>2, <4>1, FoundIs DEF Under
      <4>4. QED BY <1>7, <4>1, <4>2, <4>3
    <3>3. CASE pc = "poll" /\ \A i \in DOMAIN answers' : answers'[i].to # await
      <4>1. await \in BackLoc /\ await # e.to
        BY <2>1, <3>3 DEF Under, Stages
      <4>2. Found' = IF Stored(await)' THEN hostMem'[await] ELSE None
        BY <1>5, <2>4, <3>3, FoundNext
      <4>3. \A i \in DOMAIN q : i = 1 \/ (i - 1 \in DOMAIN answers' /\ answers'[i - 1] = q[i])
        <5> SUFFICES ASSUME NEW i \in 1 .. n, i # 1
                     PROVE  i - 1 \in DOMAIN answers' /\ answers'[i - 1] = q[i]
          BY <1>4
        <5>1. i - 1 \in 1 .. n - 1 /\ (i - 1) + 1 = i
          BY <1>4
        <5>2. QED BY <1>4, <1>5, <5>1
      <4>4. \A i \in DOMAIN q : q[i].to # await
        BY <1>3, <3>3, <4>1, <4>3
      <4>5. Found = IF Stored(await) THEN hostMem[await] ELSE None
        BY <1>1, <3>3, <4>4, FoundIs DEF Under
      <4>6. Stored(await) => hostMem'[await] = hostMem[await]
        BY <1>5, <4>1, StoreIs DEF Stored
      <4>7. Stored(await)' <=> Stored(await)
        BY <1>5, <1>11, <4>1 DEF Stored
      <4>8. QED BY <4>2, <4>5, <4>6, <4>7
    <3>4. QED BY <3>1, <3>2, <3>3
  <2>6. e.to \in Places
    BY <1>14 DEF Places
  <2>7. QED BY <1>5, <1>6, <1>12, <1>13, <1>14, <2>4, <2>5, <2>6, ProgramChanges
<1>15. CASE e.to \in BackLoc
  <2>1. /\ pc = "poll" /\ e.to = await /\ ~ReadQueued /\ ~Stored(await)
        /\ \A j \in DOMAIN q : q[j].to \in BackLoc => j = 1
    BY <1>1, <1>3, <1>4, <1>15 DEF Under, OneAnswer
  <2>2. \A i \in DOMAIN answers' : answers'[i].to \notin BackLoc
    BY <1>7, <2>1
  <2>3. \A a \in DOMAIN hostMem' : a \in BackLoc => a = await
    BY <1>11, <2>1 DEF Under, OneAnswer, Stored
  <2>4. OneAnswer'
    BY <1>5, <1>10, <2>1, <2>2, <2>3 DEF OneAnswer
  <2>5. Under'
    BY <1>5, <1>8, <1>9, <2>4 DEF Under
  <2>6. Found = e.val
    BY <1>1, <1>3, <1>4, <2>1, FoundIs DEF Under
  <2>7. Found' = e.val
    <3>1. \A i \in DOMAIN answers' : answers'[i].to # await'
      BY <1>5, <1>15, <2>1, <2>2
    <3>2. Found' = IF Stored(await)' THEN hostMem'[await'] ELSE None
      BY <1>5, <2>1, <2>5, <3>1, FoundNext
    <3>3. hostMem'[e.to] = e.val /\ e.to \in DOMAIN hostMem'
      BY <1>5, StoreIs
    <3>4. await' = e.to
      BY <1>5, <2>1
    <3>5. Stored(await)' /\ hostMem'[await'] = e.val
      BY <3>3, <3>4 DEF Stored
    <3>6. QED BY <3>2, <3>5
  <2>8. SeenMemory' = SeenMemory
    BY <1>12, <1>15, <2>5, Apart
  <2>9. QED BY <1>5, <1>13, <2>5, <2>6, <2>7, <2>8, Stutter
<1>16. QED BY <1>6, <1>14, <1>15

\* A program writes its own memory, unseen if a write in the queue is for it.
LEMMA ProgramsOwn ==
  ASSUME Under, Program, NEW k \in PlaceSeen, NEW v \in Val,
         chip' = [chip EXCEPT ![k] = v], UNCHANGED answers
  PROVE  Under' /\ MemoryStep
<1>1. UNCHANGED <<mode, stimulusArray, answers, hostMem, pc, await, asked, answer, serving,
                  stopped>>
  BY DEF Program, ProgramStep, stdioVars
<1>2. Stages' /\ Queue' /\ OneAnswer'
  BY <1>1 DEF Under, Stages, Queue, OneAnswer, ReadQueued, Stored
<1>3. k \in Places /\ k \notin HostLoc /\ k # await
  <2>1. await \notin Places
    BY Unseen DEF Clear
  <2>2. QED BY <2>1, Apart DEF Places, HostLoc
<1>4. DOMAIN chip' = Place /\ \A l \in PlaceSeen : chip'[l] = IF l = k THEN v ELSE chip[l]
  BY Apart DEF Under, ServerTypes
<1>5. ServerTypes'
  BY <1>1, <1>4 DEF Under, ServerTypes
<1>6. Under'
  BY <1>1, <1>2, <1>5 DEF Under
<1>7. Found' = Found
  BY <1>1, <1>6, FoundSame
<1>8. Asked' = Asked
  BY <1>1, AskedSame
<1>9. \A l \in Places : l # k => Seen(l)' = Seen(l)
  <2>1. \A l \in OwnLoc : Seen(l)' = Seen(l)
    BY <1>1 DEF Seen, HostLoc, HostValue, Stored
  <2>2. \A l \in PlaceSeen : l # k => chip'[l] = chip[l]
    BY <1>4
  <2>3. \A l \in PlaceSeen : l # k => Seen(l)' = Seen(l)
    BY <1>1, <2>2, Apart DEF Seen, HostLoc
  <2>4. QED BY <2>1, <2>3 DEF Places
<1>10. CASE \E i \in DOMAIN stimulusArray : stimulusArray[i].write /\ stimulusArray[i].place = k
  <2>1. {i \in DOMAIN stimulusArray : stimulusArray[i].write /\ stimulusArray[i].place = k} # {}
    BY <1>10
  <2>2. Seen(k)' = Seen(k)
    BY <1>1, <1>3, <2>1 DEF Seen
  <2>3. SeenMemory' = SeenMemory
    BY <1>1, <1>6, <1>9, <2>2, MemorySame, Unseen, UnseenNext
  <2>4. QED BY <1>1, <1>6, <1>7, <1>8, <2>3, Stutter
<1>11. CASE \A i \in DOMAIN stimulusArray :
              ~(stimulusArray[i].write /\ stimulusArray[i].place = k)
  <2>1. {i \in DOMAIN stimulusArray : stimulusArray[i].write /\ stimulusArray[i].place = k} = {}
    BY <1>11
  <2>2. Seen(k)' = chip'[k]
    BY <1>1, <1>3, <2>1 DEF Seen
  <2>3. \A l \in Places : Seen(l)' = IF l = k THEN v ELSE Seen(l)
    BY <1>4, <1>9, <2>2
  <2>4. SeenMemory' = [SeenMemory EXCEPT ![k] = v]
    BY <1>1, <1>3, <1>6, <2>3, MemoryPut, Unseen, UnseenNext DEF Under
  <2>5. QED BY <1>1, <1>3, <1>6, <1>7, <1>8, <2>4, ProgramChanges
<1>12. QED BY <1>10, <1>11

\* What a program writes for the host is seen when it has arrived.
LEMMA ProgramsHost ==
  ASSUME Under, Program, NEW k \in OwnLoc, NEW v \in Val,
         answers' = Append(answers, [to |-> k, val |-> v]), UNCHANGED chip
  PROVE  Under' /\ MemoryStep
<1>1. UNCHANGED <<mode, stimulusArray, chip, hostMem, pc, await, asked, answer, serving, stopped>>
  BY DEF Program, ProgramStep, stdioVars
<1>2. PICK e : e = [to |-> k, val |-> v]
  OBVIOUS
<1>3. /\ e \in [to : OwnLoc \cup BackLoc, val : Val] /\ e.to \in OwnLoc
      /\ e.to \notin BackLoc
  BY <1>2, Apart
<1>4. /\ answers' \in Seq([to : OwnLoc \cup BackLoc, val : Val])
      /\ Len(answers) \in Nat /\ DOMAIN answers = 1 .. Len(answers)
      /\ DOMAIN answers' = 1 .. Len(answers) + 1 /\ answers'[Len(answers) + 1] = e
      /\ \A i \in DOMAIN answers : i \in DOMAIN answers' /\ answers'[i] = answers[i]
  <2> DEFINE S == [to : OwnLoc \cup BackLoc, val : Val]
  <2>1. answers \in Seq(S) /\ e \in S /\ answers' = Append(answers, e)
    BY <1>2, <1>3 DEF Under, ServerTypes
  <2> HIDE DEF S
  <2>2. /\ answers' \in Seq(S)
        /\ Len(answers) \in Nat /\ DOMAIN answers = 1 .. Len(answers)
        /\ DOMAIN answers' = 1 .. Len(answers) + 1 /\ answers'[Len(answers) + 1] = e
        /\ \A i \in DOMAIN answers : i \in DOMAIN answers' /\ answers'[i] = answers[i]
    BY <2>1, Appended
  <2>3. QED BY <2>2 DEF S
<1>5. \A i \in DOMAIN answers' : i \in DOMAIN answers \/ i = Len(answers) + 1
  BY <1>4
<1>6. \A i \in DOMAIN answers' : answers'[i].to \in BackLoc =>
        i \in DOMAIN answers /\ answers'[i] = answers[i]
  BY <1>3, <1>4, <1>5
<1>7. OneAnswer'
  BY <1>1, <1>6 DEF Under, OneAnswer, ReadQueued, Stored
<1>8. Under'
  BY <1>1, <1>4, <1>7 DEF Under, ServerTypes, Stages, Queue
<1>9. Found' = Found
  <2>1. CASE pc # "poll"
    BY <1>1, <1>8, <2>1, FoundIs, FoundNext DEF Under
  <2>2. CASE pc = "poll" /\ \E i \in DOMAIN answers : answers[i].to = await
    BY <1>1, <1>4, <1>8, <2>2, FoundIs, FoundNext DEF Under
  <2>3. CASE pc = "poll" /\ \A i \in DOMAIN answers : answers[i].to # await
    <3>1. await \in BackLoc
      BY <2>3 DEF Under, Stages
    <3>2. \A i \in DOMAIN answers' : answers'[i].to # await'
      BY <1>1, <1>6, <2>3, <3>1
    <3>3. Found' = IF Stored(await)' THEN hostMem'[await'] ELSE None
      BY <1>1, <1>8, <2>3, <3>2, FoundNext
    <3>4. Found = IF Stored(await) THEN hostMem[await] ELSE None
      BY <2>3, FoundIs DEF Under
    <3>5. QED BY <1>1, <3>3, <3>4 DEF Stored
  <2>4. QED BY <2>1, <2>2, <2>3
<1>10. SeenMemory' = SeenMemory
  BY <1>1, <1>8, SeenSame, Unseen, UnseenNext
<1>11. QED BY <1>1, <1>8, <1>9, <1>10, AskedSame, Stutter

LEMMA ProgramStepSafe ==
  ASSUME Under, Program, ~spoilt'
  PROVE  Under' /\ MemoryStep
<1>1. CASE \E p \in PlaceSeen, v \in Val :
             chip' = [chip EXCEPT ![p] = v] /\ UNCHANGED answers
  BY <1>1, ProgramsOwn
<1>2. CASE \E l \in Addresses, v \in Val :
             answers' = Append(answers, [to |-> l, val |-> v]) /\ Spoils(l) /\ UNCHANGED chip
  <2>1. PICK l \in Addresses, v \in Val :
          answers' = Append(answers, [to |-> l, val |-> v]) /\ Spoils(l) /\ UNCHANGED chip
    BY <1>2
  <2>2. l \in OwnLoc
    BY <2>1, AddressesAssumption DEF Spoils, HostLoc
  <2>3. QED BY <2>1, <2>2, ProgramsHost
<1>3. QED BY <1>1, <1>2 DEF Program
-----------------------------------------------------------------------------
(* The server.                                                             *)

\* Between requests nothing is queued or on its way for the server.
LEMMA Quiet ==
  ASSUME Under, pc # "poll"
  PROVE  /\ await = None /\ Found = None /\ ~ReadQueued
         /\ \A i \in DOMAIN answers : answers[i].to \notin BackLoc
         /\ \A a \in DOMAIN hostMem : a \notin BackLoc
         /\ Len(stimulusArray) \in {0, 1} /\ DOMAIN stimulusArray = 1 .. Len(stimulusArray)
         /\ \A i \in DOMAIN stimulusArray : i = 1 /\ stimulusArray[i].write
<1>1. await = None /\ Found = None
  BY FoundIs DEF Under, Stages
<1>2. \A i \in DOMAIN stimulusArray : i = 1 /\ stimulusArray[i].write
  <2>1. \A i \in DOMAIN stimulusArray : stimulusArray[i] \in Entry
    BY DEF Under, ServerTypes
  <2>2. QED BY <2>1, EntryIs DEF Under, Queue
<1>3. Len(stimulusArray) \in Nat /\ DOMAIN stimulusArray = 1 .. Len(stimulusArray)
  BY LenProperties DEF Under, ServerTypes
<1>4. Len(stimulusArray) \in {0, 1}
  <2>1. CASE Len(stimulusArray) > 1
    <3>1. 2 \in DOMAIN stimulusArray
      BY <1>3, <2>1
    <3>2. QED BY <1>2, <3>1
  <2>2. QED BY <1>3, <2>1
<1>5. QED BY <1>1, <1>2, <1>3, <1>4 DEF Under, OneAnswer, ReadQueued

\* Nor after a step that leaves it so.
LEMMA StillQuiet ==
  ASSUME Under, pc # "poll", pc' # "poll", UNCHANGED <<answers, stimulusArray, await>>,
         \A a \in DOMAIN hostMem' : a \notin BackLoc
  PROVE  Queue' /\ OneAnswer'
<1>1. /\ \A i \in DOMAIN answers' : answers'[i].to \notin BackLoc
      /\ \A i \in DOMAIN stimulusArray' : i = 1 /\ stimulusArray'[i].write
  BY Quiet
<1>2. QED BY <1>1 DEF Queue, OneAnswer

LEMMA CycleStep ==
  ASSUME Under, Cycle PROVE Under' /\ MemoryStep
<1>1. /\ UNCHANGED <<mode, stimulusArray, answers, chip, hostMem, await, asked, answer, serving,
                     stopped>>
      /\ pc = "wait" /\ pc' = "pipe"
  BY DEF Cycle, ServerStep, serverVars, stdioVars
<1>2. Queue' /\ OneAnswer'
  BY <1>1, Quiet, StillQuiet
<1>3. ServerTypes' /\ Stages'
  BY <1>1 DEF Under, ServerTypes, Stages
<1>4. Under'
  BY <1>1, <1>2, <1>3 DEF Under
<1>5. Found' = Found
  BY <1>1, <1>4, FoundNext, Quiet
<1>6. QED BY <1>1, <1>4, <1>5, SeenSame, AskedSame, Stutter, Unseen, UnseenNext

LEMMA AskStep ==
  ASSUME Under, Ask PROVE Under' /\ MemoryStep
<1>1. /\ UNCHANGED <<mode, stimulusArray, answers, chip, hostMem, await, pc, serving, stopped>>
      /\ pc = "pipe" /\ ~stopped /\ asked = None /\ asked' \in Requests /\ answer' = None
  BY DEF Ask, ServerStep, stdioVars
<1>2. Queue' /\ OneAnswer'
  BY <1>1, Quiet, StillQuiet
<1>3. ServerTypes' /\ Stages'
  BY <1>1 DEF Under, ServerTypes, Stages
<1>4. Under'
  BY <1>1, <1>2, <1>3 DEF Under
<1>5. Found' = Found
  BY <1>1, <1>4, FoundNext, Quiet
<1>6. asked' # None
  BY <1>1, NoneAssumption
<1>7. Asked' \in Memory!Request
  <2>1. (asked \in Requests \cup {None} => (asked # None => Asked \in Memory!Request))'
    BY AskedIs, PTL
  <2>2. QED BY <1>1, <1>6, <2>1
<1>8. Asked = None
  BY <1>1 DEF Asked
<1>9. serving
  BY <1>1 DEF Under, Stages
<1>10. SeenMemory' = SeenMemory
  BY <1>1, <1>4, SeenSame, Unseen, UnseenNext
<1>11. Memory!Ask
  BY <1>1, <1>5, <1>7, <1>8, <1>9, <1>10 DEF Memory!Ask
<1>12. QED BY <1>4, <1>11 DEF MemoryStep, Memory!Next

\* The request as it stands.
LEMMA Standing ==
  ASSUME Under, asked # None
  PROVE  /\ asked \in Requests /\ Asked # None /\ Asked.op = asked.op
         /\ asked.op \in {"read", "write"} =>
              asked.at \in Places \cup BackLoc /\ Asked.at = asked.at /\
              SeenMemory[Asked.at] = Seen(asked.at)
         /\ asked.op = "write" => asked.val \in Val /\ Asked.val = asked.val
         /\ asked.op \in {"read", "write"} /\ asked.at \notin HostLoc =>
              asked.core \in Core /\ asked.at \in PlaceSeen
BY AskedIs, MemoryHas DEF Under, ServerTypes

\* The read is queued behind a write that may be there.
LEMMA ReadMemStep ==
  ASSUME Under, ReadMem PROVE Under' /\ MemoryStep
<1>1. PICK e : e = Read(asked.at, await')
  OBVIOUS
<1>2. PICK q : q = stimulusArray
  OBVIOUS
<1>3. /\ UNCHANGED <<mode, answers, chip, hostMem, asked, answer, serving, stopped>>
      /\ ~stopped /\ pc = "pipe" /\ pc' = "poll" /\ asked # None /\ asked.op = "read"
      /\ asked.at \notin HostLoc
      /\ await' = Back(asked.core, asked.at[2]) /\ stimulusArray' = Append(q, e)
  <2>1. \A a \in DOMAIN hostMem : a \notin BackLoc
    BY Quiet DEF ReadMem, ServerStep
  <2>2. asked.core \in Core /\ asked.at \in PlaceSeen
    BY Standing DEF ReadMem, ToChip
  <2>3. Back(asked.core, asked.at[2]) \in BackLoc
    BY <2>2 DEF PlaceSeen, Back, BackLoc
  <2>4. ~Stored(Back(asked.core, asked.at[2]))
    BY <2>1, <2>3 DEF Stored
  <2>5. QED BY <1>1, <1>2, <2>4 DEF ReadMem, ServerStep, ToChip, stdioVars
<1>4. asked.core \in Core /\ asked.at \in PlaceSeen
  BY <1>3, Standing
<1>5. await' \in BackLoc /\ await' # None
  <2>1. asked.at[2] \in Reg
    BY <1>4 DEF PlaceSeen
  <2>2. QED BY <1>3, <1>4, <2>1, Apart DEF Back, BackLoc
<1>6. e \in Entry /\ ~e.write /\ e.place = asked.at /\ e.back = await'
  BY <1>1, <1>4, <1>5 DEF Read, Entry
<1>7. /\ q \in Seq(Entry) /\ Len(q) \in {0, 1} /\ DOMAIN q = 1 .. Len(q)
      /\ \A i \in DOMAIN q : i = 1 /\ q[i].write
  BY <1>2, <1>3, Quiet DEF Under, ServerTypes
<1>8. /\ stimulusArray' \in Seq(Entry) /\ Len(stimulusArray') = Len(q) + 1
      /\ DOMAIN stimulusArray' = 1 .. Len(q) + 1 /\ stimulusArray'[Len(q) + 1] = e
      /\ \A i \in DOMAIN q : i \in DOMAIN stimulusArray' /\ stimulusArray'[i] = q[i]
  BY <1>3, <1>6, <1>7, Appended
<1>9. \A i \in DOMAIN stimulusArray' :
        \/ i \in DOMAIN q /\ stimulusArray'[i] = q[i]
        \/ i = Len(stimulusArray') /\ stimulusArray'[i] = e
  BY <1>7, <1>8
<1>10. ServerTypes'
  BY <1>3, <1>8 DEF Under, ServerTypes
<1>11. Stages'
  BY <1>3, <1>4, <1>5 DEF Under, Stages
<1>12. Queue'
  BY <1>3, <1>6, <1>7, <1>9 DEF Queue
<1>13. OneAnswer'
  <2>1. /\ \A i \in DOMAIN answers : answers[i].to \notin BackLoc
        /\ \A a \in DOMAIN hostMem : a \notin BackLoc
    BY <1>3, Quiet
  <2>2. QED BY <1>3, <2>1 DEF OneAnswer
<1>14. Under'
  BY <1>3, <1>10, <1>11, <1>12, <1>13 DEF Under
<1>15. Found' = Found
  <2>1. /\ \A i \in DOMAIN answers : answers[i].to \notin BackLoc
        /\ \A a \in DOMAIN hostMem : a \notin BackLoc
        /\ Found = None
    BY <1>3, Quiet
  <2>2. (\A i \in DOMAIN answers' : answers'[i].to # await') /\ ~Stored(await)'
    BY <1>3, <1>5, <2>1 DEF Stored
  <2>3. QED BY <1>3, <1>14, <2>1, <2>2, FoundNext
<1>16. \A l \in Places : Seen(l)' = Seen(l)
  <2>1. \A l \in OwnLoc : Seen(l)' = Seen(l)
    BY <1>3, <1>14, Unseen, UnseenNext DEF Clear, Places, Seen, HostLoc, HostValue, Stored
  <2>2. ASSUME NEW l \in PlaceSeen PROVE Seen(l)' = Seen(l)
    <3>1. CASE \E i \in DOMAIN q : q[i].write /\ q[i].place = l
      <4>1. PICK i \in DOMAIN q : q[i].write /\ q[i].place = l
        BY <3>1
      <4>2. Seen(l) = q[i].val
        BY <1>2, <4>1, SeenIs DEF Under
      <4>3. i \in DOMAIN stimulusArray' /\ stimulusArray'[i] = q[i]
        BY <1>8, <4>1
      <4>4. Seen(l)' = stimulusArray'[i].val
        BY <1>10, <1>11, <1>12, <4>1, <4>3, SeenNext
      <4>5. QED BY <4>2, <4>3, <4>4
    <3>2. CASE \A i \in DOMAIN q : ~(q[i].write /\ q[i].place = l)
      <4>1. \A i \in DOMAIN stimulusArray' :
              ~(stimulusArray'[i].write /\ stimulusArray'[i].place = l)
        BY <1>6, <1>9, <3>2
      <4>2. Seen(l)' = chip'[l]
        BY <1>10, <1>11, <1>12, <4>1, SeenNext
      <4>3. Seen(l) = chip[l]
        BY <1>2, <3>2, SeenIs DEF Under
      <4>4. QED BY <1>3, <4>2, <4>3
    <3>3. QED BY <3>1, <3>2
  <2>3. QED BY <2>1, <2>2 DEF Places
<1>17. SeenMemory' = SeenMemory
  BY <1>3, <1>14, <1>16, MemorySame, Unseen, UnseenNext
<1>18. QED BY <1>3, <1>14, <1>15, <1>17, AskedSame, Stutter

\* What the memory is when an answer is taken out of the host's.
LEMMA SeenErased ==
  ASSUME UNCHANGED <<mode, stimulusArray, chip>>, Clear, Clear', NEW a, a \notin OwnLoc,
         hostMem' = Erase(a)
  PROVE  SeenMemory' = SeenMemory
<1>1. \A l \in OwnLoc : HostValue(l)' = HostValue(l)
  BY DEF Erase, HostValue, Stored
<1>2. \A l \in Places : l # await /\ l # await'
  BY DEF Clear
<1>3. \A l \in OwnLoc : Seen(l)' = Seen(l)
  BY <1>1, <1>2 DEF Seen, Places, HostLoc
<1>4. \A l \in PlaceSeen : Seen(l)' = Seen(l)
  BY <1>2, Apart DEF Seen, Places, HostLoc
<1>5. QED BY <1>3, <1>4, MemorySame DEF Places

LEMMA ReadMemDoneStep ==
  ASSUME Under, ReadMemDone PROVE Under' /\ MemoryStep
<1>1. /\ UNCHANGED <<mode, stimulusArray, answers, chip, serving, stopped>>
      /\ ~stopped /\ pc = "poll" /\ pc' = "wait" /\ Stored(await)
      /\ asked' = None /\ answer' = Good(hostMem[await]) /\ await' = None
      /\ hostMem' = Erase(await)
  BY DEF ReadMemDone, ServerStep, Reply, Taken, stdioVars
<1>2. asked # None /\ asked.op = "read" /\ await \in BackLoc
  BY <1>1 DEF Under, Stages
<1>3. ~ReadQueued /\ \A i \in DOMAIN answers : answers[i].to \notin BackLoc
  BY <1>1, <1>2 DEF Under, OneAnswer, Stored
<1>4. \A a \in DOMAIN hostMem' : a \in DOMAIN hostMem /\ hostMem'[a] = hostMem[a] /\ a # await
  BY <1>1 DEF Erase
<1>5. \A a \in DOMAIN hostMem' : a \notin BackLoc
  BY <1>4 DEF Under, OneAnswer
<1>6. OneAnswer'
  BY <1>1, <1>3, <1>5 DEF OneAnswer
<1>7. Queue'
  BY <1>1, <1>3 DEF Under, Queue, ReadQueued
<1>8. ServerTypes' /\ Stages'
  BY <1>1, <1>4 DEF Under, ServerTypes, Stages
<1>9. Under'
  BY <1>1, <1>6, <1>7, <1>8 DEF Under
<1>10. Found' = None
  BY <1>1, <1>9, FoundNext
<1>11. Found = hostMem[await] /\ Found # None
  <2>1. \A i \in DOMAIN answers : answers[i].to # await
    BY <1>2, <1>3
  <2>2. Found = hostMem[await]
    BY <1>1, <2>1, FoundIs DEF Under
  <2>3. hostMem[await] \in Val
    BY <1>1 DEF Under, ServerTypes, Stored
  <2>4. QED BY <2>2, <2>3, DebugHostAssumption
<1>12. SeenMemory' = SeenMemory
  BY <1>1, <1>2, <1>9, Apart, SeenErased, Unseen, UnseenNext
<1>13. Asked' = None
  BY <1>1 DEF Asked
<1>14. Asked # None /\ Asked.op = "read"
  BY <1>2, Standing
<1>15. Memory!AnswerRead
  BY <1>1, <1>10, <1>11, <1>12, <1>13, <1>14
  DEF Memory!AnswerRead, Memory!Answer, Memory!Good, Good
<1>16. QED BY <1>9, <1>15 DEF MemoryStep, Memory!Next, Memory!Reply

LEMMA ReadMemOfHostStep ==
  ASSUME Under, ReadMemOfHost PROVE Under' /\ MemoryStep
<1>1. /\ UNCHANGED <<mode, stimulusArray, answers, chip, hostMem, await, serving, stopped>>
      /\ ~stopped /\ pc = "pipe" /\ pc' = "wait" /\ asked # None /\ asked.op = "read"
      /\ asked.at \in HostLoc /\ asked' = None /\ answer' = Good(HostValue(asked.at))
  BY DEF ReadMemOfHost, ServerStep, ToHost, Reply, stdioVars
<1>2. Queue' /\ OneAnswer'
  BY <1>1, Quiet, StillQuiet
<1>3. ServerTypes' /\ Stages'
  BY <1>1 DEF Under, ServerTypes, Stages
<1>4. Under'
  BY <1>1, <1>2, <1>3 DEF Under
<1>5. Found = None /\ Found' = None
  BY <1>1, <1>4, FoundNext, Quiet
<1>6. SeenMemory' = SeenMemory
  BY <1>1, <1>4, SeenSame, Unseen, UnseenNext
<1>7. Asked' = None
  BY <1>1 DEF Asked
<1>8. Asked # None /\ Asked.op = "read" /\ SeenMemory[Asked.at] = Seen(asked.at)
  BY <1>1, Standing
<1>9. Seen(asked.at) = HostValue(asked.at)
  BY <1>1, Quiet, NoneAssumption DEF Seen
<1>10. Memory!AnswerRead
  BY <1>1, <1>5, <1>6, <1>7, <1>8, <1>9
  DEF Memory!AnswerRead, Memory!Answer, Memory!Good, Good
<1>11. QED BY <1>4, <1>10 DEF MemoryStep, Memory!Next, Memory!Reply

\* The write is answered when it is queued: the debugger sees it from then on.
LEMMA WriteMemQueued ==
  ASSUME Under, WriteMem, stimulusArray = <<>> PROVE Under' /\ MemoryStep
<1>1. PICK e : e = Write(asked.at, asked.val)
  OBVIOUS
<1>2. /\ UNCHANGED <<mode, answers, chip, hostMem, await, serving, stopped>>
      /\ ~stopped /\ pc # "poll" /\ pc' = "wait" /\ asked # None /\ asked.op = "write"
      /\ asked.at \notin HostLoc
      /\ stimulusArray' = <<e>> /\ asked' = None /\ answer' = Good(None)
  BY <1>1 DEF WriteMem, ServerStep, ToChip, Reply, stdioVars
<1>3. asked.at \in PlaceSeen /\ asked.val \in Val
  BY <1>2, Standing
<1>4. e \in Entry /\ e.write /\ e.place = asked.at /\ e.val = asked.val
  BY <1>1, <1>3 DEF Write, Entry
<1>5. /\ stimulusArray' \in Seq(Entry) /\ DOMAIN stimulusArray' = {1}
      /\ stimulusArray'[1] = e
  BY <1>2, <1>4
<1>6. ServerTypes'
  BY <1>2, <1>5 DEF Under, ServerTypes
<1>7. Stages'
  BY <1>2 DEF Under, Stages
<1>8. Queue'
  BY <1>4, <1>5 DEF Queue
<1>9. OneAnswer'
  <2>1. /\ \A i \in DOMAIN answers : answers[i].to \notin BackLoc
        /\ \A a \in DOMAIN hostMem : a \notin BackLoc
    BY <1>2, Quiet
  <2>2. QED BY <1>2, <2>1 DEF OneAnswer
<1>10. Under'
  BY <1>2, <1>6, <1>7, <1>8, <1>9 DEF Under
<1>11. Found' = None
  BY <1>2, <1>10, FoundNext
<1>12. PICK k : k = asked.at
  OBVIOUS
<1>13. PICK v : v = asked.val
  OBVIOUS
<1>14. \A l \in Places : Seen(l)' = IF l = k THEN v ELSE Seen(l)
  <2>1. \A l \in OwnLoc : Seen(l)' = Seen(l)
    BY <1>2 DEF Seen, HostLoc, HostValue, Stored
  <2>2. \A l \in PlaceSeen : Seen(l) = chip[l]
    BY NothingWritten DEF Under
  <2>3. Seen(k)' = v
    BY <1>3, <1>4, <1>5, <1>6, <1>7, <1>8, <1>12, <1>13, SeenNext
  <2>4. \A l \in PlaceSeen : l # k => Seen(l)' = chip[l]
    BY <1>2, <1>4, <1>5, <1>6, <1>7, <1>8, <1>12, SeenNext
  <2>5. k \notin OwnLoc
    BY <1>2, <1>12 DEF HostLoc
  <2>6. QED BY <2>1, <2>2, <2>3, <2>4, <2>5 DEF Places
<1>15. k \in Places
  BY <1>3, <1>12 DEF Places
<1>16. SeenMemory' = [SeenMemory EXCEPT ![k] = v]
  BY <1>2, <1>10, <1>14, <1>15, MemoryPut, Unseen, UnseenNext DEF Under
<1>17. Asked' = None
  BY <1>2 DEF Asked
<1>18. Asked # None /\ Asked.op = "write" /\ Asked.at = k /\ Asked.val = v
  BY <1>2, <1>12, <1>13, Standing
<1>19. Memory!AnswerWrite
  BY <1>2, <1>11, <1>16, <1>17, <1>18 DEF Memory!AnswerWrite, Memory!Answer, Memory!Good, Good
<1>20. QED BY <1>10, <1>19 DEF MemoryStep, Memory!Next, Memory!Reply

LEMMA WriteMemPending ==
  ASSUME Under, WriteMem, stimulusArray # <<>> PROVE Under' /\ MemoryStep
<1>1. /\ UNCHANGED <<mode, stimulusArray, answers, chip, hostMem, await, asked, answer, serving,
                     stopped>>
      /\ ~stopped /\ pc # "poll" /\ pc' = "pending" /\ asked # None /\ asked.op = "write"
      /\ asked.at \notin HostLoc
  BY DEF WriteMem, ServerStep, ToChip, stdioVars
<1>2. Queue' /\ OneAnswer'
  BY <1>1, Quiet, StillQuiet
<1>3. asked.at \in PlaceSeen
  BY <1>1, Standing
<1>4. serving
  BY <1>1 DEF Under, Stages, WriteMem, ServerStep
<1>5. await = None
  BY <1>1, Quiet
<1>6. ServerTypes' /\ Stages'
  BY <1>1, <1>3, <1>4, <1>5 DEF Under, ServerTypes, Stages
<1>7. Under'
  BY <1>1, <1>2, <1>6 DEF Under
<1>8. Found' = Found
  BY <1>1, <1>7, FoundNext, Quiet
<1>9. QED BY <1>1, <1>7, <1>8, SeenSame, AskedSame, Stutter, Unseen, UnseenNext

LEMMA WriteMemOfHostStep ==
  ASSUME Under, WriteMemOfHost, ~spoilt' PROVE Under' /\ MemoryStep
<1>1. PICK k : k = asked.at
  OBVIOUS
<1>2. PICK v : v = asked.val
  OBVIOUS
<1>3. /\ UNCHANGED <<mode, stimulusArray, answers, chip, await, serving, stopped>>
      /\ ~stopped /\ pc = "pipe" /\ pc' = "wait" /\ asked # None /\ asked.op = "write"
      /\ k \in OwnLoc /\ hostMem' = Store(k, v) /\ asked' = None /\ answer' = Good(None)
  BY <1>1, <1>2 DEF WriteMemOfHost, ServerStep, ToHost, Reply, Spoils, HostLoc, stdioVars
<1>4. v \in Val
  BY <1>2, <1>3, Standing
<1>5. \A b \in DOMAIN hostMem' : b \in OwnLoc \cup BackLoc /\ hostMem'[b] \in Val
  BY <1>3, <1>4, StoreTyped
<1>6. \A b \in DOMAIN hostMem' : b \notin BackLoc
  <2>1. k \notin BackLoc /\ \A b \in DOMAIN hostMem : b \notin BackLoc
    BY <1>3, Apart, Quiet
  <2>2. DOMAIN hostMem' = DOMAIN hostMem \cup {k}
    BY <1>3, StoreIs
  <2>3. QED BY <2>1, <2>2
<1>7. Queue' /\ OneAnswer'
  BY <1>3, <1>6, StillQuiet
<1>8. ServerTypes' /\ Stages'
  BY <1>3, <1>5 DEF Under, ServerTypes, Stages
<1>9. Under'
  BY <1>3, <1>7, <1>8 DEF Under
<1>10. Found' = None
  BY <1>3, <1>9, FoundNext
<1>11. SeenMemory' = [SeenMemory EXCEPT ![k] = v]
  BY <1>3, <1>9, SeenStored, Unseen, UnseenNext DEF Under
<1>12. Asked' = None
  BY <1>3 DEF Asked
<1>13. Asked # None /\ Asked.op = "write" /\ Asked.at = k /\ Asked.val = v
  BY <1>1, <1>2, <1>3, Standing
<1>14. Memory!AnswerWrite
  BY <1>3, <1>10, <1>11, <1>12, <1>13 DEF Memory!AnswerWrite, Memory!Answer, Memory!Good, Good
<1>15. QED BY <1>9, <1>14 DEF MemoryStep, Memory!Next, Memory!Reply

\* A bad request gets a failure, one to trace nothing.
LEMMA NoAccessStep ==
  ASSUME Under, BadRequest \/ TraceRequest PROVE Under' /\ MemoryStep
<1>1. /\ UNCHANGED <<mode, stimulusArray, answers, chip, hostMem, await, serving, stopped>>
      /\ ~stopped /\ pc = "pipe" /\ pc' = "wait" /\ asked # None /\ asked' = None
      /\ \/ asked.op = "bad" /\ answer' = Fail
         \/ asked.op = "trace" /\ answer' = None
  BY DEF BadRequest, TraceRequest, ServerStep, Reply, stdioVars
<1>2. Queue' /\ OneAnswer'
  BY <1>1, Quiet, StillQuiet
<1>3. ServerTypes' /\ Stages'
  BY <1>1 DEF Under, ServerTypes, Stages
<1>4. Under'
  BY <1>1, <1>2, <1>3 DEF Under
<1>5. Found' = None
  BY <1>1, <1>4, FoundNext
<1>6. SeenMemory' = SeenMemory
  BY <1>1, <1>4, SeenSame, Unseen, UnseenNext
<1>7. Asked' = None
  BY <1>1 DEF Asked
<1>8. Asked # None /\ Asked.op = asked.op
  BY <1>1, Standing
<1>9. Memory!AnswerBad \/ Memory!Trace
  BY <1>1, <1>5, <1>6, <1>7, <1>8
  DEF Memory!AnswerBad, Memory!Trace, Memory!Answer, Memory!Fail, Fail
<1>10. QED BY <1>4, <1>9 DEF MemoryStep, Memory!Next, Memory!Reply

LEMMA LeaveStep ==
  ASSUME Under, Leave PROVE Under' /\ MemoryStep
<1>1. /\ UNCHANGED <<mode, stimulusArray, answers, chip, hostMem, await, answer>>
      /\ ~stopped /\ pc = "pipe" /\ asked # None /\ asked' = None /\ serving' = FALSE
      /\ \/ asked.op = "kill" /\ stopped' = TRUE /\ UNCHANGED pc
         \/ asked.op = "resume" /\ pc' = "resumed" /\ UNCHANGED stopped
  BY DEF Leave, HandleStopSignal, portVars
<1>2. Queue' /\ OneAnswer'
  BY <1>1, Quiet, StillQuiet
<1>3. ServerTypes' /\ Stages'
  BY <1>1 DEF Under, ServerTypes, Stages
<1>4. Under'
  BY <1>1, <1>2, <1>3 DEF Under
<1>5. Found' = Found
  BY <1>1, <1>4, FoundNext, Quiet
<1>6. SeenMemory' = SeenMemory
  BY <1>1, <1>4, SeenSame, Unseen, UnseenNext
<1>7. Asked' = None
  BY <1>1 DEF Asked
<1>8. Asked # None /\ Asked.op = asked.op
  BY <1>1, Standing
<1>9. Memory!Leave
  BY <1>1, <1>5, <1>6, <1>7, <1>8 DEF Memory!Leave
<1>10. QED BY <1>4, <1>9 DEF MemoryStep, Memory!Next, Memory!Reply
-----------------------------------------------------------------------------
(* Without a debugger, and the whole.                                      *)

\* The handler of the traps serves programs that nobody debugs.
LEMMA BatchStep ==
  ASSUME mode # "gdb_server", Next PROVE mode' = mode /\ MemoryStep
<1>1. UNCHANGED <<mode, serverVars>>
  <2>1. ~Program /\ ~Ask /\ ~Server
    BY DEF Program, Ask, Server, ServerStep, Cycle, ReadMem, ReadMemDone, ReadMemOfHost,
           WriteMem, WriteMemOfHost, BadRequest, TraceRequest, Leave
  <2>2. CASE Deliver \/ Sample
    BY <2>2 DEF Deliver, Sample, PortStep
  <2>3. CASE \E c \in Core : Trap(c)
    BY <2>3 DEF Trap, ProgramStep, serverVars
  <2>4. CASE StdioHandler
    BY <2>4 DEF StdioHandler, StdioStep, Pass, CoreStatus, Got, TrapOpcode, Arguments, Text,
                GiveUp, Resume, NextCore
  <2>5. QED BY <2>1, <2>2, <2>3, <2>4 DEF Next
<1>2. SeenMemory' = SeenMemory
  BY <1>1 DEF SeenMemory
<1>3. Found = None /\ Found' = None
  BY <1>1 DEF Found
<1>4. QED BY <1>1, <1>2, <1>3, AskedSame, Stutter DEF serverVars

LEMMA UnderStep ==
  ASSUME Under, Next, ~spoilt' PROVE Under' /\ MemoryStep
<1>1. ~(\E c \in Core : Trap(c)) /\ ~StdioHandler
  BY DEF Under, Trap, StdioHandler, StdioStep, Pass, CoreStatus, Got, TrapOpcode,
         Arguments, Text, GiveUp, Resume, NextCore
<1>2. CASE Deliver
  BY <1>2, DeliverWrite, DeliverRead
<1>3. CASE Sample
  BY <1>3, SampleStep
<1>4. CASE Program
  BY <1>4, ProgramStepSafe
<1>5. CASE Ask
  BY <1>5, AskStep
<1>6. CASE Server
  <2>1. CASE Cycle
    BY <2>1, CycleStep
  <2>2. CASE ReadMem \/ ReadMemDone \/ ReadMemOfHost
    BY <2>2, ReadMemStep, ReadMemDoneStep, ReadMemOfHostStep
  <2>3. CASE WriteMem
    BY <2>3, WriteMemQueued, WriteMemPending
  <2>4. CASE WriteMemOfHost
    BY <2>4, WriteMemOfHostStep
  <2>5. CASE BadRequest \/ TraceRequest
    BY <2>5, NoAccessStep
  <2>6. CASE Leave
    BY <2>6, LeaveStep
  <2>7. QED BY <1>6, <2>1, <2>2, <2>3, <2>4, <2>5, <2>6 DEF Server
<1>7. QED BY <1>1, <1>2, <1>3, <1>4, <1>5, <1>6 DEF Next

\* An answer's address that was written to remains one.
LEMMA SpoiltRemains ==
  ASSUME Next, ~spoilt' PROVE ~spoilt
BY DEF Next, Deliver, Sample, PortStep, Program, ProgramStep, Trap, Ask, Server, ServerStep,
       Cycle, ReadMem, ReadMemDone, ReadMemOfHost, WriteMem, WriteMemOfHost, BadRequest,
       TraceRequest, Leave, StdioHandler, StdioStep, Pass, CoreStatus, Got, TrapOpcode,
       Arguments, Text, GiveUp, Resume, NextCore, Spoils, serverVars

LEMMA NextSafe ==
  ASSUME ServerInv, Next PROVE ServerInv' /\ (MemoryStep \/ spoilt')
<1>1. CASE mode # "gdb_server"
  BY <1>1, BatchStep DEF ServerInv
<1>2. CASE mode = "gdb_server" /\ ~spoilt'
  <2>1. Under
    BY <1>2, SpoiltRemains DEF ServerInv, Under
  <2>2. QED BY <1>2, <2>1, UnderStep DEF ServerInv, Under
<1>3. CASE spoilt'
  BY <1>3 DEF ServerInv
<1>4. QED BY <1>1, <1>2, <1>3

LEMMA Idle ==
  ASSUME UNCHANGED vars PROVE (ServerInv => ServerInv') /\ MemoryStep
<1>1. UNCHANGED <<mode, stimulusArray, answers, hostMem, chip, pc, await, asked, answer, serving,
                  spoilt, stopped>>
  BY DEF vars, portVars, serverVars, stdioVars
<1>2. ServerInv => ServerInv'
  BY <1>1 DEF ServerInv, ServerTypes, Stages, Queue, OneAnswer, ReadQueued, Stored
<1>3. Found' = Found
  BY <1>1 DEF Found, Stored
<1>4. SeenMemory' = SeenMemory
  BY <1>1 DEF SeenMemory, Seen, HostValue, Stored
<1>5. QED BY <1>1, <1>2, <1>3, <1>4, AskedSame, Stutter

LEMMA Begins ==
  ASSUME Init PROVE ServerInv /\ Memory!Init
<1>1. /\ stimulusArray = <<>> /\ answers = <<>> /\ hostMem = <<>> /\ chip = InitChip
      /\ await = None /\ asked = None /\ answer = None /\ spoilt = FALSE /\ serving = TRUE /\ stopped = FALSE
      /\ mode = "gdb_server" => pc = "wait"
  BY DEF Init
<1>2. DOMAIN chip = Place /\ \A l \in PlaceSeen : chip[l] = "zero"
  <2>1. ASSUME NEW l \in PlaceSeen PROVE l[2] # "DEBUG"
    BY DebugHostAssumption DEF PlaceSeen
  <2>2. QED BY <1>1, <2>1, Apart DEF InitChip
<1>3. /\ DOMAIN stimulusArray = {} /\ DOMAIN answers = {} /\ DOMAIN hostMem = {}
      /\ stimulusArray \in Seq(Entry) /\ answers \in Seq([to : OwnLoc \cup BackLoc, val : Val])
  BY <1>1
<1>4. mode = "gdb_server" => ServerTypes /\ Stages
  BY <1>1, <1>2, <1>3, DebugHostAssumption DEF ServerTypes, Stages
<1>5. Queue /\ OneAnswer
  BY <1>3 DEF Queue, OneAnswer
<1>6. ServerInv /\ (mode = "gdb_server" => Under)
  BY <1>4, <1>5 DEF ServerInv, Under
<1>7. Found = None
  BY <1>1 DEF Found
<1>8. Asked = None
  BY <1>1 DEF Asked
<1>9. SeenMemory \in [PlaceSeen \cup HostLoc -> Val]
  <2>1. ASSUME mode = "gdb_server" PROVE \A l \in PlaceSeen \cup HostLoc : Seen(l) \in Val
    <3>1. \A l \in Places : Seen(l) \in Val
      BY <1>4, <1>5, <2>1, SeenValue
    <3>2. \A l \in BackLoc : Seen(l) \in Val
      BY <1>6, <2>1, Unseen, DebugHostAssumption DEF Clear
    <3>3. QED BY <3>1, <3>2 DEF Places, HostLoc
  <2>2. QED BY <2>1, DebugHostAssumption DEF SeenMemory
<1>10. QED BY <1>1, <1>6, <1>7, <1>8, <1>9 DEF Memory!Init

(***************************************************************************)
(* What is queued, and what is on its way back, is what the server is      *)
(* waiting for: at most one write and behind it the read that is polled,   *)
(* and one answer to that read (readMem and writeMem, and the memory port  *)
(* of the chip).  So it is while neither the debugger nor its program has  *)
(* written to an address in the host's memory to which answers come.       *)
(***************************************************************************)
THEOREM ServerInvariant == Spec => []ServerInv
<1>1. Init => ServerInv
  BY Begins
<1>2. ServerInv /\ [Next]_vars => ServerInv'
  BY NextSafe, Idle
<1>3. QED BY <1>1, <1>2, PTL DEF Spec

(***************************************************************************)
(* The debugger sees one memory (the safety of MemorySpec) until it or the *)
(* program writes to an address to which answers come: every step of the   *)
(* server, of the port and of the programs is one of DebugMemory, or       *)
(* changes nothing the debugger sees; so a read never gives an answer to   *)
(* an earlier one nor misses a write that was answered.                    *)
(***************************************************************************)
THEOREM OneMemory == Spec => Memory!Init /\ [][Memory!Next \/ spoilt']_(Memory!vars)
<1>1. Init => Memory!Init
  BY Begins
<1>2. ServerInv /\ [Next]_vars => [Memory!Next \/ spoilt']_(Memory!vars)
  BY NextSafe, Idle DEF MemoryStep
<1>3. QED BY <1>1, <1>2, ServerInvariant, PTL DEF Spec
-----------------------------------------------------------------------------
(***************************************************************************)
(* The handler of the traps: it has read of a core, before the core runs   *)
(* again, all that it needs to serve it.                                   *)
(***************************************************************************)

Word ==
  Val \cup Traps \cup {ToString(n) : n \in Nat} \cup
  {"zero", "resume", "halt", "argument", "length", "host", "local", "global"}

Polling == {"status", "opcode", "arguments", "text"}

\* What the handler reads of a core.
Sought(p) ==
  CASE p = "status" -> "DEBUG" [] p = "opcode" -> "opcode"
    [] p = "arguments" -> "R1" [] OTHER -> "beyond"

Return == Core \X {"DEBUG", "opcode", "R1", "beyond"} \X {"back"}

Command ==
  [write : {TRUE}, place : Core \X {"R0", "DEBUG"}, val : Word] \cup
  [write : {FALSE}, place : Core \X {"DEBUG", "opcode", "R1", "beyond"}, back : Return]

HandlerTypes ==
  /\ pc \in Polling \cup {"sleep", "resume", "next"} /\ ncore \in Core
  /\ DOMAIN chip = Place /\ \A p \in Place : chip[p] \in Word
  /\ \A c \in Core : chip[<<c, "DEBUG">>] \in {"resume", "halt"}
  /\ stimulusArray \in Seq(Command)
  /\ answers \in Seq([to : OwnLoc \cup Return, val : Word])
  /\ \A a \in DOMAIN hostMem : a \in OwnLoc \cup Return /\ hostMem[a] \in Word
  /\ texts \in [Core -> Seq({"host", "local", "global"})]
  /\ printed \in [Core -> Seq(Word)]

Writes(i, c, r) == stimulusArray[i].write /\ stimulusArray[i].place = <<c, r>>

NoWrite(c, r) == \A i \in DOMAIN stimulusArray : ~Writes(i, c, r)

\* The handler has done with core c, which has not been resumed yet.
Released(c) == (pc = "resume" /\ ncore = c) \/ ~NoWrite(c, "DEBUG")

\* No text of core c is on its way to the host.
NoPost(c) == \A i \in DOMAIN answers : answers[i].to # <<c, "host">>

\* Results and resumes are behind each other, and a read that is polled for behind both.
HandlerQueue ==
  /\ \A i \in DOMAIN stimulusArray : LET e == stimulusArray[i] IN
       /\ ~e.write => /\ i = Len(stimulusArray) /\ pc \in Polling
                      /\ e.place = <<ncore, Sought(pc)>> /\ e.back = await
       /\ e.write => pc \in {"resume", "next", "sleep", "status"}
       /\ e.write /\ pc = "resume" => e.place = <<ncore, "R0">>
       /\ e.write /\ e.place[2] = "DEBUG" =>
            \A j \in DOMAIN stimulusArray : stimulusArray[j].write => j <= i
  /\ pc \in Polling =>
       await = Back(ncore, Sought(pc)) /\ (stimulusArray # <<>> => ReadQueued)

\* What an answer with value v says of the core.
Tells(v) ==
  /\ pc = "status" => v \in {"resume", "halt"} /\ (v = "halt" => ~Running(ncore))
  /\ pc \in {"opcode", "arguments"} => v = chip[<<ncore, Sought(pc)>>]

HandlerAnswers ==
  /\ \A i \in DOMAIN answers : answers[i].to \notin OwnLoc =>
       /\ pc \in Polling /\ answers[i].to = await /\ ~ReadQueued /\ ~Stored(await)
       /\ Tells(answers[i].val)
       /\ \A j \in DOMAIN answers : answers[j].to \notin OwnLoc => j = i
       /\ pc = "status" /\ answers[i].val = "halt" =>
            \A j \in DOMAIN answers : answers[j].to = <<ncore, "host">> => j < i
  /\ \A a \in DOMAIN hostMem : a \notin OwnLoc =>
       /\ pc \in Polling /\ a = await /\ ~ReadQueued /\ Tells(hostMem[a])
       /\ pc = "status" /\ hostMem[a] = "halt" => NoPost(ncore)

\* The core that is served is halted, and what it wrote has come.
Attended ==
  /\ pc \in {"opcode", "arguments", "text"} => ~Running(ncore) /\ NoPost(ncore)
  /\ pc \in {"arguments", "text"} => chip[<<ncore, "opcode">>] = "WRITE"
  /\ pc = "text" => chip[<<ncore, "R1">>] = "global"
  /\ pc = "resume" => ~Running(ncore)

TextThere(c) ==
  \/ ~NoPost(c)
  \/ Stored(<<c, "host">>) /\ hostMem[<<c, "host">>] = ToString(Len(texts[c]))

PrintedSame(c) ==
  \A i \in DOMAIN printed[c] : texts[c][i] = "host" => printed[c][i] = ToString(i)

Unserved(c) ==
  /\ chip[<<c, "R0">>] = "argument" /\ NoWrite(c, "R0")
  /\ chip[<<c, "opcode">>] # "WRITE" => Len(printed[c]) = Len(texts[c])
  /\ chip[<<c, "opcode">>] = "WRITE" =>
       /\ Len(texts[c]) = Len(printed[c]) + 1
       /\ chip[<<c, "R1">>] = texts[c][Len(texts[c])]
       /\ texts[c][Len(texts[c])] = "host" => TextThere(c)

CoreServed(c) ==
  /\ PrintedSame(c)
  /\ Running(c) =>
       /\ Len(printed[c]) = Len(texts[c]) /\ chip[<<c, "R0">>] = Result(c)
       /\ ~Released(c) /\ NoWrite(c, "R0") /\ NoPost(c)
  /\ ~Running(c) /\ ~Released(c) => Unserved(c)
  /\ ~Running(c) /\ Released(c) =>
       /\ Len(printed[c]) = Len(texts[c]) /\ NoPost(c)
       /\ chip[<<c, "R0">>] = Result(c) \/ ~NoWrite(c, "R0")
  /\ \A i \in DOMAIN stimulusArray :
       /\ Writes(i, c, "R0") => Released(c) /\ stimulusArray[i].val = Result(c)
       /\ Writes(i, c, "DEBUG") => stimulusArray[i].val = "resume"
  /\ \A i \in DOMAIN answers :
       answers[i].to = <<c, "host">> => answers[i].val = ToString(Len(texts[c]))

Batch ==
  /\ mode = "batch" /\ HandlerTypes /\ HandlerQueue /\ HandlerAnswers /\ Attended
  /\ \A c \in Core : CoreServed(c)

RunsInv == mode = "batch" => Batch
-----------------------------------------------------------------------------
LEMMA ReturnApart == Return \cap OwnLoc = {}
BY DEF Return, OwnLoc

LEMMA SoughtIs ==
  /\ Sought("status") = "DEBUG" /\ Sought("opcode") = "opcode"
  /\ Sought("arguments") = "R1" /\ Sought("text") = "beyond"
  /\ \A p \in Polling : Sought(p) \in {"DEBUG", "opcode", "R1", "beyond"}
  /\ \A p \in Polling, c \in Core : Back(c, Sought(p)) \in Return
<1>1. /\ Sought("status") = "DEBUG" /\ Sought("opcode") = "opcode"
      /\ Sought("arguments") = "R1" /\ Sought("text") = "beyond"
  BY DEF Sought
<1>2. \A p \in Polling : Sought(p) \in {"DEBUG", "opcode", "R1", "beyond"}
  BY <1>1 DEF Polling
<1>3. QED BY <1>1, <1>2 DEF Back, Return

LEMMA CommandIs ==
  ASSUME NEW e \in Command
  PROVE  /\ e.write \in BOOLEAN
         /\ e.write => e.place \in Core \X {"R0", "DEBUG"} /\ e.val \in Word
         /\ ~e.write => e.place \in Core \X {"DEBUG", "opcode", "R1", "beyond"}
BY DEF Command

LEMMA CommandTyped ==
  ASSUME Batch, NEW i \in DOMAIN stimulusArray
  PROVE  stimulusArray[i] \in Command /\ i \in Nat /\ i <= Len(stimulusArray) /\ 1 <= i
<1>1. stimulusArray \in Seq(Command)
  BY DEF Batch, HandlerTypes
<1> HIDE DEF Command
<1>2. i \in 1 .. Len(stimulusArray) /\ Len(stimulusArray) \in Nat
  BY <1>1, LenProperties
<1>3. QED BY <1>1, <1>2, ElementOfSeq

LEMMA PostTyped ==
  ASSUME Batch, NEW i \in DOMAIN answers
  PROVE  answers[i] \in [to : OwnLoc \cup Return, val : Word] /\ i \in Nat /\ 1 <= i
<1> DEFINE S == [to : OwnLoc \cup Return, val : Word]
<1>1. answers \in Seq(S)
  BY DEF Batch, HandlerTypes
<1> HIDE DEF S
<1>2. i \in 1 .. Len(answers) /\ Len(answers) \in Nat
  BY <1>1, LenProperties
<1>3. answers[i] \in S
  BY <1>1, <1>2, ElementOfSeq
<1>4. QED BY <1>2, <1>3 DEF S

\* What a step leaves of the text of a core in the host memory.
SameText(c) ==
  /\ Stored(<<c, "host">>)' <=> Stored(<<c, "host">>)
  /\ Stored(<<c, "host">>) => hostMem'[<<c, "host">>] = hostMem[<<c, "host">>]

\* A core is served as before when the step does not reach what is said of it.
LEMMA CoreSame ==
  ASSUME NEW c \in Core, CoreServed(c),
         \A r \in {"DEBUG", "opcode", "R0", "R1"} : chip'[<<c, r>>] = chip[<<c, r>>],
         texts'[c] = texts[c], printed'[c] = printed[c],
         Released(c)' <=> Released(c), NoWrite(c, "R0")' <=> NoWrite(c, "R0"),
         NoPost(c) => NoPost(c)', TextThere(c) => TextThere(c)',
         \A i \in DOMAIN stimulusArray' :
           stimulusArray'[i].write /\ stimulusArray'[i].place \in {<<c, "R0">>, <<c, "DEBUG">>} =>
             \E j \in DOMAIN stimulusArray : stimulusArray[j] = stimulusArray'[i],
         \A i \in DOMAIN answers' : answers'[i].to = <<c, "host">> =>
           \E j \in DOMAIN answers : answers[j] = answers'[i]
  PROVE  CoreServed(c)'
<1>1. Result(c)' = Result(c) /\ (Running(c)' <=> Running(c))
  BY DEF Result, Running
<1>2. PrintedSame(c)'
  BY DEF CoreServed, PrintedSame
<1>3. ~Running(c) /\ ~Released(c) => Unserved(c)'
  BY DEF CoreServed, Unserved
<1>4. \A i \in DOMAIN stimulusArray' :
        /\ Writes(i, c, "R0")' => Released(c)' /\ stimulusArray'[i].val = Result(c)'
        /\ Writes(i, c, "DEBUG")' => stimulusArray'[i].val = "resume"
  <2> SUFFICES ASSUME NEW i \in DOMAIN stimulusArray',
                      Writes(i, c, "R0")' \/ Writes(i, c, "DEBUG")'
               PROVE  /\ Writes(i, c, "R0")' => Released(c) /\ stimulusArray'[i].val = Result(c)
                      /\ Writes(i, c, "DEBUG")' => stimulusArray'[i].val = "resume"
    BY <1>1
  <2>1. PICK j \in DOMAIN stimulusArray : stimulusArray[j] = stimulusArray'[i]
    BY DEF Writes
  <2>2. /\ Writes(i, c, "R0")' => Writes(j, c, "R0")
        /\ Writes(i, c, "DEBUG")' => Writes(j, c, "DEBUG")
    BY <2>1 DEF Writes
  <2>3. /\ Writes(j, c, "R0") => Released(c) /\ stimulusArray[j].val = Result(c)
        /\ Writes(j, c, "DEBUG") => stimulusArray[j].val = "resume"
    BY DEF CoreServed
  <2>4. QED BY <2>1, <2>2, <2>3
<1>5. \A i \in DOMAIN answers' :
        answers'[i].to = <<c, "host">> => answers'[i].val = ToString(Len(texts'[c]))
  BY DEF CoreServed
<1>6. Running(c)' =>
        /\ Len(printed'[c]) = Len(texts'[c]) /\ chip'[<<c, "R0">>] = Result(c)'
        /\ ~Released(c)' /\ NoWrite(c, "R0")' /\ NoPost(c)'
  BY <1>1 DEF CoreServed
<1>7. ~Running(c)' /\ Released(c)' =>
       /\ Len(printed'[c]) = Len(texts'[c]) /\ NoPost(c)'
       /\ chip'[<<c, "R0">>] = Result(c)' \/ ~NoWrite(c, "R0")'
  <2>1. ~Running(c) /\ Released(c) =>
          /\ Len(printed[c]) = Len(texts[c]) /\ NoPost(c)
          /\ chip[<<c, "R0">>] = Result(c) \/ ~NoWrite(c, "R0")
    BY DEF CoreServed
  <2>2. chip'[<<c, "R0">>] = chip[<<c, "R0">>]
    OBVIOUS
  <2>3. QED BY <1>1, <2>1, <2>2
<1>8. ~Running(c)' /\ ~Released(c)' => Unserved(c)'
  BY <1>1, <1>3
<1>9. QED BY <1>2, <1>4, <1>5, <1>6, <1>7, <1>8 DEF CoreServed

\* The text is there when neither it nor what is on its way has changed.
LEMMA TextSame ==
  ASSUME NEW c \in Core, UNCHANGED answers, SameText(c), texts'[c] = texts[c]
  PROVE  (TextThere(c) <=> TextThere(c)') /\ (NoPost(c)' <=> NoPost(c))
BY DEF TextThere, NoPost, SameText

\* The handler waits for nothing: nothing is on its way to it.
LEMMA Resting ==
  ASSUME Batch, pc \notin Polling
  PROVE  /\ ~ReadQueued /\ \A i \in DOMAIN answers : answers[i].to \in OwnLoc
         /\ \A a \in DOMAIN hostMem : a \in OwnLoc
BY DEF Batch, HandlerQueue, HandlerAnswers, ReadQueued

\* It takes its answer: nothing else is queued or on its way to it.
LEMMA Taking ==
  ASSUME Batch, pc \in Polling, Stored(await), hostMem' = Erase(await)
  PROVE  /\ stimulusArray = <<>> /\ ~ReadQueued
         /\ \A i \in DOMAIN answers : answers[i].to \in OwnLoc
         /\ \A a \in DOMAIN hostMem' : a \in OwnLoc /\ hostMem'[a] \in Word
         /\ \A c \in Core : SameText(c)
         /\ Tells(hostMem[await]) /\ hostMem[await] \in Word
         /\ pc = "status" /\ hostMem[await] = "halt" => NoPost(ncore)
<1>1. await \in Return /\ await \notin OwnLoc
  BY SoughtIs, ReturnApart DEF Batch, HandlerTypes, HandlerQueue
<1>2. await \in DOMAIN hostMem
  BY DEF Stored
<1>3. /\ ~ReadQueued /\ Tells(hostMem[await])
      /\ pc = "status" /\ hostMem[await] = "halt" => NoPost(ncore)
  BY <1>1, <1>2 DEF Batch, HandlerAnswers
<1>4. stimulusArray = <<>>
  BY <1>3 DEF Batch, HandlerQueue
<1>5. \A i \in DOMAIN answers : answers[i].to \in OwnLoc
  BY DEF Batch, HandlerAnswers
<1>6. \A a \in DOMAIN hostMem' : a \in DOMAIN hostMem /\ a # await /\ hostMem'[a] = hostMem[a]
  BY DEF Erase
<1>7. \A a \in DOMAIN hostMem : a # await => a \in DOMAIN hostMem' /\ hostMem'[a] = hostMem[a]
  BY DEF Erase
<1>8. \A a \in DOMAIN hostMem' : a \in OwnLoc /\ hostMem'[a] \in Word
  BY <1>6 DEF Batch, HandlerAnswers, HandlerTypes
<1>9. ASSUME NEW c \in Core PROVE SameText(c)
  <2>1. <<c, "host">> # await
    BY <1>1 DEF OwnLoc
  <2>2. QED BY <1>6, <1>7, <2>1 DEF SameText, Stored
<1>10. hostMem[await] \in Word
  BY <1>2 DEF Batch, HandlerTypes
<1>11. QED BY <1>3, <1>4, <1>5, <1>8, <1>9, <1>10

\* The queue with a read behind: no more and no fewer writes.
LEMMA ReadAppended ==
  ASSUME Batch, NEW e \in Command, ~e.write, stimulusArray' = Append(stimulusArray, e)
  PROVE  /\ stimulusArray' \in Seq(Command)
         /\ Len(stimulusArray) + 1 \in DOMAIN stimulusArray'
         /\ Len(stimulusArray') = Len(stimulusArray) + 1
         /\ stimulusArray'[Len(stimulusArray) + 1] = e
         /\ \A i \in DOMAIN stimulusArray :
              i \in DOMAIN stimulusArray' /\ stimulusArray'[i] = stimulusArray[i]
         /\ \A i \in DOMAIN stimulusArray' :
              \/ i \in DOMAIN stimulusArray /\ stimulusArray'[i] = stimulusArray[i]
              \/ i = Len(stimulusArray') /\ stimulusArray'[i] = e
         /\ \A c \in Core, r \in {"R0", "DEBUG"} : NoWrite(c, r)' <=> NoWrite(c, r)
<1>1. stimulusArray \in Seq(Command)
  BY DEF Batch, HandlerTypes
<1>2. /\ stimulusArray' \in Seq(Command) /\ Len(stimulusArray) \in Nat
      /\ DOMAIN stimulusArray = 1 .. Len(stimulusArray)
      /\ Len(stimulusArray') = Len(stimulusArray) + 1
      /\ DOMAIN stimulusArray' = 1 .. Len(stimulusArray) + 1
      /\ stimulusArray'[Len(stimulusArray) + 1] = e
      /\ \A i \in DOMAIN stimulusArray :
           i \in DOMAIN stimulusArray' /\ stimulusArray'[i] = stimulusArray[i]
  <2> HIDE DEF Command
  <2> QED BY <1>1, Appended
<1>3. Len(stimulusArray) + 1 \in DOMAIN stimulusArray'
  BY <1>2
<1>4. \A i \in DOMAIN stimulusArray' :
        \/ i \in DOMAIN stimulusArray /\ stimulusArray'[i] = stimulusArray[i]
        \/ i = Len(stimulusArray') /\ stimulusArray'[i] = e
  BY <1>2
<1>5. ASSUME NEW c \in Core, NEW r \in {"R0", "DEBUG"}
      PROVE  NoWrite(c, r)' <=> NoWrite(c, r)
  BY <1>2, <1>4 DEF NoWrite, Writes
<1>6. QED BY <1>2, <1>3, <1>4, <1>5

\* The handler, waiting for nothing, asks a core for something.
LEMMA GetStep ==
  ASSUME Batch, NEW n \in Core, NEW q \in Polling, ncore' = n, pc' = q, pc # "resume",
         stimulusArray' = Append(stimulusArray, Read(<<n, Sought(q)>>, Back(n, Sought(q)))),
         await' = Back(n, Sought(q)),
         UNCHANGED <<mode, answers, chip, texts, printed>>,
         \A c \in Core : SameText(c), ~ReadQueued,
         \A i \in DOMAIN answers : answers[i].to \in OwnLoc,
         \A a \in DOMAIN hostMem' : a \in OwnLoc /\ hostMem'[a] \in Word,
         q # "status" => stimulusArray = <<>> /\ ~Running(n) /\ NoPost(n),
         q \in {"arguments", "text"} => chip[<<n, "opcode">>] = "WRITE",
         q = "text" => chip[<<n, "R1">>] = "global"
  PROVE  Batch'
<1>1. PICK e : e = Read(<<n, Sought(q)>>, Back(n, Sought(q)))
  OBVIOUS
<1>2. /\ e \in Command /\ ~e.write /\ e.place = <<n, Sought(q)>>
      /\ e.back = Back(n, Sought(q))
  <2>1. Sought(q) \in {"DEBUG", "opcode", "R1", "beyond"} /\ Back(n, Sought(q)) \in Return
    BY SoughtIs
  <2>2. QED BY <1>1, <2>1 DEF Read, Command
<1>3. stimulusArray' = Append(stimulusArray, e)
  BY <1>1
<1>4. /\ stimulusArray' \in Seq(Command)
      /\ Len(stimulusArray) + 1 \in DOMAIN stimulusArray'
      /\ Len(stimulusArray') = Len(stimulusArray) + 1
      /\ stimulusArray'[Len(stimulusArray) + 1] = e
      /\ \A i \in DOMAIN stimulusArray' :
           \/ i \in DOMAIN stimulusArray /\ stimulusArray'[i] = stimulusArray[i]
           \/ i = Len(stimulusArray') /\ stimulusArray'[i] = e
  BY <1>2, <1>3, ReadAppended
<1>5. \A c \in Core, r \in {"R0", "DEBUG"} : NoWrite(c, r)' <=> NoWrite(c, r)
  BY <1>2, <1>3, ReadAppended
<1>6. \A i \in DOMAIN stimulusArray : stimulusArray[i].write
  BY DEF ReadQueued
<1>7. pc' \in Polling /\ pc' # "resume" /\ q # "resume"
  BY DEF Polling
<1>8. HandlerTypes'
  BY <1>4, <1>7 DEF Batch, HandlerTypes
<1>9. HandlerQueue'
  <2>1. ASSUME NEW i \in DOMAIN stimulusArray'
        PROVE  LET f == stimulusArray'[i] IN
               /\ ~f.write => /\ i = Len(stimulusArray') /\ pc' \in Polling
                              /\ f.place = <<ncore', Sought(pc')>> /\ f.back = await'
               /\ f.write => pc' \in {"resume", "next", "sleep", "status"}
               /\ f.write /\ pc' = "resume" => f.place = <<ncore', "R0">>
               /\ f.write /\ f.place[2] = "DEBUG" =>
                    \A j \in DOMAIN stimulusArray' : stimulusArray'[j].write => j <= i
    <3>1. CASE i = Len(stimulusArray') /\ stimulusArray'[i] = e
      BY <1>2, <1>7, <3>1
    <3>2. CASE i \in DOMAIN stimulusArray /\ stimulusArray'[i] = stimulusArray[i]
      <4>1. stimulusArray[i].write /\ stimulusArray # <<>>
        BY <1>6, <3>2
      <4>2. pc' = "status"
        BY <4>1
      <4>3. \A j \in DOMAIN stimulusArray' : stimulusArray'[j].write =>
              j \in DOMAIN stimulusArray /\ stimulusArray[j].write
        BY <1>2, <1>4
      <4>4. stimulusArray[i].place[2] = "DEBUG" =>
              \A j \in DOMAIN stimulusArray : stimulusArray[j].write => j <= i
        BY <3>2, <4>1 DEF Batch, HandlerQueue
      <4>5. QED BY <1>7, <3>2, <4>1, <4>2, <4>3, <4>4
    <3>3. QED BY <1>4, <3>1, <3>2
  <2>2. ReadQueued'
    BY <1>2, <1>4 DEF ReadQueued
  <2>3. QED BY <2>1, <2>2 DEF HandlerQueue
<1>10. HandlerAnswers'
  BY DEF HandlerAnswers
<1>11. Attended'
  <2>1. (Running(n)' <=> Running(n)) /\ (NoPost(n)' <=> NoPost(n))
    BY DEF Running, NoPost
  <2>2. pc' \in {"opcode", "arguments", "text"} => ~Running(ncore)' /\ NoPost(ncore)'
    BY <2>1 DEF Running, NoPost
  <2>3. QED BY <1>7, <2>2 DEF Attended
<1>12. ASSUME NEW c \in Core PROVE CoreServed(c)'
  <2>1. Released(c)' <=> Released(c)
    BY <1>5, <1>7 DEF Released
  <2>2. (TextThere(c) <=> TextThere(c)') /\ (NoPost(c)' <=> NoPost(c))
    BY TextSame
  <2>3. \A i \in DOMAIN stimulusArray' : stimulusArray'[i].write =>
          \E j \in DOMAIN stimulusArray : stimulusArray[j] = stimulusArray'[i]
    BY <1>2, <1>4
  <2>4. CoreServed(c)
    BY DEF Batch
  <2>5. NoWrite(c, "R0")' <=> NoWrite(c, "R0")
    BY <1>5
  <2>6. QED BY <2>1, <2>2, <2>3, <2>4, <2>5, CoreSame
<1>13. QED BY <1>8, <1>9, <1>10, <1>11, <1>12 DEF Batch

\* A pass goes on to the next core, or ends.
LEMMA LookStep ==
  ASSUME Batch, NEW n \in Nat, n <= NCORES, Look(n), pc # "resume",
         UNCHANGED <<mode, answers, chip, texts, printed>>,
         \A c \in Core : SameText(c), ~ReadQueued,
         \A i \in DOMAIN answers : answers[i].to \in OwnLoc,
         \A a \in DOMAIN hostMem' : a \in OwnLoc /\ hostMem'[a] \in Word
  PROVE  Batch'
<1>1. CASE n < NCORES /\ ncore' = n /\ Get(n, "DEBUG", "status")
  <2>1. n \in Core
    BY <1>1, DebugHostAssumption DEF Core
  <2>2. "status" \in Polling /\ Sought("status") = "DEBUG"
    BY SoughtIs DEF Polling
  <2>3. PICK q \in Polling : q = "status"
    BY <2>2
  <2>4. /\ stimulusArray' = Append(stimulusArray, Read(<<n, Sought(q)>>, Back(n, Sought(q))))
        /\ await' = Back(n, Sought(q)) /\ pc' = q /\ ncore' = n
    BY <1>1, <2>2, <2>3 DEF Get
  <2>5. QED BY <2>1, <2>3, <2>4, GetStep
<1>2. CASE pc' = "sleep" /\ UNCHANGED <<stimulusArray, await, ncore>>
  <2>1. HandlerTypes'
    BY <1>2 DEF Batch, HandlerTypes
  <2>2. HandlerQueue'
    <3>1. \A i \in DOMAIN stimulusArray : stimulusArray[i].write
      BY DEF ReadQueued
    <3>2. QED BY <1>2, <3>1 DEF Batch, HandlerQueue, Polling
  <2>3. HandlerAnswers' /\ Attended'
    BY <1>2 DEF HandlerAnswers, Attended
  <2>4. ASSUME NEW c \in Core PROVE CoreServed(c)'
    <3>1. (NoWrite(c, "R0")' <=> NoWrite(c, "R0")) /\ (NoWrite(c, "DEBUG")' <=> NoWrite(c, "DEBUG"))
      BY <1>2 DEF NoWrite, Writes
    <3>2. Released(c)' <=> Released(c)
      BY <1>2, <3>1 DEF Released
    <3>3. (TextThere(c) <=> TextThere(c)') /\ (NoPost(c)' <=> NoPost(c))
      BY TextSame
    <3>4. QED BY <1>2, <3>1, <3>2, <3>3, CoreSame DEF Batch
  <2>5. QED BY <2>1, <2>2, <2>3, <2>4 DEF Batch
<1>3. QED BY <1>1, <1>2 DEF Look

\* The handler has served a core: what it printed is complete, and the result is
\* queued or there already.
LEMMA ReleaseStep ==
  ASSUME Batch, pc \in {"opcode", "arguments", "text"}, pc' = "resume", stimulusArray = <<>>,
         UNCHANGED <<mode, ncore, await, answers, chip, texts>>,
         \/ stimulusArray' = <<>> /\ Result(ncore) = "argument"
         \/ stimulusArray' = <<Write(<<ncore, "R0">>, Result(ncore))>> /\ Result(ncore) \in Word,
         printed' \in [Core -> Seq(Word)], \A c \in Core : c # ncore => printed'[c] = printed[c],
         Len(printed'[ncore]) = Len(texts[ncore]), PrintedSame(ncore)',
         \A c \in Core : SameText(c),
         \A i \in DOMAIN answers : answers[i].to \in OwnLoc,
         \A a \in DOMAIN hostMem' : a \in OwnLoc /\ hostMem'[a] \in Word
  PROVE  Batch'
<1>1. PICK e : e = Write(<<ncore, "R0">>, Result(ncore))
  OBVIOUS
<1>2. /\ ncore \in Core /\ e.write /\ e.place = <<ncore, "R0">> /\ e.val = Result(ncore)
      /\ Result(ncore) \in Word => e \in Command
  BY <1>1 DEF Batch, HandlerTypes, Write, Command
<1>3. /\ stimulusArray' \in Seq(Command)
      /\ \A i \in DOMAIN stimulusArray' : i = 1 /\ stimulusArray'[i] = e /\ stimulusArray' = <<e>>
      /\ stimulusArray' = <<>> => chip[<<ncore, "R0">>] = Result(ncore)
      /\ stimulusArray' # <<>> => 1 \in DOMAIN stimulusArray'
  <2>1. CASE stimulusArray' = <<>> /\ Result(ncore) = "argument"
    <3>1. NoWrite(ncore, "DEBUG") /\ ~Released(ncore) /\ ~Running(ncore)
      BY DEF Released, NoWrite, Batch, Attended
    <3>2. chip[<<ncore, "R0">>] = "argument"
      BY <1>2, <3>1 DEF Batch, CoreServed, Unserved
    <3>3. QED BY <2>1, <3>2
  <2>2. CASE stimulusArray' = <<Write(<<ncore, "R0">>, Result(ncore))>> /\ Result(ncore) \in Word
    <3>1. stimulusArray' = <<e>> /\ e \in Command
      BY <1>1, <1>2, <2>2
    <3>2. stimulusArray' # <<>> /\ DOMAIN stimulusArray' = {1} /\ stimulusArray'[1] = e
      BY <3>1
    <3> HIDE DEF Command
    <3>3. stimulusArray' \in Seq(Command)
      BY <3>1
    <3>4. QED BY <3>1, <3>2, <3>3
  <2>3. QED BY <2>1, <2>2
<1>4. HandlerTypes'
  BY <1>3 DEF Batch, HandlerTypes
<1>5. HandlerQueue'
  BY <1>2, <1>3 DEF HandlerQueue, Polling
<1>6. HandlerAnswers'
  BY DEF HandlerAnswers
<1>7. ~Running(ncore) /\ ~Running(ncore)' /\ NoPost(ncore) /\ NoPost(ncore)'
  BY DEF Batch, Attended, Running, NoPost
<1>8. Attended'
  BY <1>7 DEF Attended, Running
<1>9. \A c \in Core : /\ NoWrite(c, "DEBUG") /\ NoWrite(c, "R0") /\ NoWrite(c, "DEBUG")'
                      /\ c # ncore => NoWrite(c, "R0")'
  BY <1>2, <1>3 DEF NoWrite, Writes
<1>10. ASSUME NEW c \in Core, c # ncore PROVE CoreServed(c)'
  <2>1. Released(c)' <=> Released(c)
    BY <1>9, <1>10 DEF Released
  <2>2. (TextThere(c) <=> TextThere(c)') /\ (NoPost(c)' <=> NoPost(c))
    BY TextSame
  <2>3. \A i \in DOMAIN stimulusArray' :
          stimulusArray'[i].write => stimulusArray'[i].place \notin {<<c, "R0">>, <<c, "DEBUG">>}
    BY <1>2, <1>3, <1>10
  <2>4. printed'[c] = printed[c]
    BY <1>10
  <2>5. CoreServed(c)
    BY DEF Batch
  <2>6. NoWrite(c, "R0")' <=> NoWrite(c, "R0")
    BY <1>9, <1>10
  <2>7. QED BY <2>1, <2>2, <2>3, <2>4, <2>5, <2>6, CoreSame
<1>11. CoreServed(ncore)'
  <2>1. Released(ncore)'
    BY DEF Released
  <2>2. Result(ncore)' = Result(ncore)
    BY DEF Result
  <2>3. \A i \in DOMAIN stimulusArray' :
          /\ Writes(i, ncore, "R0")' => Released(ncore)' /\ stimulusArray'[i].val = Result(ncore)'
          /\ Writes(i, ncore, "DEBUG")' => stimulusArray'[i].val = "resume"
    BY <1>2, <1>3, <2>1, <2>2 DEF Writes
  <2>4. chip'[<<ncore, "R0">>] = Result(ncore)' \/ ~NoWrite(ncore, "R0")'
    <3>1. CASE stimulusArray' = <<>>
      BY <1>3, <2>2, <3>1
    <3>2. CASE stimulusArray' # <<>>
      BY <1>2, <1>3, <3>2 DEF NoWrite, Writes
    <3>3. QED BY <3>1, <3>2
  <2>5. \A i \in DOMAIN answers' :
          answers'[i].to = <<ncore, "host">> => answers'[i].val = ToString(Len(texts'[ncore]))
    BY <1>7 DEF NoPost
  <2>6. QED BY <1>7, <2>1, <2>3, <2>4, <2>5 DEF CoreServed
<1>12. \A c \in Core : CoreServed(c)'
  <2>1. \A c \in Core : c = ncore => CoreServed(c)'
    BY <1>11
  <2>2. QED BY <1>10, <2>1
<1>13. QED BY <1>4, <1>5, <1>6, <1>8, <1>12 DEF Batch

LEMMA ResumeStep ==
  ASSUME Batch, Resume PROVE Batch'
<1>1. PICK e : e = Write(<<ncore, "DEBUG">>, "resume")
  OBVIOUS
<1>2. /\ pc = "resume" /\ pc' = "next" /\ stimulusArray' = Append(stimulusArray, e)
      /\ UNCHANGED <<mode, ncore, await, answers, hostMem, chip, texts, printed>>
  BY <1>1 DEF Resume, StdioStep, Set, stdioVars, programVars
<1>3. /\ ncore \in Core /\ e \in Command /\ e.write /\ e.place = <<ncore, "DEBUG">>
      /\ e.val = "resume"
  BY <1>1 DEF Batch, HandlerTypes, Write, Command, Word
<1>4. /\ stimulusArray' \in Seq(Command) /\ Len(stimulusArray) \in Nat
      /\ DOMAIN stimulusArray = 1 .. Len(stimulusArray)
      /\ DOMAIN stimulusArray' = 1 .. Len(stimulusArray) + 1
      /\ stimulusArray'[Len(stimulusArray) + 1] = e
      /\ \A i \in DOMAIN stimulusArray :
           i \in DOMAIN stimulusArray' /\ stimulusArray'[i] = stimulusArray[i]
  <2>1. stimulusArray \in Seq(Command)
    BY DEF Batch, HandlerTypes
  <2> HIDE DEF Command
  <2>2. QED BY <1>2, <1>3, <2>1, Appended
<1>5. \A i \in DOMAIN stimulusArray' :
        \/ i \in DOMAIN stimulusArray /\ stimulusArray'[i] = stimulusArray[i]
        \/ i = Len(stimulusArray) + 1 /\ stimulusArray'[i] = e
  BY <1>4
<1>6. /\ ~ReadQueued /\ \A i \in DOMAIN answers : answers[i].to \in OwnLoc
      /\ \A a \in DOMAIN hostMem : a \in OwnLoc
  BY <1>2, Resting DEF Polling
<1>7. \A i \in DOMAIN stimulusArray :
        stimulusArray[i].write /\ stimulusArray[i].place = <<ncore, "R0">>
  BY <1>2, <1>6 DEF Batch, HandlerQueue, ReadQueued
<1>8. HandlerTypes'
  BY <1>2, <1>4 DEF Batch, HandlerTypes
<1>9. HandlerQueue'
  <2>1. ASSUME NEW i \in DOMAIN stimulusArray'
        PROVE  /\ stimulusArray'[i].write
               /\ stimulusArray'[i].place[2] = "DEBUG" =>
                    \A j \in DOMAIN stimulusArray' : stimulusArray'[j].write => j <= i
    <3>1. CASE i = Len(stimulusArray) + 1 /\ stimulusArray'[i] = e
      BY <1>3, <1>4, <3>1
    <3>2. CASE i \in DOMAIN stimulusArray /\ stimulusArray'[i] = stimulusArray[i]
      BY <1>7, <3>2
    <3>3. QED BY <1>5, <3>1, <3>2
  <2>2. QED BY <1>2, <2>1 DEF HandlerQueue, Polling
<1>10. HandlerAnswers' /\ Attended'
  BY <1>2, <1>6 DEF HandlerAnswers, Attended
<1>11. ASSUME NEW c \in Core, c # ncore PROVE CoreServed(c)'
  <2>1. /\ NoWrite(c, "R0")' <=> NoWrite(c, "R0")
        /\ NoWrite(c, "DEBUG")' <=> NoWrite(c, "DEBUG")
    BY <1>3, <1>4, <1>5, <1>11 DEF NoWrite, Writes
  <2>2. Released(c)' <=> Released(c)
    BY <1>2, <1>11, <2>1 DEF Released
  <2>3. SameText(c)
    BY <1>2 DEF SameText, Stored
  <2>4. (TextThere(c) <=> TextThere(c)') /\ (NoPost(c)' <=> NoPost(c))
    BY <1>2, <2>3, TextSame
  <2>5. \A i \in DOMAIN stimulusArray' :
          stimulusArray'[i].write /\ stimulusArray'[i].place \in {<<c, "R0">>, <<c, "DEBUG">>} =>
            \E j \in DOMAIN stimulusArray : stimulusArray[j] = stimulusArray'[i]
    BY <1>3, <1>5, <1>11
  <2>6. CoreServed(c)
    BY DEF Batch
  <2>7. QED BY <1>2, <2>1, <2>2, <2>4, <2>5, <2>6, CoreSame
<1>12. CoreServed(ncore)'
  <2>1. Released(ncore) /\ ~Running(ncore) /\ ~Running(ncore)'
    BY <1>2 DEF Released, Batch, Attended, Running
  <2>2. /\ PrintedSame(ncore) /\ Len(printed[ncore]) = Len(texts[ncore]) /\ NoPost(ncore)
        /\ chip[<<ncore, "R0">>] = Result(ncore) \/ ~NoWrite(ncore, "R0")
        /\ \A i \in DOMAIN stimulusArray :
             Writes(i, ncore, "R0") => stimulusArray[i].val = Result(ncore)
        /\ \A i \in DOMAIN answers :
             answers[i].to = <<ncore, "host">> => answers[i].val = ToString(Len(texts[ncore]))
    BY <1>3, <2>1 DEF Batch, CoreServed
  <2>3. PrintedSame(ncore)' /\ NoPost(ncore)' /\ Result(ncore)' = Result(ncore)
    BY <1>2, <2>2 DEF PrintedSame, NoPost, Result
  <2>4. ~NoWrite(ncore, "DEBUG")'
    <3>1. Len(stimulusArray) + 1 \in DOMAIN stimulusArray'
      BY <1>4
    <3>2. /\ stimulusArray'[Len(stimulusArray) + 1].write
          /\ stimulusArray'[Len(stimulusArray) + 1].place = <<ncore', "DEBUG">>
      BY <1>2, <1>3, <1>4
    <3>3. QED BY <3>1, <3>2 DEF NoWrite, Writes
  <2>5. Released(ncore)'
    BY <1>2, <2>4 DEF Released
  <2>6. ~NoWrite(ncore, "R0") => ~NoWrite(ncore, "R0")'
    BY <1>2, <1>4 DEF NoWrite, Writes
  <2>7. \A i \in DOMAIN stimulusArray' :
          /\ Writes(i, ncore, "R0")' => stimulusArray'[i].val = Result(ncore)'
          /\ Writes(i, ncore, "DEBUG")' => stimulusArray'[i].val = "resume"
    <3> TAKE i \in DOMAIN stimulusArray'
    <3>1. CASE i \in DOMAIN stimulusArray /\ stimulusArray'[i] = stimulusArray[i]
      BY <1>2, <1>7, <2>2, <2>3, <3>1 DEF Writes
    <3>2. CASE stimulusArray'[i] = e
      BY <1>2, <1>3, <3>2 DEF Writes
    <3>3. QED BY <1>5, <3>1, <3>2
  <2>8. QED BY <1>2, <2>1, <2>2, <2>3, <2>5, <2>6, <2>7 DEF CoreServed
<1>13. \A c \in Core : CoreServed(c)'
  <2>1. \A c \in Core : c = ncore => CoreServed(c)'
    BY <1>2, <1>12
  <2>2. QED BY <1>11, <2>1
<1>14. QED BY <1>2, <1>8, <1>9, <1>10, <1>13 DEF Batch

\* The text of a write is printed: the one it meant, if the host has it.
LEMMA PrintStep ==
  ASSUME Batch, NEW from \in {"arguments", "text"}, Got(from), NEW w \in Word, PrintText(w),
         chip[<<ncore, "R1">>] = "host" => w = ToString(Len(texts[ncore])), UNCHANGED ncore
  PROVE  Batch'
<1>1. /\ pc = from /\ Stored(await) /\ hostMem' = Erase(await)
      /\ UNCHANGED <<mode, answers, chip, texts>>
  BY DEF Got, StdioStep, programVars
<1>2. /\ pc' = "resume" /\ UNCHANGED await
      /\ printed' = [printed EXCEPT ![ncore] = Append(@, w)]
      /\ stimulusArray' = Append(stimulusArray, Write(<<ncore, "R0">>, "length"))
  BY DEF PrintText, Set
<1>3. /\ stimulusArray = <<>> /\ ~ReadQueued
      /\ \A i \in DOMAIN answers : answers[i].to \in OwnLoc
      /\ \A a \in DOMAIN hostMem' : a \in OwnLoc /\ hostMem'[a] \in Word
      /\ \A c \in Core : SameText(c)
  BY <1>1, Taking DEF Polling
<1>4. /\ ncore \in Core /\ ~Running(ncore) /\ chip[<<ncore, "opcode">>] = "WRITE"
      /\ texts[ncore] \in Seq({"host", "local", "global"}) /\ printed[ncore] \in Seq(Word)
      /\ DOMAIN printed = Core
  BY <1>1 DEF Batch, Attended, HandlerTypes
<1>5. ~Released(ncore)
  BY <1>1, <1>3 DEF Released, NoWrite
<1>6. /\ Len(texts[ncore]) = Len(printed[ncore]) + 1 /\ PrintedSame(ncore)
      /\ chip[<<ncore, "R1">>] = texts[ncore][Len(texts[ncore])]
  BY <1>4, <1>5 DEF Batch, CoreServed, Unserved
<1>7. PICK p : p = printed[ncore]
  OBVIOUS
<1>8. /\ Append(p, w) \in Seq(Word) /\ Len(p) \in Nat /\ DOMAIN p = 1 .. Len(p)
      /\ Len(Append(p, w)) = Len(p) + 1 /\ DOMAIN Append(p, w) = 1 .. Len(p) + 1
      /\ Append(p, w)[Len(p) + 1] = w
      /\ \A i \in DOMAIN p : i \in DOMAIN Append(p, w) /\ Append(p, w)[i] = p[i]
  <2> HIDE DEF Word
  <2> QED BY <1>4, <1>7, Appended
<1>9. /\ printed'[ncore] = Append(p, w) /\ printed' \in [Core -> Seq(Word)]
      /\ \A c \in Core : c # ncore => printed'[c] = printed[c]
  <2>1. Append(p, w) \in Seq(Word) /\ printed \in [Core -> Seq(Word)]
    BY <1>8 DEF Batch, HandlerTypes
  <2> HIDE DEF Word
  <2>2. QED BY <1>2, <1>4, <1>7, <2>1
<1>10. PrintedSame(ncore)'
  <2>1. ASSUME NEW i \in 1 .. Len(p) + 1, texts[ncore][i] = "host"
        PROVE  Append(p, w)[i] = ToString(i)
    <3>1. CASE i \in DOMAIN p
      BY <1>6, <1>7, <1>8, <2>1, <3>1 DEF PrintedSame
    <3>2. CASE i = Len(p) + 1
      <4>1. i = Len(texts[ncore])
        BY <1>6, <1>7, <3>2
      <4>2. w = ToString(i)
        BY <1>6, <2>1, <4>1
      <4>3. QED BY <1>8, <3>2, <4>2
    <3>3. i \in DOMAIN p \/ i = Len(p) + 1
      BY <1>8
    <3>4. QED BY <3>1, <3>2, <3>3
  <2>2. \A i \in DOMAIN printed'[ncore] :
          texts[ncore][i] = "host" => printed'[ncore][i] = ToString(i)
    BY <1>8, <1>9, <2>1
  <2>3. QED BY <1>1, <2>2 DEF PrintedSame
<1>11. Result(ncore) = "length" /\ "length" \in Word
  BY <1>4 DEF Result, Word
<1>12. stimulusArray' = <<Write(<<ncore, "R0">>, Result(ncore))>>
  BY <1>2, <1>3, <1>11
<1>13. Len(printed'[ncore]) = Len(texts[ncore])
  BY <1>6, <1>7, <1>8, <1>9
<1>14. pc \in {"opcode", "arguments", "text"} /\ Result(ncore) \in Word
  BY <1>1, <1>11
<1> HIDE DEF Word
<1>15. QED BY <1>1, <1>2, <1>3, <1>9, <1>10, <1>12, <1>13, <1>14, ReleaseStep

LEMMA BatchSame ==
  ASSUME Batch, UNCHANGED <<mode, pc, ncore, stimulusArray, answers, hostMem, chip, await, texts,
                            printed>>
  PROVE  Batch'
<1>1. HandlerTypes'
  BY DEF Batch, HandlerTypes
<1>2. HandlerQueue'
  BY DEF Batch, HandlerQueue, ReadQueued
<1>3. HandlerAnswers'
  BY DEF Batch, HandlerAnswers, ReadQueued, Stored, Tells, Running, NoPost
<1>4. Attended'
  BY DEF Batch, Attended, Running, NoPost
<1>5. ASSUME NEW c \in Core PROVE CoreServed(c)'
  <2>1. /\ NoWrite(c, "R0")' <=> NoWrite(c, "R0")
        /\ NoWrite(c, "DEBUG")' <=> NoWrite(c, "DEBUG")
    BY DEF NoWrite, Writes
  <2>2. Released(c)' <=> Released(c)
    BY <2>1 DEF Released
  <2>3. SameText(c)
    BY DEF SameText, Stored
  <2>4. (TextThere(c) <=> TextThere(c)') /\ (NoPost(c)' <=> NoPost(c))
    BY <2>3, TextSame
  <2>5. CoreServed(c)
    BY DEF Batch
  <2>6. QED BY <2>1, <2>2, <2>4, <2>5, CoreSame
<1>6. QED BY <1>1, <1>2, <1>3, <1>4, <1>5 DEF Batch

LEMMA PassStep ==
  ASSUME Batch, Pass \/ NextCore PROVE Batch'
<1>1. PICK n : n = IF Pass THEN 0 ELSE ncore + 1
  OBVIOUS
<1>2. /\ pc \in {"sleep", "next"} /\ Look(n)
      /\ UNCHANGED <<mode, answers, hostMem, chip, texts, printed>>
  BY <1>1 DEF Pass, NextCore, StdioStep, programVars
<1>3. n \in Nat /\ n <= NCORES
  BY <1>1, DebugHostAssumption DEF Batch, HandlerTypes, Core
<1>4. /\ ~ReadQueued /\ \A i \in DOMAIN answers : answers[i].to \in OwnLoc
      /\ \A a \in DOMAIN hostMem : a \in OwnLoc
  BY <1>2, Resting DEF Polling
<1>5. \A a \in DOMAIN hostMem' : a \in OwnLoc /\ hostMem'[a] \in Word
  BY <1>2, <1>4 DEF Batch, HandlerTypes
<1>6. \A c \in Core : SameText(c)
  BY <1>2 DEF SameText, Stored
<1>7. pc # "resume"
  BY <1>2
<1> HIDE DEF Word
<1>8. QED BY <1>2, <1>3, <1>4, <1>5, <1>6, <1>7, LookStep

\* After its answer the handler asks the core for more.
LEMMA AskMore ==
  ASSUME Batch, NEW from \in Polling, Got(from), NEW q \in {"opcode", "arguments", "text"},
         Get(ncore, Sought(q), q), UNCHANGED <<ncore, printed>>,
         ~Running(ncore), NoPost(ncore),
         q \in {"arguments", "text"} => chip[<<ncore, "opcode">>] = "WRITE",
         q = "text" => chip[<<ncore, "R1">>] = "global"
  PROVE  Batch'
<1>1. /\ pc = from /\ Stored(await) /\ hostMem' = Erase(await)
      /\ UNCHANGED <<mode, answers, chip, texts>>
  BY DEF Got, StdioStep, programVars
<1>2. /\ stimulusArray = <<>> /\ ~ReadQueued
      /\ \A i \in DOMAIN answers : answers[i].to \in OwnLoc
      /\ \A a \in DOMAIN hostMem' : a \in OwnLoc /\ hostMem'[a] \in Word
      /\ \A c \in Core : SameText(c)
  BY <1>1, Taking
<1>3. PICK n \in Core : n = ncore
  BY DEF Batch, HandlerTypes
<1>4. /\ stimulusArray' = Append(stimulusArray, Read(<<n, Sought(q)>>, Back(n, Sought(q))))
      /\ await' = Back(n, Sought(q)) /\ pc' = q /\ ncore' = n
  BY <1>3 DEF Get
<1>5. /\ q \in Polling /\ pc # "resume" /\ q # "status"
      /\ ~Running(n) /\ NoPost(n)
  BY <1>1, <1>3 DEF Polling
<1>6. /\ q \in {"arguments", "text"} => chip[<<n, "opcode">>] = "WRITE"
      /\ q = "text" => chip[<<n, "R1">>] = "global"
  BY <1>3
<1> HIDE DEF Word, Polling
<1>7. QED BY <1>1, <1>2, <1>4, <1>5, <1>6, GetStep

LEMMA CoreStatusStep ==
  ASSUME Batch, CoreStatus PROVE Batch'
<1>1. /\ pc = "status" /\ Stored(await) /\ hostMem' = Erase(await) /\ Got("status")
      /\ UNCHANGED <<mode, answers, chip, texts, printed>>
      /\ IF hostMem[await] = "resume" THEN Look(ncore + 1)
         ELSE Get(ncore, "opcode", "opcode") /\ UNCHANGED ncore
  BY DEF CoreStatus, Got, StdioStep, programVars
<1>2. /\ ~ReadQueued /\ \A i \in DOMAIN answers : answers[i].to \in OwnLoc
      /\ \A a \in DOMAIN hostMem' : a \in OwnLoc /\ hostMem'[a] \in Word
      /\ \A c \in Core : SameText(c)
      /\ Tells(hostMem[await]) /\ (hostMem[await] = "halt" => NoPost(ncore))
  BY <1>1, Taking DEF Polling
<1>3. CASE hostMem[await] = "resume"
  <2>1. ncore + 1 \in Nat /\ ncore + 1 <= NCORES
    BY DebugHostAssumption DEF Batch, HandlerTypes, Core
  <2> HIDE DEF Word
  <2>2. QED BY <1>1, <1>2, <1>3, <2>1, LookStep
<1>4. CASE hostMem[await] # "resume"
  <2>1. hostMem[await] = "halt" /\ ~Running(ncore) /\ NoPost(ncore)
    BY <1>1, <1>2, <1>4 DEF Tells
  <2>2. "status" \in Polling /\ Sought("opcode") = "opcode"
    BY SoughtIs DEF Polling
  <2>3. PICK q \in {"opcode", "arguments", "text"} : q = "opcode"
    OBVIOUS
  <2>4. Get(ncore, Sought(q), q) /\ q \notin {"arguments", "text"} /\ UNCHANGED <<ncore, printed>>
    BY <1>1, <1>4, <2>2, <2>3
  <2> HIDE DEF Polling
  <2>5. QED BY <1>1, <2>1, <2>2, <2>4, AskMore
<1>5. QED BY <1>3, <1>4

LEMMA TrapOpcodeStep ==
  ASSUME Batch, TrapOpcode PROVE Batch'
<1>1. /\ pc = "opcode" /\ Stored(await) /\ hostMem' = Erase(await) /\ Got("opcode")
      /\ UNCHANGED <<mode, answers, chip, texts, printed, ncore>>
  BY DEF TrapOpcode, Got, StdioStep, programVars
<1>2. /\ stimulusArray = <<>> /\ ~ReadQueued
      /\ \A i \in DOMAIN answers : answers[i].to \in OwnLoc
      /\ \A a \in DOMAIN hostMem' : a \in OwnLoc /\ hostMem'[a] \in Word
      /\ \A c \in Core : SameText(c)
      /\ Tells(hostMem[await])
  BY <1>1, Taking DEF Polling
<1>3. /\ ncore \in Core /\ ~Running(ncore) /\ NoPost(ncore)
      /\ hostMem[await] = chip[<<ncore, "opcode">>]
  BY <1>1, <1>2, SoughtIs DEF Batch, HandlerTypes, Attended, Tells
<1>4. ~Released(ncore)
  BY <1>1, <1>2 DEF Released, NoWrite
<1>5. /\ PrintedSame(ncore)
      /\ chip[<<ncore, "opcode">>] # "WRITE" => Len(printed[ncore]) = Len(texts[ncore])
  BY <1>3, <1>4 DEF Batch, CoreServed, Unserved
<1>6. /\ printed' \in [Core -> Seq(Word)] /\ PrintedSame(ncore)'
      /\ \A c \in Core : c # ncore => printed'[c] = printed[c]
  BY <1>1, <1>5 DEF Batch, HandlerTypes, PrintedSame
<1>7. CASE hostMem[await] = "WRITE" /\ Get(ncore, "R1", "arguments")
  <2>1. "opcode" \in Polling /\ Sought("arguments") = "R1"
    BY SoughtIs DEF Polling
  <2>2. PICK q \in {"opcode", "arguments", "text"} : q = "arguments"
    OBVIOUS
  <2>3. Get(ncore, Sought(q), q) /\ q # "text"
    BY <1>7, <2>1, <2>2
  <2> HIDE DEF Polling
  <2>4. QED BY <1>1, <1>3, <1>7, <2>1, <2>3, AskMore
<1>8. CASE hostMem[await] = "CLOSE" /\ Set("R0", "zero") /\ pc' = "resume" /\ UNCHANGED await
  <2>1. Result(ncore) = "zero" /\ Result(ncore) \in Word
    BY <1>3, <1>8 DEF Result, Word
  <2>2. stimulusArray' = <<Write(<<ncore, "R0">>, Result(ncore))>>
    BY <1>2, <1>8, <2>1 DEF Set
  <2>3. Len(printed'[ncore]) = Len(texts[ncore])
    BY <1>1, <1>3, <1>5, <1>8
  <2> HIDE DEF Word
  <2>4. QED BY <1>1, <1>2, <1>6, <1>8, <2>1, <2>2, <2>3, ReleaseStep
<1>9. CASE hostMem[await] = "OTHER" /\ pc' = "resume" /\ UNCHANGED <<stimulusArray, await>>
  <2>1. Result(ncore) = "argument"
    BY <1>3, <1>9 DEF Result
  <2>2. Len(printed'[ncore]) = Len(texts[ncore])
    BY <1>1, <1>3, <1>5, <1>9
  <2> HIDE DEF Word
  <2>3. QED BY <1>1, <1>2, <1>6, <1>9, <2>1, <2>2, ReleaseStep
<1>10. CASE hostMem[await] \in {"EXIT", "BKPT"} /\ stopped' = TRUE
            /\ UNCHANGED <<stimulusArray, await, pc>>
  <2>1. HandlerTypes'
    BY <1>1, <1>2, <1>10 DEF Batch, HandlerTypes
  <2>2. HandlerQueue'
    BY <1>1, <1>2, <1>10 DEF Batch, HandlerQueue, ReadQueued
  <2>3. HandlerAnswers'
    BY <1>1, <1>2 DEF HandlerAnswers
  <2>4. Attended'
    BY <1>1, <1>10 DEF Batch, Attended, Running, NoPost
  <2>5. ASSUME NEW c \in Core PROVE CoreServed(c)'
    <3>1. /\ NoWrite(c, "R0")' <=> NoWrite(c, "R0")
          /\ NoWrite(c, "DEBUG")' <=> NoWrite(c, "DEBUG")
      BY <1>10 DEF NoWrite, Writes
    <3>2. Released(c)' <=> Released(c)
      BY <1>1, <1>10, <3>1 DEF Released
    <3>3. (TextThere(c) <=> TextThere(c)') /\ (NoPost(c)' <=> NoPost(c))
      BY <1>1, <1>2, TextSame
    <3>4. CoreServed(c)
      BY DEF Batch
    <3>5. QED BY <1>1, <1>10, <3>1, <3>2, <3>3, <3>4, CoreSame
  <2>6. QED BY <1>1, <2>1, <2>2, <2>3, <2>4, <2>5 DEF Batch
<1>11. QED BY <1>7, <1>8, <1>9, <1>10 DEF TrapOpcode, HandleStopSignal

LEMMA ArgumentsStep ==
  ASSUME Batch, Arguments PROVE Batch'
<1>1. /\ pc = "arguments" /\ Stored(await) /\ hostMem' = Erase(await) /\ Got("arguments")
      /\ UNCHANGED ncore
  BY DEF Arguments, Got, StdioStep
<1>2. stimulusArray = <<>> /\ Tells(hostMem[await])
  BY <1>1, Taking DEF Polling
<1>3. /\ ncore \in Core /\ ~Running(ncore) /\ NoPost(ncore)
      /\ chip[<<ncore, "opcode">>] = "WRITE" /\ hostMem[await] = chip[<<ncore, "R1">>]
  BY <1>1, <1>2, SoughtIs DEF Batch, HandlerTypes, Attended, Tells
<1>4. ~Released(ncore)
  BY <1>1, <1>2 DEF Released, NoWrite
<1>5. /\ chip[<<ncore, "R1">>] = texts[ncore][Len(texts[ncore])]
      /\ texts[ncore][Len(texts[ncore])] = "host" => TextThere(ncore)
  BY <1>3, <1>4 DEF Batch, CoreServed, Unserved
<1>6. "zero" \in Word /\ \A a \in DOMAIN hostMem : hostMem[a] \in Word
  BY DEF Batch, HandlerTypes, Word
<1>7. CASE hostMem[await] = "host" /\ PrintText(HostValue(<<ncore, "host">>))
  <2>1. /\ Stored(<<ncore, "host">>)
        /\ hostMem[<<ncore, "host">>] = ToString(Len(texts[ncore]))
    BY <1>3, <1>5, <1>7 DEF TextThere
  <2>2. PICK w : w = HostValue(<<ncore, "host">>)
    OBVIOUS
  <2>3. w = ToString(Len(texts[ncore])) /\ w \in Word
    BY <1>6, <2>1, <2>2 DEF HostValue, Stored
  <2> HIDE DEF Word
  <2>4. QED BY <1>1, <1>7, <2>2, <2>3, PrintStep
<1>8. CASE hostMem[await] = "local" /\ PrintText(HostValue(<<ncore, "mem">>))
  <2>1. PICK w : w = HostValue(<<ncore, "mem">>)
    OBVIOUS
  <2>2. w \in Word
    BY <1>6, <2>1 DEF HostValue, Stored
  <2>3. chip[<<ncore, "R1">>] # "host"
    BY <1>3, <1>8
  <2> HIDE DEF Word
  <2>4. QED BY <1>1, <1>8, <2>1, <2>2, <2>3, PrintStep
<1>9. CASE hostMem[await] = "global" /\ Get(ncore, "beyond", "text") /\ UNCHANGED printed
  <2>1. "arguments" \in Polling /\ Sought("text") = "beyond"
    BY SoughtIs DEF Polling
  <2>2. PICK q \in {"opcode", "arguments", "text"} : q = "text"
    OBVIOUS
  <2>3. Get(ncore, Sought(q), q) /\ UNCHANGED <<ncore, printed>>
    BY <1>1, <1>9, <2>1, <2>2
  <2>4. chip[<<ncore, "R1">>] = "global"
    BY <1>3, <1>9
  <2> HIDE DEF Polling
  <2>5. QED BY <1>1, <1>3, <2>1, <2>3, <2>4, AskMore
<1>10. QED BY <1>7, <1>8, <1>9 DEF Arguments

LEMMA TextStep ==
  ASSUME Batch, Text PROVE Batch'
<1>1. /\ pc = "text" /\ Got("text") /\ PrintText(hostMem[await]) /\ UNCHANGED ncore
      /\ Stored(await)
  BY DEF Text, Got, StdioStep
<1>2. chip[<<ncore, "R1">>] # "host"
  BY <1>1 DEF Batch, Attended
<1>3. PICK w : w = hostMem[await]
  OBVIOUS
<1>4. w \in Word
  BY <1>1, <1>3 DEF Stored, Batch, HandlerTypes
<1> HIDE DEF Word
<1>5. QED BY <1>1, <1>2, <1>3, <1>4, PrintStep

LEMMA StdioStepSafe ==
  ASSUME Batch, StdioHandler PROVE Batch'
<1>1. CASE GiveUp
  <2>1. UNCHANGED <<mode, pc, ncore, stimulusArray, answers, hostMem, chip, await, texts,
                    printed>>
    BY <1>1 DEF GiveUp, StdioStep, programVars
  <2>2. QED BY <2>1, BatchSame
<1>2. QED
  BY <1>1, PassStep, CoreStatusStep, TrapOpcodeStep, ArgumentsStep, TextStep, ResumeStep
  DEF StdioHandler

\* What is behind the head of the queue goes on.
LEMMA QueueFollows ==
  ASSUME Batch, stimulusArray # <<>>, stimulusArray' = Tail(stimulusArray)
  PROVE  /\ 1 \in DOMAIN stimulusArray /\ Head(stimulusArray) = stimulusArray[1]
         /\ stimulusArray[1] \in Command /\ stimulusArray' \in Seq(Command)
         /\ Len(stimulusArray) \in Nat \ {0} /\ DOMAIN stimulusArray = 1 .. Len(stimulusArray)
         /\ Len(stimulusArray') = Len(stimulusArray) - 1
         /\ \A i \in DOMAIN stimulusArray' : /\ i + 1 \in DOMAIN stimulusArray /\ i \in Nat
                                             /\ stimulusArray'[i] = stimulusArray[i + 1]
         /\ \A i \in DOMAIN stimulusArray : i = 1 \/ \E j \in DOMAIN stimulusArray' : i = j + 1
<1>1. stimulusArray \in Seq(Command)
  BY DEF Batch, HandlerTypes
<1>2. PICK n : n = Len(stimulusArray)
  OBVIOUS
<1>3. /\ n \in Nat \ {0} /\ DOMAIN stimulusArray = 1 .. n
      /\ Head(stimulusArray) = stimulusArray[1] /\ stimulusArray[1] \in Command
      /\ stimulusArray' \in Seq(Command) /\ Len(stimulusArray') = n - 1
      /\ DOMAIN stimulusArray' = 1 .. n - 1
      /\ \A i \in DOMAIN stimulusArray' : /\ i + 1 \in DOMAIN stimulusArray
                                          /\ stimulusArray'[i] = stimulusArray[i + 1]
  <2> HIDE DEF Command
  <2> QED BY <1>1, <1>2, Followed
<1>4. ASSUME NEW i \in 1 .. n, i # 1 PROVE \E j \in DOMAIN stimulusArray' : i = j + 1
  <2>1. i - 1 \in 1 .. n - 1 /\ i = (i - 1) + 1
    BY <1>3, <1>4
  <2>2. QED BY <1>3, <2>1
<1>5. 1 \in DOMAIN stimulusArray /\ \A i \in DOMAIN stimulusArray' : i \in Nat
  BY <1>3
<1>6. QED BY <1>2, <1>3, <1>4, <1>5

\* A result, or the resume that follows it, goes into the chip.
LEMMA ResultDelivered ==
  ASSUME Batch, Deliver, stimulusArray[1].write PROVE Batch'
<1>1. PICK e : e = stimulusArray[1]
  OBVIOUS
<1>2. /\ stimulusArray # <<>> /\ stimulusArray' = Tail(stimulusArray)
      /\ UNCHANGED <<hostMem, mode, pc, await, ncore, texts, printed>>
  BY DEF Deliver, PortStep, stdioVars, programVars
<1>3. /\ 1 \in DOMAIN stimulusArray /\ Head(stimulusArray) = e
      /\ e \in Command /\ stimulusArray' \in Seq(Command)
      /\ Len(stimulusArray) \in Nat \ {0} /\ DOMAIN stimulusArray = 1 .. Len(stimulusArray)
      /\ Len(stimulusArray') = Len(stimulusArray) - 1
      /\ \A i \in DOMAIN stimulusArray' : /\ i + 1 \in DOMAIN stimulusArray /\ i \in Nat
                                          /\ stimulusArray'[i] = stimulusArray[i + 1]
      /\ \A i \in DOMAIN stimulusArray : i = 1 \/ \E j \in DOMAIN stimulusArray' : i = j + 1
  BY <1>1, <1>2, QueueFollows
<1>4. chip' = [chip EXCEPT ![e.place] = e.val] /\ UNCHANGED answers
  BY <1>1, <1>3 DEF Deliver
<1>5. e.write /\ e.place \in Core \X {"R0", "DEBUG"} /\ e.val \in Word
  BY <1>1, <1>3, CommandIs
<1>6. /\ pc \in {"resume", "next", "sleep", "status"}
      /\ pc = "resume" => e.place = <<ncore, "R0">>
      /\ e.place[2] = "DEBUG" => \A j \in DOMAIN stimulusArray : stimulusArray[j].write => j <= 1
      /\ pc \in Polling => await = Back(ncore, Sought(pc)) /\ ReadQueued
  BY <1>1, <1>2, <1>3, <1>5 DEF Batch, HandlerQueue
<1>7. /\ \A i \in DOMAIN answers : answers[i].to \in OwnLoc
      /\ \A a \in DOMAIN hostMem : a \in OwnLoc
  BY <1>6 DEF Batch, HandlerAnswers
<1>8. /\ DOMAIN chip = Place /\ DOMAIN chip' = Place
      /\ \A p \in Place : chip'[p] = IF p = e.place THEN e.val ELSE chip[p]
  BY <1>4 DEF Batch, HandlerTypes
<1>9. e.place[2] = "DEBUG" => e.val = "resume"
  <2>1. PICK c \in Core : e.place = <<c, "R0">> \/ e.place = <<c, "DEBUG">>
    BY <1>5
  <2>2. Writes(1, c, "DEBUG") => e.val = "resume"
    BY <1>1, <1>3 DEF Batch, CoreServed
  <2>3. QED BY <1>1, <1>5, <2>1, <2>2 DEF Writes
<1>10. HandlerTypes'
  <2>1. \A p \in Place : chip'[p] \in Word
    BY <1>5, <1>8 DEF Batch, HandlerTypes
  <2>2. ASSUME NEW c \in Core PROVE chip'[<<c, "DEBUG">>] \in {"resume", "halt"}
    <3>1. <<c, "DEBUG">> \in Place /\ chip[<<c, "DEBUG">>] \in {"resume", "halt"}
      BY DEF Place, Batch, HandlerTypes
    <3>2. QED BY <1>8, <1>9, <3>1
  <2>3. QED BY <1>2, <1>3, <1>4, <1>8, <2>1, <2>2 DEF Batch, HandlerTypes
<1>11. HandlerQueue'
  <2>1. ASSUME NEW i \in DOMAIN stimulusArray'
        PROVE  LET f == stimulusArray'[i] IN
               /\ ~f.write => /\ i = Len(stimulusArray') /\ pc \in Polling
                              /\ f.place = <<ncore, Sought(pc)>> /\ f.back = await
               /\ f.write => pc \in {"resume", "next", "sleep", "status"}
               /\ f.write /\ pc = "resume" => f.place = <<ncore, "R0">>
               /\ f.write /\ f.place[2] = "DEBUG" =>
                    \A j \in DOMAIN stimulusArray' : stimulusArray'[j].write => j <= i
    <3>1. PICK k : k = i + 1
      OBVIOUS
    <3>2. /\ k \in DOMAIN stimulusArray /\ i \in Nat /\ stimulusArray'[i] = stimulusArray[k]
          /\ \A j \in DOMAIN stimulusArray' : /\ j + 1 \in DOMAIN stimulusArray /\ j \in Nat
                                              /\ stimulusArray'[j] = stimulusArray[j + 1]
      BY <1>3, <3>1
    <3>3. LET f == stimulusArray[k] IN
          /\ ~f.write => /\ k = Len(stimulusArray) /\ pc \in Polling
                         /\ f.place = <<ncore, Sought(pc)>> /\ f.back = await
          /\ f.write => pc \in {"resume", "next", "sleep", "status"}
          /\ f.write /\ pc = "resume" => f.place = <<ncore, "R0">>
          /\ f.write /\ f.place[2] = "DEBUG" =>
               \A j \in DOMAIN stimulusArray : stimulusArray[j].write => j <= k
      BY <3>2 DEF Batch, HandlerQueue
    <3>4. k = Len(stimulusArray) => i = Len(stimulusArray')
      BY <1>3, <3>1, <3>2
    <3>5. stimulusArray[k].write /\ stimulusArray[k].place[2] = "DEBUG" =>
            \A j \in DOMAIN stimulusArray' : stimulusArray'[j].write => j <= i
      BY <3>1, <3>2, <3>3
    <3>6. QED BY <3>2, <3>3, <3>4, <3>5
  <2>2. ReadQueued => ReadQueued'
    BY <1>1, <1>3, <1>5 DEF ReadQueued
  <2>3. QED BY <1>2, <1>6, <2>1, <2>2 DEF HandlerQueue
<1>12. HandlerAnswers'
  BY <1>2, <1>4, <1>7 DEF HandlerAnswers
<1>13. Attended'
  <2>1. pc = "resume" => ~Running(ncore) /\ ncore \in Core
    BY DEF Batch, Attended, HandlerTypes
  <2>2. pc = "resume" => <<ncore, "DEBUG">> \in Place /\ <<ncore, "DEBUG">> # e.place
    BY <1>6, <2>1 DEF Place
  <2>3. pc = "resume" => ~Running(ncore)'
    BY <1>2, <1>8, <2>1, <2>2 DEF Running
  <2>4. QED BY <1>2, <1>6, <2>3 DEF Attended
<1>14. ASSUME NEW c \in Core, NEW r
       PROVE  /\ NoWrite(c, r) => NoWrite(c, r)'
              /\ e.place # <<c, r>> => (NoWrite(c, r)' <=> NoWrite(c, r))
  BY <1>1, <1>3 DEF NoWrite, Writes
<1>15. ASSUME NEW c \in Core PROVE (TextThere(c) <=> TextThere(c)') /\ (NoPost(c)' <=> NoPost(c))
  <2>1. SameText(c)
    BY <1>2 DEF SameText, Stored
  <2>2. QED BY <1>2, <1>4, <2>1, TextSame
<1>16. ASSUME NEW c \in Core, e.place[1] # c PROVE CoreServed(c)'
  <2>1. \A r \in {"DEBUG", "opcode", "R0", "R1"} : <<c, r>> \in Place /\ <<c, r>> # e.place
    BY <1>16 DEF Place
  <2>2. \A r \in {"DEBUG", "opcode", "R0", "R1"} : chip'[<<c, r>>] = chip[<<c, r>>]
    BY <1>8, <2>1
  <2>3. /\ NoWrite(c, "R0")' <=> NoWrite(c, "R0")
        /\ NoWrite(c, "DEBUG")' <=> NoWrite(c, "DEBUG")
    BY <1>14, <2>1
  <2>4. Released(c)' <=> Released(c)
    BY <1>2, <2>3 DEF Released
  <2>5. \A i \in DOMAIN stimulusArray' :
          \E j \in DOMAIN stimulusArray : stimulusArray[j] = stimulusArray'[i]
    BY <1>3
  <2>6. CoreServed(c)
    BY DEF Batch
  <2>7. QED BY <1>2, <1>4, <1>15, <2>2, <2>3, <2>4, <2>5, <2>6, CoreSame
<1>17. ASSUME NEW c \in Core, e.place = <<c, "R0">> PROVE CoreServed(c)'
  <2>1. Writes(1, c, "R0")
    BY <1>1, <1>5, <1>17 DEF Writes
  <2>2. Released(c) /\ e.val = Result(c)
    <3>1. \A i \in DOMAIN stimulusArray :
            Writes(i, c, "R0") => Released(c) /\ stimulusArray[i].val = Result(c)
      BY DEF Batch, CoreServed
    <3>2. QED BY <1>1, <1>3, <2>1, <3>1
  <2>3. /\ PrintedSame(c) /\ ~Running(c) /\ Len(printed[c]) = Len(texts[c]) /\ NoPost(c)
        /\ \A i \in DOMAIN answers :
             answers[i].to = <<c, "host">> => answers[i].val = ToString(Len(texts[c]))
    BY <2>2 DEF Batch, CoreServed
  <2>4. /\ chip'[<<c, "DEBUG">>] = chip[<<c, "DEBUG">>]
        /\ chip'[<<c, "opcode">>] = chip[<<c, "opcode">>] /\ chip'[<<c, "R0">>] = Result(c)
    BY <1>8, <1>17, <2>2 DEF Place
  <2>5. ~Running(c)' /\ Result(c)' = Result(c)
    BY <2>3, <2>4 DEF Running, Result
  <2>6. Released(c)'
    BY <1>2, <1>14, <1>17, <2>2 DEF Released
  <2>7. PrintedSame(c)' /\ NoPost(c)'
    BY <1>2, <1>15, <2>3 DEF PrintedSame
  <2>8. \A i \in DOMAIN stimulusArray' :
          /\ Writes(i, c, "R0")' => stimulusArray'[i].val = Result(c)
          /\ Writes(i, c, "DEBUG")' => stimulusArray'[i].val = "resume"
    <3>1. \A i \in DOMAIN stimulusArray :
            /\ Writes(i, c, "R0") => stimulusArray[i].val = Result(c)
            /\ Writes(i, c, "DEBUG") => stimulusArray[i].val = "resume"
      BY DEF Batch, CoreServed
    <3> TAKE i \in DOMAIN stimulusArray'
    <3>2. PICK k \in DOMAIN stimulusArray : stimulusArray'[i] = stimulusArray[k]
      BY <1>3
    <3>3. /\ Writes(i, c, "R0")' => Writes(k, c, "R0")
          /\ Writes(i, c, "DEBUG")' => Writes(k, c, "DEBUG")
      BY <3>2 DEF Writes
    <3>4. QED BY <3>1, <3>2, <3>3
  <2>9. QED BY <1>2, <1>4, <2>3, <2>4, <2>5, <2>6, <2>7, <2>8 DEF CoreServed
<1>18. ASSUME NEW c \in Core, e.place = <<c, "DEBUG">> PROVE CoreServed(c)'
  <2>1. Writes(1, c, "DEBUG")
    BY <1>1, <1>5, <1>18 DEF Writes
  <2>2. \A i \in DOMAIN stimulusArray : stimulusArray[i].write => i = 1
    BY <1>3, <1>6, <1>18
  <2>3. Released(c) /\ NoWrite(c, "R0")
    BY <1>1, <1>3, <1>18, <2>1, <2>2 DEF Released, NoWrite, Writes
  <2>4. /\ PrintedSame(c) /\ Len(printed[c]) = Len(texts[c]) /\ NoPost(c)
        /\ chip[<<c, "R0">>] = Result(c)
        /\ \A i \in DOMAIN answers :
             answers[i].to = <<c, "host">> => answers[i].val = ToString(Len(texts[c]))
    BY <2>3 DEF Batch, CoreServed
  <2>5. /\ chip'[<<c, "DEBUG">>] = "resume"
        /\ chip'[<<c, "opcode">>] = chip[<<c, "opcode">>] /\ chip'[<<c, "R0">>] = chip[<<c, "R0">>]
    BY <1>8, <1>9, <1>18 DEF Place
  <2>6. Running(c)' /\ Result(c)' = Result(c)
    BY <2>5 DEF Running, Result
  <2>7. \A i \in DOMAIN stimulusArray' : ~stimulusArray'[i].write
    BY <1>3, <2>2
  <2>8. NoWrite(c, "DEBUG")' /\ NoWrite(c, "R0")'
    BY <2>7 DEF NoWrite, Writes
  <2>9. ~Released(c)'
    BY <1>2, <1>6, <1>18, <2>8 DEF Released
  <2>10. PrintedSame(c)' /\ NoPost(c)'
    BY <1>2, <1>15, <2>4 DEF PrintedSame
  <2>11. \A i \in DOMAIN stimulusArray' : ~Writes(i, c, "R0")' /\ ~Writes(i, c, "DEBUG")'
    BY <2>7 DEF Writes
  <2>12. QED BY <1>2, <1>4, <2>4, <2>5, <2>6, <2>8, <2>9, <2>10, <2>11 DEF CoreServed
<1>19. \A c \in Core : CoreServed(c)'
  BY <1>5, <1>16, <1>17, <1>18
<1>20. QED BY <1>2, <1>10, <1>11, <1>12, <1>13, <1>19 DEF Batch

\* What the handler reads comes back, or is lost far beyond the chip.
LEMMA AnswerDelivered ==
  ASSUME Batch, Deliver, ~stimulusArray[1].write PROVE Batch'
<1>1. PICK e : e = stimulusArray[1]
  OBVIOUS
<1>2. /\ stimulusArray # <<>> /\ stimulusArray' = Tail(stimulusArray)
      /\ UNCHANGED <<hostMem, mode, pc, await, ncore, texts, printed>>
  BY DEF Deliver, PortStep, stdioVars, programVars
<1>3. /\ 1 \in DOMAIN stimulusArray /\ Head(stimulusArray) = e /\ stimulusArray' \in Seq(Command)
      /\ DOMAIN stimulusArray = 1 .. Len(stimulusArray)
      /\ \A i \in DOMAIN stimulusArray' : i + 1 \in DOMAIN stimulusArray /\ i \in Nat
  BY <1>1, <1>2, QueueFollows
<1>4. /\ Len(stimulusArray) = 1 /\ pc \in Polling /\ e.place = <<ncore, Sought(pc)>>
      /\ e.back = await /\ await = Back(ncore, Sought(pc)) /\ ReadQueued
  BY <1>1, <1>2, <1>3 DEF Batch, HandlerQueue
<1>5. /\ \A i \in DOMAIN stimulusArray : i = 1
      /\ \A i \in DOMAIN stimulusArray' : FALSE
  BY <1>3, <1>4
<1>6. /\ \A i \in DOMAIN answers : answers[i].to \in OwnLoc
      /\ \A a \in DOMAIN hostMem : a \in OwnLoc
  BY <1>4 DEF Batch, HandlerAnswers
<1>7. /\ ncore \in Core /\ e.place \in Place /\ chip[e.place] \in Word
      /\ await \in Return /\ await \notin OwnLoc
  <2>1. ncore \in Core /\ \A p \in Place : chip[p] \in Word
    BY DEF Batch, HandlerTypes
  <2>2. Sought(pc) \in {"DEBUG", "opcode", "R1", "beyond"} /\ await \in Return
    BY <1>4, <2>1, SoughtIs
  <2>3. e.place \in Place
    BY <1>4, <2>1, <2>2 DEF Place
  <2>4. QED BY <2>1, <2>2, <2>3, ReturnApart
<1>8. PICK a : a = [to |-> await, val |-> chip[e.place]]
  OBVIOUS
<1>9. UNCHANGED chip /\ (answers' = answers \/ answers' = Append(answers, a))
  BY <1>1, <1>3, <1>4, <1>8 DEF Deliver
<1>10. /\ a \in [to : OwnLoc \cup Return, val : Word] /\ a.to = await
       /\ a.val = chip[<<ncore, Sought(pc)>>]
  BY <1>4, <1>7, <1>8
<1>11. /\ answers' \in Seq([to : OwnLoc \cup Return, val : Word])
       /\ \A i \in DOMAIN answers :
            i \in DOMAIN answers' /\ answers'[i] = answers[i] /\ i \in 1 .. Len(answers)
       /\ \A i \in DOMAIN answers' :
            \/ i \in DOMAIN answers /\ answers'[i] = answers[i]
            \/ i = Len(answers) + 1 /\ answers'[i] = a /\ Len(answers) \in Nat
  <2> DEFINE S == [to : OwnLoc \cup Return, val : Word]
  <2>1. answers \in Seq(S) /\ a \in S
    BY <1>10 DEF Batch, HandlerTypes
  <2> HIDE DEF S
  <2>2. DOMAIN answers = 1 .. Len(answers) /\ Len(answers) \in Nat
    BY <2>1, LenProperties
  <2>3. CASE answers' = answers
    BY <2>1, <2>2, <2>3 DEF S
  <2>4. CASE answers' = Append(answers, a)
    <3>1. /\ answers' \in Seq(S) /\ DOMAIN answers' = 1 .. Len(answers) + 1
          /\ answers'[Len(answers) + 1] = a
          /\ \A i \in DOMAIN answers : i \in DOMAIN answers' /\ answers'[i] = answers[i]
      BY <2>1, <2>4, Appended
    <3>2. QED BY <2>2, <3>1 DEF S
  <2>5. QED BY <1>9, <2>3, <2>4
<1>12. HandlerTypes'
  BY <1>2, <1>3, <1>9, <1>11 DEF Batch, HandlerTypes
<1>13. stimulusArray' = <<>> /\ ~ReadQueued'
  <2>1. ~ReadQueued'
    BY <1>5 DEF ReadQueued
  <2> HIDE DEF Command
  <2>2. stimulusArray' = <<>>
    BY <1>3, <1>4, <1>2, <1>5
  <2>3. QED BY <2>1, <2>2
<1>14. HandlerQueue'
  BY <1>2, <1>4, <1>5, <1>13 DEF HandlerQueue
<1>15. Tells(a.val)'
  <2>1. Running(ncore)' <=> Running(ncore)
    BY <1>2, <1>9 DEF Running
  <2>2. chip[<<ncore, "DEBUG">>] \in {"resume", "halt"}
    BY <1>7 DEF Batch, HandlerTypes
  <2>3. pc = "status" =>
          a.val \in {"resume", "halt"} /\ (a.val = "halt" => chip[<<ncore, "DEBUG">>] # "resume")
    BY <1>10, <2>2, SoughtIs
  <2>4. QED BY <1>2, <1>9, <1>10, <2>1, <2>3 DEF Tells, Running
<1>16. HandlerAnswers'
  <2>1. ASSUME NEW i \in DOMAIN answers', answers'[i].to \notin OwnLoc
        PROVE  /\ answers'[i] = a
               /\ \A j \in DOMAIN answers' : answers'[j].to \notin OwnLoc => j = i
               /\ \A j \in DOMAIN answers' : answers'[j].to = <<ncore, "host">> => j < i
    <3>1. i = Len(answers) + 1 /\ answers'[i] = a /\ Len(answers) \in Nat
      BY <1>6, <1>11, <2>1
    <3>2. \A j \in DOMAIN answers' : answers'[j].to \notin OwnLoc => j = i
      BY <1>6, <1>11, <3>1
    <3>3. <<ncore, "host">> \in OwnLoc
      BY <1>7 DEF OwnLoc
    <3>4. \A j \in DOMAIN answers' : answers'[j].to = <<ncore, "host">> => j < i
      <4> SUFFICES ASSUME NEW j \in DOMAIN answers', answers'[j].to = <<ncore, "host">>
                   PROVE  j < i
        OBVIOUS
      <4>1. answers'[j] # a
        BY <1>7, <1>10, <3>3
      <4>2. j \in DOMAIN answers
        BY <1>11, <4>1
      <4>3. QED BY <1>11, <3>1, <4>2
    <3>5. QED BY <3>1, <3>2, <3>4
  <2>2. ~Stored(await)'
    BY <1>2, <1>6, <1>7 DEF Stored
  <2>3. QED BY <1>2, <1>4, <1>6, <1>10, <1>13, <1>15, <2>1, <2>2 DEF HandlerAnswers
<1>17. ASSUME NEW c \in Core
       PROVE  /\ NoPost(c)' <=> NoPost(c)
              /\ \A i \in DOMAIN answers' : answers'[i].to = <<c, "host">> =>
                   \E j \in DOMAIN answers : answers[j] = answers'[i]
  <2>1. await # <<c, "host">>
    BY <1>7 DEF OwnLoc
  <2>2. QED BY <1>10, <1>11, <2>1 DEF NoPost
<1>18. Attended'
  <2>1. (NoPost(ncore)' <=> NoPost(ncore)) /\ (Running(ncore)' <=> Running(ncore))
    BY <1>2, <1>7, <1>9, <1>17 DEF NoPost, Running
  <2>2. QED BY <1>2, <1>9, <2>1 DEF Batch, Attended
<1>19. ASSUME NEW c \in Core PROVE CoreServed(c)'
  <2>1. /\ NoWrite(c, "R0")' <=> NoWrite(c, "R0")
        /\ NoWrite(c, "DEBUG")' <=> NoWrite(c, "DEBUG")
    BY <1>5 DEF NoWrite, Writes
  <2>2. Released(c)' <=> Released(c)
    BY <1>2, <2>1 DEF Released
  <2>3. TextThere(c) => TextThere(c)'
    BY <1>2, <1>17 DEF TextThere, Stored
  <2>4. CoreServed(c)
    BY DEF Batch
  <2>5. QED BY <1>2, <1>5, <1>9, <1>17, <2>1, <2>2, <2>3, <2>4, CoreSame
<1>20. QED BY <1>2, <1>12, <1>14, <1>16, <1>18, <1>19 DEF Batch

\* A text or an answer comes into the host memory.
LEMMA SampledStep ==
  ASSUME Batch, Sample PROVE Batch'
<1>1. PICK e : e = answers[1]
  OBVIOUS
<1>2. PICK n : n = Len(answers)
  OBVIOUS
<1>3. /\ n \in Nat \ {0} /\ DOMAIN answers = 1 .. n /\ 1 \in DOMAIN answers
      /\ Head(answers) = e /\ e \in [to : OwnLoc \cup Return, val : Word]
      /\ Tail(answers) \in Seq([to : OwnLoc \cup Return, val : Word])
      /\ \A i \in DOMAIN Tail(answers) : /\ i \in Nat /\ i + 1 \in DOMAIN answers
                                         /\ Tail(answers)[i] = answers[i + 1]
      /\ \A i \in DOMAIN answers : i = 1 \/ \E j \in DOMAIN Tail(answers) : i = j + 1
  <2> DEFINE S == [to : OwnLoc \cup Return, val : Word]
  <2>1. answers \in Seq(S) /\ answers # <<>>
    BY DEF Batch, HandlerTypes, Sample
  <2> HIDE DEF S
  <2>2. /\ n \in Nat \ {0} /\ DOMAIN answers = 1 .. n /\ Head(answers) = e /\ e \in S
        /\ Tail(answers) \in Seq(S) /\ DOMAIN Tail(answers) = 1 .. n - 1
        /\ \A i \in DOMAIN Tail(answers) : /\ i + 1 \in DOMAIN answers
                                           /\ Tail(answers)[i] = answers[i + 1]
    BY <1>1, <1>2, <2>1, Followed
  <2>3. 1 \in DOMAIN answers /\ \A i \in DOMAIN Tail(answers) : i \in Nat
    BY <2>2
  <2>4. ASSUME NEW i \in 1 .. n, i # 1 PROVE \E j \in DOMAIN Tail(answers) : i = j + 1
    <3>1. i - 1 \in 1 .. n - 1 /\ i = (i - 1) + 1
      BY <2>2, <2>4
    <3>2. QED BY <2>2, <3>1
  <2>5. QED BY <2>2, <2>3, <2>4 DEF S
<1>4. /\ answers' = Tail(answers) /\ hostMem' = Store(e.to, e.val)
      /\ UNCHANGED <<stimulusArray, chip, mode, pc, await, ncore, texts, printed>>
  BY <1>3 DEF Sample, PortStep, stdioVars, programVars
<1>5. e.to \in OwnLoc \cup Return /\ e.val \in Word
  BY <1>3
<1>6. \A i \in DOMAIN answers' : /\ i \in Nat /\ i + 1 \in DOMAIN answers /\ i + 1 # 1
                                 /\ answers'[i] = answers[i + 1]
  BY <1>3, <1>4
<1>7. /\ DOMAIN hostMem' = DOMAIN hostMem \cup {e.to} /\ hostMem'[e.to] = e.val
      /\ \A b \in DOMAIN hostMem : b # e.to => hostMem'[b] = hostMem[b]
  BY <1>4 DEF Store
<1>8. \A b : Stored(b)' <=> b = e.to \/ Stored(b)
  BY <1>7 DEF Stored
<1>9. HandlerTypes'
  <2>1. \A b \in DOMAIN hostMem' : b \in OwnLoc \cup Return /\ hostMem'[b] \in Word
    BY <1>5, <1>7 DEF Batch, HandlerTypes
  <2>2. QED BY <1>3, <1>4, <2>1 DEF Batch, HandlerTypes
<1>10. ReadQueued' <=> ReadQueued
  BY <1>4 DEF ReadQueued
<1>11. HandlerQueue'
  BY <1>4, <1>10 DEF Batch, HandlerQueue
<1>12. (\A c \in Core : NoPost(c) => NoPost(c)') /\ \A c : Running(c)' <=> Running(c)
  BY <1>4, <1>6 DEF NoPost, Running
<1>13. Attended'
  BY <1>4, <1>12 DEF Batch, Attended, HandlerTypes
<1>14. \A v : Tells(v)' <=> Tells(v)
  BY <1>4, <1>12 DEF Tells
<1>15. ncore \in Core /\ <<ncore, "host">> \in OwnLoc
  BY DEF Batch, HandlerTypes, OwnLoc
<1>16. HandlerAnswers'
  <2>1. CASE e.to \notin OwnLoc
    <3>1. /\ pc \in Polling /\ e.to = await /\ ~ReadQueued /\ ~Stored(await) /\ Tells(e.val)
          /\ \A j \in DOMAIN answers : answers[j].to \notin OwnLoc => j = 1
          /\ pc = "status" /\ e.val = "halt" =>
               \A j \in DOMAIN answers : answers[j].to = <<ncore, "host">> => j < 1
      BY <1>1, <1>3, <2>1 DEF Batch, HandlerAnswers
    <3>2. \A i \in DOMAIN answers' : answers'[i].to \in OwnLoc
      BY <1>6, <3>1
    <3>3. pc = "status" /\ e.val = "halt" => NoPost(ncore)
      BY <1>3, <3>1 DEF NoPost
    <3>4. \A a \in DOMAIN hostMem : a \notin OwnLoc => a = await
      BY DEF Batch, HandlerAnswers
    <3>5. \A a \in DOMAIN hostMem' : a \notin OwnLoc => a = await
      BY <1>7, <3>1, <3>4
    <3>6. hostMem'[await] = e.val
      BY <1>7, <3>1
    <3>7. QED BY <1>4, <1>10, <1>12, <1>14, <1>15, <3>1, <3>2, <3>3, <3>5, <3>6
              DEF HandlerAnswers
  <2>2. CASE e.to \in OwnLoc
    <3>1. ASSUME NEW i \in DOMAIN answers', answers'[i].to \notin OwnLoc
          PROVE  /\ pc \in Polling /\ answers'[i].to = await /\ ~ReadQueued /\ ~Stored(await)'
                 /\ Tells(answers'[i].val)
                 /\ \A j \in DOMAIN answers' : answers'[j].to \notin OwnLoc => j = i
                 /\ pc = "status" /\ answers'[i].val = "halt" =>
                      \A j \in DOMAIN answers' : answers'[j].to = <<ncore, "host">> => j < i
      <4>1. PICK k \in DOMAIN answers : k = i + 1
        BY <1>6
      <4>2. answers'[i] = answers[k] /\ i \in Nat
        BY <1>6, <4>1
      <4>3. /\ pc \in Polling /\ answers[k].to = await /\ ~ReadQueued /\ ~Stored(await)
            /\ Tells(answers[k].val)
            /\ \A j \in DOMAIN answers : answers[j].to \notin OwnLoc => j = k
            /\ pc = "status" /\ answers[k].val = "halt" =>
                 \A j \in DOMAIN answers : answers[j].to = <<ncore, "host">> => j < k
        BY <3>1, <4>2 DEF Batch, HandlerAnswers
      <4>4. await # e.to
        BY <2>2, <3>1, <4>2, <4>3
      <4>5. ~Stored(await)'
        BY <1>4, <1>8, <4>3, <4>4 DEF Stored
      <4>6. \A j \in DOMAIN answers' : answers'[j].to \notin OwnLoc => j = i
        BY <1>6, <4>1, <4>2, <4>3
      <4>7. pc = "status" /\ answers'[i].val = "halt" =>
              \A j \in DOMAIN answers' : answers'[j].to = <<ncore, "host">> => j < i
        BY <1>6, <4>1, <4>2, <4>3
      <4>8. QED BY <4>2, <4>3, <4>5, <4>6, <4>7
    <3>2. ASSUME NEW a \in DOMAIN hostMem', a \notin OwnLoc
          PROVE  /\ pc \in Polling /\ a = await /\ ~ReadQueued /\ Tells(hostMem'[a])
                 /\ pc = "status" /\ hostMem'[a] = "halt" => NoPost(ncore)
      <4>1. a \in DOMAIN hostMem /\ hostMem'[a] = hostMem[a]
        BY <1>7, <2>2, <3>2
      <4>2. QED BY <3>2, <4>1 DEF Batch, HandlerAnswers
    <3>3. QED BY <1>4, <1>10, <1>12, <1>14, <1>15, <3>1, <3>2 DEF HandlerAnswers
  <2>3. QED BY <2>1, <2>2
<1>17. ASSUME NEW c \in Core, TextThere(c) PROVE TextThere(c)'
  <2>1. CASE e.to = <<c, "host">>
    <3>1. e.val = ToString(Len(texts[c]))
      BY <1>1, <1>3, <2>1 DEF Batch, CoreServed
    <3>2. QED BY <1>4, <1>7, <1>8, <2>1, <3>1 DEF TextThere, Stored
  <2>2. CASE e.to # <<c, "host">>
    <3>1. ~NoPost(c) => ~NoPost(c)'
      BY <1>1, <1>3, <1>4, <2>2 DEF NoPost
    <3>2. Stored(<<c, "host">>) =>
            Stored(<<c, "host">>)' /\ hostMem'[<<c, "host">>] = hostMem[<<c, "host">>]
      BY <1>7, <1>8, <2>2 DEF Stored
    <3>3. QED BY <1>4, <1>17, <3>1, <3>2 DEF TextThere
  <2>3. QED BY <2>1, <2>2
<1>18. ASSUME NEW c \in Core PROVE CoreServed(c)'
  <2>1. /\ NoWrite(c, "R0")' <=> NoWrite(c, "R0")
        /\ NoWrite(c, "DEBUG")' <=> NoWrite(c, "DEBUG")
    BY <1>4 DEF NoWrite, Writes
  <2>2. Released(c)' <=> Released(c)
    BY <1>4, <2>1 DEF Released
  <2>3. \A i \in DOMAIN answers' : \E j \in DOMAIN answers : answers[j] = answers'[i]
    BY <1>6
  <2>4. CoreServed(c)
    BY DEF Batch
  <2>5. QED BY <1>4, <1>12, <1>17, <2>1, <2>2, <2>3, <2>4, CoreSame
<1>19. QED BY <1>4, <1>9, <1>11, <1>13, <1>16, <1>18 DEF Batch

\* A core that traps was running: nothing of it is queued or on its way, so the handler
\* has to do with others; and what it writes is on its way when it halts.
LEMMA TrapStep ==
  ASSUME Batch, NEW c \in Core, Trap(c) PROVE Batch'
<1>1. /\ Running(c) /\ UNCHANGED <<mode, stimulusArray, hostMem, pc, await, ncore, printed>>
  BY DEF Trap, ProgramStep, Running, stdioVars
<1>2. PICK t \in Traps, at \in {"host", "local", "global"} :
        /\ texts' = IF t = "WRITE" THEN [texts EXCEPT ![c] = Append(@, at)] ELSE texts
        /\ chip' = [p \in Place |->
             CASE p = <<c, "DEBUG">> -> "halt"
               [] p = <<c, "opcode">> -> t
               [] p = <<c, "R0">> -> "argument"
               [] p = <<c, "R1">> -> at
               [] p = <<c, "mem">> /\ t = "WRITE" /\ at # "host" -> ToString(Len(texts[c]) + 1)
               [] OTHER -> chip[p]]
        /\ answers' = IF t = "WRITE" /\ at = "host"
                      THEN Append(answers, [to |-> <<c, "host">>,
                                            val |-> ToString(Len(texts[c]) + 1)])
                      ELSE answers
  BY Zenon DEF Trap
<1>3. PICK text : text = ToString(Len(texts[c]) + 1)
  OBVIOUS
<1>4. /\ PrintedSame(c) /\ Len(printed[c]) = Len(texts[c]) /\ ~Released(c)
      /\ NoWrite(c, "R0") /\ NoPost(c)
  BY <1>1 DEF Batch, CoreServed
<1>5. /\ texts[c] \in Seq({"host", "local", "global"}) /\ printed[c] \in Seq(Word)
      /\ texts \in [Core -> Seq({"host", "local", "global"})] /\ ncore \in Core
      /\ \A d \in Core : chip[<<d, "DEBUG">>] \in {"resume", "halt"}
      /\ \A p \in Place : chip[p] \in Word
  BY DEF Batch, HandlerTypes
<1>6. PICK m : m = Len(texts[c])
  OBVIOUS
<1>7. /\ m \in Nat /\ DOMAIN texts[c] = 1 .. m /\ DOMAIN printed[c] = 1 .. m
      /\ text = ToString(m + 1) /\ text \in Word
  <2>1. m \in Nat /\ DOMAIN texts[c] = 1 .. m
    BY <1>5, <1>6, LenProperties
  <2>2. text = ToString(m + 1) /\ text \in Word
    BY <1>3, <1>6, <2>1 DEF Word
  <2> HIDE DEF Word
  <2>3. DOMAIN printed[c] = 1 .. m
    BY <1>4, <1>5, <1>6, LenProperties
  <2>4. QED BY <2>1, <2>2, <2>3
<1>8. /\ Append(texts[c], at) \in Seq({"host", "local", "global"})
      /\ Len(Append(texts[c], at)) = m + 1 /\ Append(texts[c], at)[m + 1] = at
      /\ \A i \in 1 .. m : Append(texts[c], at)[i] = texts[c][i]
  BY <1>5, <1>6, <1>7, Appended
<1>9. /\ texts' \in [Core -> Seq({"host", "local", "global"})]
      /\ \A d \in Core : d # c => texts'[d] = texts[d]
      /\ t = "WRITE" => texts'[c] = Append(texts[c], at)
      /\ t # "WRITE" => texts'[c] = texts[c]
  BY <1>2, <1>5, <1>8
<1>10. PICK a : a = [to |-> <<c, "host">>, val |-> text]
  OBVIOUS
<1>11. /\ a \in [to : OwnLoc \cup Return, val : Word] /\ a.to = <<c, "host">>
       /\ a.to \in OwnLoc /\ a.val = text
  BY <1>7, <1>10 DEF OwnLoc
<1>12. /\ answers' \in Seq([to : OwnLoc \cup Return, val : Word])
       /\ \A i \in DOMAIN answers : i \in DOMAIN answers' /\ answers'[i] = answers[i]
       /\ \A i \in DOMAIN answers' :
            \/ i \in DOMAIN answers /\ answers'[i] = answers[i]
            \/ t = "WRITE" /\ at = "host" /\ answers'[i] = a
       /\ t = "WRITE" /\ at = "host" => \E i \in DOMAIN answers' : answers'[i] = a
  <2> DEFINE S == [to : OwnLoc \cup Return, val : Word]
  <2>1. answers \in Seq(S) /\ a \in S
    BY <1>11 DEF Batch, HandlerTypes
  <2> HIDE DEF S
  <2>2. CASE t = "WRITE" /\ at = "host"
    <3>1. answers' = Append(answers, a)
      BY <1>2, <1>3, <1>10, <2>2
    <3>2. /\ answers' \in Seq(S) /\ Len(answers) \in Nat /\ DOMAIN answers = 1 .. Len(answers)
          /\ DOMAIN answers' = 1 .. Len(answers) + 1
          /\ answers'[Len(answers) + 1] = a
          /\ \A i \in DOMAIN answers : i \in DOMAIN answers' /\ answers'[i] = answers[i]
      BY <2>1, <3>1, Appended
    <3>3. Len(answers) + 1 \in DOMAIN answers'
      BY <3>2
    <3>4. \A i \in DOMAIN answers' : i \in DOMAIN answers \/ i = Len(answers) + 1
      BY <3>2
    <3>5. QED BY <2>2, <3>2, <3>3, <3>4 DEF S
  <2>3. CASE ~(t = "WRITE" /\ at = "host")
    BY <1>2, <2>1, <2>3 DEF S
  <2>4. QED BY <2>2, <2>3
<1>13. /\ DOMAIN chip' = Place
       /\ \A d \in Core, r \in {"DEBUG", "opcode", "R0", "R1", "beyond"} :
            d # c => chip'[<<d, r>>] = chip[<<d, r>>]
       /\ chip'[<<c, "DEBUG">>] = "halt" /\ chip'[<<c, "opcode">>] = t
       /\ chip'[<<c, "R0">>] = "argument" /\ chip'[<<c, "R1">>] = at
  BY <1>2 DEF Place
<1>14. HandlerTypes'
  <2>1. ASSUME NEW p \in Place PROVE chip'[p] \in Word
    <3>1. chip'[p] \in {"halt", t, "argument", at, text, chip[p]}
      BY <1>2, <1>3
    <3>2. t \in Word /\ at \in Word /\ "halt" \in Word /\ "argument" \in Word
      BY DEF Word
    <3>3. QED BY <1>5, <1>7, <3>1, <3>2
  <2>2. \A d \in Core : chip'[<<d, "DEBUG">>] \in {"resume", "halt"}
    BY <1>5, <1>13
  <2>3. QED BY <1>1, <1>9, <1>12, <1>13, <2>1, <2>2 DEF Batch, HandlerTypes
<1>15. ReadQueued' <=> ReadQueued
  BY <1>1 DEF ReadQueued
<1>16. HandlerQueue'
  BY <1>1, <1>15 DEF Batch, HandlerQueue
<1>17. ASSUME NEW d \in Core, d # c
       PROVE  /\ Running(d)' <=> Running(d)
              /\ NoPost(d)' <=> NoPost(d)
              /\ \A i \in DOMAIN answers' : answers'[i].to = <<d, "host">> =>
                   i \in DOMAIN answers /\ answers[i] = answers'[i]
  <2>1. a.to # <<d, "host">>
    BY <1>11, <1>17
  <2>2. QED BY <1>12, <1>13, <1>17, <2>1 DEF NoPost, Running
<1>18. pc \in {"opcode", "arguments", "text", "resume"} => ncore # c
  BY <1>1 DEF Batch, Attended
<1> DEFINE TellsStill(v) ==
      /\ pc = "status" => v \in {"resume", "halt"} /\ (v = "halt" => ~Running(ncore)')
      /\ pc \in {"opcode", "arguments"} => v = chip'[<<ncore, Sought(pc)>>]
<1>19. ASSUME NEW v, Tells(v)
       PROVE  /\ TellsStill(v)
              /\ pc = "status" /\ v = "halt" => ncore # c
  <2>1. pc = "status" /\ v = "halt" => ncore # c
    BY <1>1, <1>19 DEF Tells
  <2>2. pc = "status" => v \in {"resume", "halt"} /\ (v = "halt" => ~Running(ncore)')
    BY <1>1, <1>5, <1>17, <1>19, <2>1 DEF Tells, Running
  <2>3. pc \in {"opcode", "arguments"} => v = chip'[<<ncore, Sought(pc)>>]
    <3>1. \A r \in {"opcode", "R1"} : ncore # c => chip'[<<ncore, r>>] = chip[<<ncore, r>>]
      BY <1>5, <1>13
    <3>2. pc \in {"opcode", "arguments"} => Sought(pc) \in {"opcode", "R1"}
      BY SoughtIs
    <3>3. QED BY <1>18, <1>19, <3>1, <3>2 DEF Tells
  <2>4. QED BY <2>1, <2>2, <2>3
<1>20. HandlerAnswers'
  <2>1. ASSUME NEW i \in DOMAIN answers', answers'[i].to \notin OwnLoc
        PROVE  /\ pc \in Polling /\ answers'[i].to = await /\ ~ReadQueued /\ ~Stored(await)
               /\ TellsStill(answers'[i].val)
               /\ \A j \in DOMAIN answers' : answers'[j].to \notin OwnLoc => j = i
               /\ pc = "status" /\ answers'[i].val = "halt" =>
                    \A j \in DOMAIN answers' : answers'[j].to = <<ncore, "host">> => j < i
    <3>1. i \in DOMAIN answers /\ answers'[i] = answers[i]
      BY <1>11, <1>12, <2>1
    <3>2. /\ pc \in Polling /\ answers[i].to = await /\ ~ReadQueued /\ ~Stored(await)
          /\ Tells(answers[i].val)
          /\ \A j \in DOMAIN answers : answers[j].to \notin OwnLoc => j = i
          /\ pc = "status" /\ answers[i].val = "halt" =>
               \A j \in DOMAIN answers : answers[j].to = <<ncore, "host">> => j < i
      BY <2>1, <3>1 DEF Batch, HandlerAnswers
    <3>3. PICK v : v = answers[i].val
      OBVIOUS
    <3>4. TellsStill(v) /\ (pc = "status" /\ v = "halt" => ncore # c)
      BY <1>19, <3>2, <3>3
    <3>5. \A j \in DOMAIN answers' : answers'[j].to \notin OwnLoc => j = i
      BY <1>11, <1>12, <3>2
    <3>6. pc = "status" /\ v = "halt" =>
            \A j \in DOMAIN answers' : answers'[j].to = <<ncore, "host">> => j < i
      BY <1>5, <1>17, <3>2, <3>3, <3>4
    <3>7. answers'[i].val = v
      BY <3>1, <3>3
    <3>8. QED BY <3>1, <3>2, <3>4, <3>5, <3>6, <3>7
  <2>2. ASSUME NEW b \in DOMAIN hostMem, b \notin OwnLoc
        PROVE  /\ pc \in Polling /\ b = await /\ ~ReadQueued /\ TellsStill(hostMem[b])
               /\ pc = "status" /\ hostMem[b] = "halt" => NoPost(ncore)'
    <3>1. /\ pc \in Polling /\ b = await /\ ~ReadQueued /\ Tells(hostMem[b])
          /\ pc = "status" /\ hostMem[b] = "halt" => NoPost(ncore)
      BY <2>2 DEF Batch, HandlerAnswers
    <3>2. PICK v : v = hostMem[b]
      OBVIOUS
    <3>3. TellsStill(v) /\ (pc = "status" /\ v = "halt" => ncore # c)
      BY <1>19, <3>1, <3>2
    <3>4. pc = "status" /\ v = "halt" => NoPost(ncore)'
      BY <1>1, <1>5, <1>17, <3>1, <3>2, <3>3 DEF NoPost
    <3>5. QED BY <3>1, <3>2, <3>3, <3>4
  <2>3. Stored(await)' <=> Stored(await)
    BY <1>1 DEF Stored
  <2>4. (Running(ncore)' <=> chip'[<<ncore, "DEBUG">>] = "resume") /\ ncore' = ncore
    BY <1>1 DEF Running
  <2>5. \A i \in DOMAIN answers' : answers'[i].to \notin OwnLoc =>
          /\ pc' \in Polling /\ answers'[i].to = await' /\ ~ReadQueued' /\ ~Stored(await)'
          /\ Tells(answers[i].val)'
          /\ \A j \in DOMAIN answers' : answers'[j].to \notin OwnLoc => j = i
          /\ pc' = "status" /\ answers'[i].val = "halt" =>
               \A j \in DOMAIN answers' : answers'[j].to = <<ncore', "host">> => j < i
    BY <1>1, <1>15, <2>1, <2>3, <2>4 DEF Tells, Running
  <2>6. \A b \in DOMAIN hostMem' : b \notin OwnLoc =>
          /\ pc' \in Polling /\ b = await' /\ ~ReadQueued' /\ Tells(hostMem[b])'
          /\ pc' = "status" /\ hostMem'[b] = "halt" => NoPost(ncore)'
    BY <1>1, <1>15, <2>2, <2>4 DEF Tells, Running
  <2>7. QED BY <2>5, <2>6 DEF HandlerAnswers
<1>21. Attended'
  <2>1. pc \in {"opcode", "arguments", "text", "resume"} =>
          /\ Running(ncore)' <=> Running(ncore)
          /\ NoPost(ncore)' <=> NoPost(ncore)
          /\ \A r \in {"opcode", "R1"} : chip'[<<ncore, r>>] = chip[<<ncore, r>>]
    BY <1>1, <1>5, <1>13, <1>17, <1>18 DEF Running, NoPost
  <2>2. QED BY <1>1, <2>1 DEF Batch, Attended
<1>22. ASSUME NEW d \in Core
       PROVE  /\ NoWrite(d, "R0")' <=> NoWrite(d, "R0")
              /\ Released(d)' <=> Released(d)
  <2>1. /\ NoWrite(d, "R0")' <=> NoWrite(d, "R0")
        /\ NoWrite(d, "DEBUG")' <=> NoWrite(d, "DEBUG")
    BY <1>1 DEF NoWrite, Writes
  <2>2. QED BY <1>1, <2>1 DEF Released
<1>23. ASSUME NEW d \in Core, d # c PROVE CoreServed(d)'
  <2>1. TextThere(d) => TextThere(d)'
    BY <1>1, <1>9, <1>17, <1>23 DEF TextThere, Stored
  <2>2. CoreServed(d)
    BY DEF Batch
  <2>3. \A r \in {"DEBUG", "opcode", "R0", "R1"} : chip'[<<d, r>>] = chip[<<d, r>>]
    BY <1>13, <1>23
  <2>4. texts'[d] = texts[d] /\ printed'[d] = printed[d]
    BY <1>1, <1>9, <1>23
  <2>5. QED BY <1>1, <1>17, <1>22, <1>23, <2>1, <2>2, <2>3, <2>4, CoreSame
<1>24. CoreServed(c)'
  <2>1. PrintedSame(c)'
    <3>1. \A i \in 1 .. m : texts'[c][i] = texts[c][i]
      <4>1. CASE t = "WRITE"
        <5>1. texts'[c] = Append(texts[c], at)
          BY <1>9, <4>1
        <5>2. QED BY <1>8, <5>1
      <4>2. CASE t # "WRITE"
        BY <1>9, <4>2
      <4>3. QED BY <4>1, <4>2
    <3>2. QED BY <1>1, <1>4, <1>7, <3>1 DEF PrintedSame
  <2>2. ~Running(c)' /\ ~Released(c)' /\ NoWrite(c, "R0")'
    BY <1>4, <1>13, <1>22 DEF Running
  <2>3. /\ t # "WRITE" => Len(texts'[c]) = m
        /\ t = "WRITE" => Len(texts'[c]) = m + 1 /\ texts'[c][Len(texts'[c])] = at
    BY <1>6, <1>8, <1>9
  <2>4. t = "WRITE" /\ at = "host" => ~NoPost(c)'
    BY <1>11, <1>12 DEF NoPost
  <2>5. Unserved(c)'
    BY <1>1, <1>4, <1>6, <1>13, <2>2, <2>3, <2>4 DEF Unserved, TextThere
  <2>6. \A i \in DOMAIN stimulusArray' :
          /\ Writes(i, c, "R0")' => FALSE
          /\ Writes(i, c, "DEBUG")' => FALSE
    BY <1>1, <1>4 DEF Writes, Released, NoWrite
  <2>7. \A i \in DOMAIN answers' :
          answers'[i].to = <<c, "host">> => answers'[i].val = ToString(Len(texts'[c]))
    BY <1>4, <1>7, <1>11, <1>12, <2>3 DEF NoPost
  <2>8. QED BY <2>1, <2>2, <2>5, <2>6, <2>7 DEF CoreServed
<1>25. \A d \in Core : CoreServed(d)'
  BY <1>23, <1>24
<1>26. QED BY <1>1, <1>14, <1>16, <1>20, <1>21, <1>25 DEF Batch

LEMMA BatchBegins ==
  ASSUME Init, mode = "batch" PROVE Batch
<1>1. /\ stimulusArray = <<>> /\ answers = <<>> /\ hostMem = <<>> /\ chip = InitChip
      /\ pc = "sleep" /\ ncore = 0 /\ printed = [c \in Core |-> <<>>]
      /\ texts = [c \in Core |-> <<>>]
  BY DEF Init
<1>2. DOMAIN stimulusArray = {} /\ DOMAIN answers = {} /\ DOMAIN hostMem = {}
  BY <1>1
<1>3. /\ DOMAIN chip = Place /\ \A p \in Place : chip[p] \in {"resume", "zero"}
      /\ \A c \in Core : /\ chip[<<c, "DEBUG">>] = "resume" /\ chip[<<c, "R0">>] = "zero"
                         /\ chip[<<c, "opcode">>] = "zero"
  BY <1>1 DEF InitChip, Place
<1>4. HandlerTypes
  <2>1. 0 \in Core
    BY DebugHostAssumption DEF Core
  <2>2. \A p \in Place : chip[p] \in Word
    BY <1>3 DEF Word
  <2>3. /\ stimulusArray \in Seq(Command)
        /\ answers \in Seq([to : OwnLoc \cup Return, val : Word])
    BY <1>1
  <2> HIDE DEF Word
  <2>4. /\ printed \in [Core -> Seq(Word)]
        /\ texts \in [Core -> Seq({"host", "local", "global"})]
    BY <1>1
  <2>5. QED BY <1>1, <1>2, <1>3, <2>1, <2>2, <2>3, <2>4 DEF HandlerTypes
<1>5. HandlerQueue /\ HandlerAnswers /\ Attended
  BY <1>1, <1>2 DEF HandlerQueue, HandlerAnswers, Attended, Polling
<1>6. ASSUME NEW c \in Core PROVE CoreServed(c)
  <2>1. Running(c) /\ Result(c) = chip[<<c, "R0">>]
    BY <1>3 DEF Running, Result
  <2>2. NoWrite(c, "R0") /\ NoWrite(c, "DEBUG") /\ NoPost(c)
    BY <1>2 DEF NoWrite, NoPost
  <2>3. ~Released(c)
    BY <1>1, <2>2 DEF Released
  <2>4. printed[c] = <<>> /\ texts[c] = <<>>
    BY <1>1
  <2>5. PrintedSame(c) /\ Len(printed[c]) = Len(texts[c])
    BY <2>4 DEF PrintedSame
  <2>6. QED BY <1>2, <2>1, <2>2, <2>3, <2>5 DEF CoreServed
<1>7. QED BY <1>4, <1>5, <1>6 DEF Batch

LEMMA BatchKept ==
  ASSUME Batch, [Next]_vars PROVE Batch'
<1>1. CASE UNCHANGED vars
  <2>1. UNCHANGED <<mode, pc, ncore, stimulusArray, answers, hostMem, chip, await, texts, printed>>
    BY <1>1 DEF vars, portVars, stdioVars, programVars
  <2>2. QED BY <2>1, BatchSame
<1>2. CASE Deliver
  BY <1>2, ResultDelivered, AnswerDelivered
<1>3. CASE Sample
  BY <1>3, SampledStep
<1>4. CASE \E c \in Core : Trap(c)
  BY <1>4, TrapStep
<1>5. CASE StdioHandler
  BY <1>5, StdioStepSafe
<1>6. ~Program /\ ~Ask /\ ~Server
  BY DEF Batch, Program, Ask, Server, ServerStep, Cycle, ReadMem, ReadMemDone, ReadMemOfHost,
         WriteMem, WriteMemOfHost, BadRequest, TraceRequest, Leave
<1>7. QED BY <1>1, <1>2, <1>3, <1>4, <1>5, <1>6 DEF Next

(***************************************************************************)
(* What the handler of the traps relies on: behind the result of a call    *)
(* comes only the resume, behind the resume only the read of the next      *)
(* status; a core of which it knows that it has halted has nothing more on *)
(* its way to the host; and a core that is not served yet has what it      *)
(* wrote in the host memory, or on its way there (StdioHandler and the     *)
(* port it works through).                                                 *)
(***************************************************************************)
THEOREM HandlerInvariant == Spec => []RunsInv
<1>1. Init => RunsInv
  BY BatchBegins DEF RunsInv
<1>2. RunsInv /\ [Next]_vars => RunsInv'
  <2>1. CASE mode = "batch"
    BY <2>1, BatchKept DEF RunsInv
  <2>2. CASE mode # "batch"
    <3>1. [Next]_vars => mode' = mode
      BY DEF Next, vars, Deliver, Sample, PortStep, Program, ProgramStep, Trap, Ask, Server,
             ServerStep, Cycle, ReadMem, ReadMemDone, ReadMemOfHost, WriteMem, WriteMemOfHost,
             BadRequest, TraceRequest, Leave, StdioHandler, StdioStep, Pass, CoreStatus, Got,
             TrapOpcode, Arguments, Text, GiveUp, Resume, NextCore
    <3>2. QED BY <2>2, <3>1 DEF RunsInv
  <2>3. QED BY <2>1, <2>2
<1>3. QED BY <1>1, <1>2, PTL DEF Spec

(***************************************************************************)
(* RunsServed in every state: a core that runs again has had every text    *)
(* printed that it wrote, the one it meant if the host has it, and has the *)
(* result of the call in R0 (monitor.cpp, StdioHandler).                   *)
(***************************************************************************)
THEOREM TrapsServedFirst == Spec => []RunsServed
<1>1. RunsInv => RunsServed
  <2> SUFFICES ASSUME Batch, NEW c \in Core, Running(c) PROVE Served(c)
    BY DEF RunsInv, RunsServed
  <2>1. /\ PrintedSame(c) /\ Len(printed[c]) = Len(texts[c]) /\ chip[<<c, "R0">>] = Result(c)
    BY DEF Batch, CoreServed
  <2>2. printed[c] \in Seq(Word) /\ texts[c] \in Seq({"host", "local", "global"})
    BY DEF Batch, HandlerTypes
  <2>3. DOMAIN printed[c] = 1 .. Len(printed[c]) /\ DOMAIN texts[c] = 1 .. Len(texts[c])
    <3> HIDE DEF Word
    <3> QED BY <2>2, LenProperties
  <2>4. QED BY <2>1, <2>3 DEF Served, PrintedSame
<1>2. QED BY <1>1, HandlerInvariant, PTL
=============================================================================
