---------------------------- MODULE WebApp_proofs ----------------------------
(* Theorems about WebApp and the ConfigServer behind it.                    *)
EXTENDS WebApp, TLAPS

-----------------------------------------------------------------------------
(* The inductive invariant.                                                *)

Processes == Slots \cup {Monitor}
Saving    == {"save", "truncate", "write"}
Reloading == {"parse", "load", "apply"}

\* What a process is and carries at each place: a copy that is going to be
\* used is complete, or what it lacks is still to be read.
Fits(x, call) ==
  /\ x = Monitor => call.at \in Reloading \cup {"free", "stamp"}
  /\ x # Monitor => call.at # "stamp"
  /\ call.at = "read" => call.op = "get_config"
  /\ call.at \in Saving => call.op = "put_config"
  /\ call.at \in Reloading /\ x # Monitor => call.op = "reload"
  /\ call.op = "put_config" => call.key \in Keys /\ call.value \in Scalars
  /\ call.op \in Adds \cup Drops => call.key \in Texts
  /\ call.at \in {"read", "save"} =>
       call.todo # {} /\ \A k \in Keys \ call.todo : call.copy[k] \in Values
  /\ call.at = "apply" => call.todo # {}
  /\ \/ call.at \in {"truncate", "write", "apply"}
     \/ call.at = "answered" /\ call.op = "get_config" /\ call.reply = "ok"
     => call.copy \in [Keys -> Values]

CallsFit == \A x \in Processes : Fits(x, calls[x])

\* While the changes come one after the other: one process at most changes
\* anything, and what it holds is what the memory or the file holds.
OneChange == \A x, y \in Changing : x = y

ChangeAgrees(x) ==
  LET call == calls[x]
  IN  /\ call.at \in Saving => \A k \in Keys : Reread(memory[k]) \in Retyped[asked[k]]
      /\ call.at = "save" => \A k \in Keys \ call.todo : call.copy[k] = memory[k]
      /\ call.at \in {"truncate", "write"} => call.copy = memory
      /\ call.at = "write" => file = Empty
      /\ call.at = "apply" =>
           call.copy = Contents /\ \A k \in Keys \ call.todo : memory[k] = Contents[k]
      /\ call.at = "stamp" => memory = Contents

\* What was asked for is in the file, and in memory once the file was read,
\* up to what rereading makes of it.
Agreed ==
  /\ Readable
  /\ \A k \in Keys : /\ Contents[k] \in Retyped[asked[k]]
                     /\ ~ changed => memory[k] \in Retyped[asked[k]]
                     /\ edits = 0 => Contents[k] \in Retyped[memory[k]]

FileAgrees == (\A x \in Changing : calls[x].at \notin Saving) => Agreed

\* As long as nobody edits the file, memory has what was asked for.
MemoryAgrees == edits = 0 => \A k \in Keys : memory[k] \in Retyped[asked[k]]

CalmInv ==
  calm => /\ OneChange
          /\ \A x \in Changing : ChangeAgrees(x)
          /\ FileAgrees
          /\ MemoryAgrees

\* The text of a call that will clear its form is still in the form, unless
\* the user has typed since.
TextInForm(s) ==
  LET call == calls[s]
      f    == FormOf(call.op)
  IN  call.op \in Adds \cup {"deregister"} /\ call.at # "free" =>
        f \in late \/ form[f] = Nothing \/ form[f] = call.key

\* A chain shows its notification when its action has returned, not before.
NoteWaits(s) == ~ At(s, "free") /\ calls[s].op \notin Loads => note[s] = "none"

\* A user who waits has no other call out than that of the last click.
Solo(s) == ~ At(s, "free") /\ calls[s].op \notin Loads => Out = {s}

\* What a call has done stays done until its answer is dealt with.
StaysDone(s) ==
  LET call == calls[s]
      ok   == call.at = "answered" /\ call.reply = "ok"
  IN  /\ call.op = "put_config" /\ (call.at \in Saving \/ ok) =>
           asked[call.key] = Typed[call.key][call.value]
      /\ call.op \in Adds /\ ok => call.key \in stored[FormOf(call.op)]
      /\ call.op \in Drops /\ ok => call.key \notin stored[FormOf(call.op)]

\* Memory has what the copy has, or what rereading has made of it since.
Follows(copy, k) == copy[k] \in Values /\ memory[k] \in Retyped[copy[k]]

\* A load that is under way has read nothing that is not so any more.
LoadIsCurrent(s) ==
  LET call == calls[s]
  IN  call.op = "get_config" =>
        /\ call.at \in {"free", "sent", "read", "answered"}
        /\ call.at = "read" => \A k \in Keys \ call.todo : Follows(call.copy, k)
        /\ call.at = "answered" => /\ call.reply # "none"
                                   /\ call.reply = "ok" => \A k \in Keys : Follows(call.copy, k)

\* A chain that ends with a load of the configuration, or with an error.
WillShow(s) == ~ At(s, "free") /\ calls[s].op \in {"put_config", "reload", "get_config"}

GridWillShow ==
  sections = {"config"} =>
    \/ \A k \in Keys : Follows(grid, k)
    \/ \E s \in Slots : note[s] = "error" \/ WillShow(s)

PageInv ==
  /\ \A s \in Slots : TextInForm(s) /\ NoteWaits(s)
  /\ ~ crossed => \A s \in Slots : Solo(s)
  /\ ~ crossed /\ edits = 0 => \A s \in Slots : StaysDone(s)
  /\ ~ crossed /\ calm /\ edits = 0 => (\A s \in Slots : LoadIsCurrent(s)) /\ GridWillShow

Inv == TypeOK /\ CallsFit /\ CalmInv /\ PageInv

-----------------------------------------------------------------------------
(* How one process moves.                                                  *)

LEMMA Constants ==
  /\ Nothing \notin Values /\ Nothing \notin Scalars /\ Monitor \notin Slots
  /\ Keys # {} /\ Empty \notin [Keys -> Values] /\ Empty \notin [Keys -> Scalars]
<1>1. Nothing \notin Values /\ Nothing \notin Scalars /\ Monitor \notin Slots /\ Keys # {}
  BY ConfigAssumption
<1>2. PICK k \in Keys : TRUE
  BY <1>1
<1>3. Empty[k] = Nothing
  BY DEF Empty
<1>4. QED
  BY <1>1, <1>2, <1>3

\* What a value may turn into: itself, what is read of its text, and so on.
LEMMA RetypedKeeps ==
  ASSUME NEW v \in Values
  PROVE  /\ v \in Retyped[v] /\ Reread(v) \in Values
         /\ Retyped[v] \subseteq Values
         /\ \A w \in Retyped[v] : Reread(w) \in Retyped[v]
         /\ \A w \in Retyped[v] : Retyped[w] \subseteq Retyped[v]
<1>1. Retyped[v] = { w \in Values : \A S \in SUBSET Values :
                       v \in S /\ (\A x \in S : Reread(x) \in S) => w \in S }
  BY DEF Retyped
<1>2. \A w \in Values : Reread(w) \in Values
  BY ConfigAssumption DEF Reread
<1>3. v \in Retyped[v] /\ Retyped[v] \subseteq Values
  BY <1>1
<1>4. ASSUME NEW w \in Retyped[v]
      PROVE  Reread(w) \in Retyped[v]
  <2>1. w \in Values /\ Reread(w) \in Values
    BY <1>2, <1>3
  <2>2. ASSUME NEW S \in SUBSET Values, v \in S, \A x \in S : Reread(x) \in S
        PROVE  Reread(w) \in S
    <3>1. w \in S
      BY <1>1, <2>2
    <3>2. QED
      BY <2>2, <3>1
  <2>3. QED
    BY <1>1, <2>1, <2>2
<1>5. ASSUME NEW w \in Retyped[v], NEW u \in Retyped[w]
      PROVE  u \in Retyped[v]
  <2>1. w \in Values
    BY <1>3
  <2>2. Retyped[w] = { y \in Values : \A S \in SUBSET Values :
                         w \in S /\ (\A x \in S : Reread(x) \in S) => y \in S }
    BY <2>1 DEF Retyped
  <2>3. u \in Values
    BY <2>2
  <2>4. ASSUME NEW S \in SUBSET Values, v \in S, \A x \in S : Reread(x) \in S
        PROVE  u \in S
    <3>1. w \in S
      BY <1>1, <2>4
    <3>2. QED
      BY <2>2, <2>4, <3>1
  <2>5. QED
    BY <1>1, <2>3, <2>4
<1>6. QED
  BY <1>2, <1>3, <1>4, <1>5

\* What a save writes, and what a reload reads.
LEMMA TextsAreRead ==
  ASSUME memory \in [Keys -> Values]
  PROVE  LET texts == [k \in Keys |-> TextOf[memory[k]]]
         IN  /\ texts \in [Keys -> Scalars] /\ texts # Empty
             /\ [k \in Keys |-> ReadAs[texts[k]]] = [k \in Keys |-> Reread(memory[k])]
<1> DEFINE texts == [k \in Keys |-> TextOf[memory[k]]]
<1>1. texts \in [Keys -> Scalars]
  BY ConfigAssumption
<1>2. texts # Empty
  BY <1>1, Constants
<1>3. QED
  BY <1>1, <1>2 DEF Reread

LEMMA ContentsAreValues ==
  ASSUME file \in [Keys -> Scalars] \cup {Empty}, Readable
  PROVE  file \in [Keys -> Scalars] /\ Contents \in [Keys -> Values]
<1>1. file \in [Keys -> Scalars]
  BY DEF Readable
<1>2. QED
  BY <1>1, ConfigAssumption DEF Contents

\* Process x is the only one that moves, and goes on with the same request.
MovesOnly(x) ==
  /\ calls' \in [Processes -> CallStates]
  /\ \A y \in Processes \ {x} : calls'[y] = calls[y]

Becomes(x, at, reply, todo, copy) ==
  /\ MovesOnly(x)
  /\ calls'[x].op = calls[x].op /\ calls'[x].key = calls[x].key
  /\ calls'[x].value = calls[x].value
  /\ calls'[x].at = at /\ calls'[x].reply = reply /\ calls'[x].todo = todo
  /\ calls'[x].copy = copy

LEMMA CallTypes ==
  ASSUME TypeOK, NEW x \in Processes
  PROVE  /\ calls[x] \in CallStates /\ calls \in [Processes -> CallStates]
         /\ calls[x].at \in Places /\ calls[x].op \in Ops
         /\ calls[x].key \in Keys \cup Texts \cup {Nothing}
         /\ calls[x].value \in Scalars \cup {Nothing}
         /\ calls[x].reply \in Replies /\ calls[x].todo \in SUBSET Keys
         /\ calls[x].copy \in [Keys -> Values \cup {Nothing}]
         /\ Empty \in [Keys -> Values \cup {Nothing}]
<1>1. calls[x] \in CallStates /\ calls \in [Processes -> CallStates]
  BY DEF TypeOK, Processes
<1>2. Empty \in [Keys -> Values \cup {Nothing}]
  BY DEF Empty
<1>3. QED
  BY <1>1, <1>2 DEF CallStates

LEMMA Moves ==
  ASSUME TypeOK, NEW x \in Processes, NEW call \in CallStates, Move(x, call)
  PROVE  MovesOnly(x) /\ calls'[x] = call
BY DEF TypeOK, Processes, MovesOnly, Move

LEMMA MoveBecomes ==
  ASSUME TypeOK, NEW x \in Processes, NEW at \in Places, NEW reply \in Replies,
         NEW todo \in SUBSET Keys, NEW copy \in [Keys -> Values \cup {Nothing}],
         Move(x, [calls[x] EXCEPT !.at = at, !.reply = reply, !.todo = todo, !.copy = copy])
  PROVE  Becomes(x, at, reply, todo, copy)
<1> DEFINE call == [calls[x] EXCEPT !.at = at, !.reply = reply, !.todo = todo, !.copy = copy]
<1>1. calls[x] \in CallStates
  BY CallTypes
<1>2. /\ call \in CallStates
      /\ call.op = calls[x].op /\ call.key = calls[x].key /\ call.value = calls[x].value
      /\ call.at = at /\ call.reply = reply /\ call.todo = todo /\ call.copy = copy
  BY <1>1 DEF CallStates
<1>3. Move(x, call)
  OBVIOUS
<1> HIDE DEF call
<1>4. MovesOnly(x) /\ calls'[x] = call
  BY <1>2, <1>3, Moves
<1>5. QED
  BY <1>2, <1>4 DEF Becomes

\* The steps of a handler, and of a reload, in these terms.
LEMMA GetAllConfigBecomes ==
  ASSUME TypeOK, NEW s \in Slots, GetAllConfig(s)
  PROVE  Becomes(s, "read", calls[s].reply, Keys, calls[s].copy)
<1>1. s \in Processes /\ "read" \in Places
  BY DEF Processes, Places
<1>2. Move(s, [calls[s] EXCEPT !.at = "read", !.todo = Keys])
  BY DEF GetAllConfig
<1>3. QED
  BY <1>1, <1>2, CallTypes, MoveBecomes DEF CallStates

LEMMA UpdateBecomes ==
  ASSUME TypeOK, CallsFit, NEW s \in Slots, UpdateConfigProperty(s)
  PROVE  \/ /\ calls[s].key \in Keys /\ Typed[calls[s].key][calls[s].value] \in Values
            /\ Becomes(s, "save", calls[s].reply, Keys, calls[s].copy)
            /\ memory' = [memory EXCEPT ![calls[s].key] = Typed[calls[s].key][calls[s].value]]
            /\ asked' = [asked EXCEPT ![calls[s].key] = Typed[calls[s].key][calls[s].value]]
            /\ calm' = (calm /\ Changing = {} /\ InStep)
         \/ /\ Becomes(s, "answered", "refused", {}, calls[s].copy)
            /\ UNCHANGED <<memory, asked, calm>>
<1>1. s \in Processes /\ "save" \in Places /\ "answered" \in Places /\ "refused" \in Replies
  BY DEF Processes, Places, Replies
<1>2. calls[s].key \in Keys /\ calls[s].value \in Scalars
  BY <1>1 DEF UpdateConfigProperty, CallsFit, Fits
<1>2a. Typed[calls[s].key][calls[s].value] \in Values \cup {Nothing}
  BY <1>2, ConfigAssumption
<1>3. CASE Accepts(calls[s].key, calls[s].value)
  <2>1. Move(s, [calls[s] EXCEPT !.at = "save", !.todo = Keys])
    BY <1>3 DEF UpdateConfigProperty, SetAndSave
  <2>2. Becomes(s, "save", calls[s].reply, Keys, calls[s].copy)
    BY <1>1, <2>1, CallTypes, MoveBecomes DEF CallStates
  <2>3. QED
    BY <1>2, <1>2a, <1>3, <2>2 DEF UpdateConfigProperty, Accepts
<1>4. CASE ~ Accepts(calls[s].key, calls[s].value)
  <2>1. Move(s, [calls[s] EXCEPT !.at = "answered", !.reply = "refused", !.todo = {}])
    BY <1>4 DEF UpdateConfigProperty, Answer
  <2>2. Becomes(s, "answered", "refused", {}, calls[s].copy)
    BY <1>1, <2>1, CallTypes, MoveBecomes DEF CallStates
  <2>3. QED
    BY <1>4, <2>2 DEF UpdateConfigProperty
<1>5. QED
  BY <1>3, <1>4

LEMMA ReadBecomes ==
  ASSUME TypeOK, CallsFit, NEW s \in Slots, NEW k \in Keys, ReadProperty(s, k)
  PROVE  LET rest == calls[s].todo \ {k}
             copy == [calls[s].copy EXCEPT ![k] = memory[k]]
         IN  \/ rest # {} /\ Becomes(s, calls[s].at, calls[s].reply, rest, copy)
             \/ rest = {} /\ calls[s].at = "read" /\ Becomes(s, "answered", "ok", {}, copy)
             \/ rest = {} /\ calls[s].at = "save" /\ Becomes(s, "truncate", calls[s].reply, {}, copy)
<1> DEFINE call == calls[s]
           rest == call.todo \ {k}
           copy == [call.copy EXCEPT ![k] = memory[k]]
           read == [call EXCEPT !.copy[k] = memory[k], !.todo = rest]
<1>1. s \in Processes /\ "answered" \in Places /\ "truncate" \in Places /\ "ok" \in Replies /\ {} \in SUBSET Keys
  BY DEF Processes, Places, Replies
<1>2. call \in CallStates /\ call.at \in Places /\ call.reply \in Replies /\ rest \in SUBSET Keys
  BY <1>1, CallTypes
<1>3. memory[k] \in Values
  BY DEF TypeOK
<1>4. copy \in [Keys -> Values \cup {Nothing}]
  BY <1>1, <1>3, CallTypes
<1>5. read = [call EXCEPT !.at = call.at, !.reply = call.reply, !.todo = rest, !.copy = copy]
  BY <1>2 DEF CallStates
<1>6. call.at \in {"read", "save"} /\ k \in call.todo
  BY DEF ReadProperty
<1>7. CASE rest # {}
  <2>0. Move(s, read)
    BY <1>7 DEF ReadProperty
  <2>1. Move(s, [call EXCEPT !.at = call.at, !.reply = call.reply, !.todo = rest, !.copy = copy])
    BY <1>5, <2>0
  <2> HIDE DEF read
  <2>2. Becomes(s, call.at, call.reply, rest, copy)
    BY <1>1, <1>2, <1>4, <2>1, MoveBecomes
  <2>3. QED
    BY <1>7, <2>2
<1>8. CASE rest = {} /\ call.at = "read"
  <2>1. Answer(read, "ok") = [call EXCEPT !.at = "answered", !.reply = "ok", !.todo = {}, !.copy = copy]
    BY <1>2, <1>5 DEF CallStates, Answer
  <2>2. Move(s, [call EXCEPT !.at = "answered", !.reply = "ok", !.todo = {}, !.copy = copy])
    BY <1>8, <2>1 DEF ReadProperty
  <2>3. Becomes(s, "answered", "ok", {}, copy)
    BY <1>1, <1>4, <2>2, MoveBecomes
  <2>4. QED
    BY <1>8, <2>3
<1>9. CASE rest = {} /\ call.at = "save"
  <2>1. [read EXCEPT !.at = "truncate"]
          = [call EXCEPT !.at = "truncate", !.reply = call.reply, !.todo = {}, !.copy = copy]
    BY <1>2, <1>5, <1>9 DEF CallStates
  <2>2. Move(s, [call EXCEPT !.at = "truncate", !.reply = call.reply, !.todo = {}, !.copy = copy])
    BY <1>9, <2>1 DEF ReadProperty
  <2>3. Becomes(s, "truncate", call.reply, {}, copy)
    BY <1>1, <1>2, <1>4, <2>2, MoveBecomes
  <2>4. QED
    BY <1>9, <2>3
<1>10. QED
  BY <1>6, <1>7, <1>8, <1>9

\* A save that reaches the file: it is truncated, written, or not opened.
LEMMA TruncateBecomes ==
  ASSUME TypeOK, NEW s \in Slots, Truncate(s)
  PROVE  Becomes(s, "write", calls[s].reply, calls[s].todo, calls[s].copy)
<1>1. s \in Processes /\ "write" \in Places
  BY DEF Processes, Places
<1>2. Move(s, [calls[s] EXCEPT !.at = "write"])
  BY DEF Truncate
<1>3. [calls[s] EXCEPT !.at = "write"]
        = [calls[s] EXCEPT !.at = "write", !.reply = calls[s].reply, !.todo = calls[s].todo,
                           !.copy = calls[s].copy]
  BY <1>1, CallTypes DEF CallStates
<1>4. QED
  BY <1>1, <1>2, <1>3, CallTypes, MoveBecomes

LEMMA SavedBecomes ==
  ASSUME TypeOK, NEW s \in Slots, WriteFile(s) \/ SaveFails(s)
  PROVE  Becomes(s, "answered", "ok", {}, Empty)
<1>1. s \in Processes /\ "answered" \in Places /\ "ok" \in Replies /\ {} \in SUBSET Keys
  BY DEF Processes, Places, Replies
<1>2. Move(s, Answer([calls[s] EXCEPT !.copy = Empty], "ok"))
  BY DEF WriteFile, SaveFails
<1>3. Answer([calls[s] EXCEPT !.copy = Empty], "ok")
        = [calls[s] EXCEPT !.at = "answered", !.reply = "ok", !.todo = {}, !.copy = Empty]
  BY <1>1, CallTypes DEF CallStates, Answer
<1>4. Move(s, [calls[s] EXCEPT !.at = "answered", !.reply = "ok", !.todo = {}, !.copy = Empty])
  BY <1>2, <1>3
<1>5. QED
  BY <1>1, <1>4, CallTypes, MoveBecomes

LEMMA ReloadConfigBecomes ==
  ASSUME TypeOK, NEW s \in Slots, ReloadConfig(s)
  PROVE  Becomes(s, "parse", calls[s].reply, calls[s].todo, calls[s].copy)
<1>1. s \in Processes /\ "parse" \in Places
  BY DEF Processes, Places
<1>2. Move(s, [calls[s] EXCEPT !.at = "parse"])
  BY DEF ReloadConfig
<1>3. [calls[s] EXCEPT !.at = "parse"]
        = [calls[s] EXCEPT !.at = "parse", !.reply = calls[s].reply, !.todo = calls[s].todo,
                           !.copy = calls[s].copy]
  BY <1>1, CallTypes DEF CallStates
<1>4. QED
  BY <1>1, <1>2, <1>3, CallTypes, MoveBecomes

\* The end of a reload: the handler answers, the monitor stamps.
Ends(x) ==
  /\ MovesOnly(x)
  /\ x = Monitor => calls'[x].at = "stamp" /\ calls'[x].op = "none"
  /\ x # Monitor => \E reply \in {"ok", "refused"} : Becomes(x, "answered", reply, {}, Empty)

LEMMA IdleIsACall ==
  /\ Idle \in CallStates /\ Idle.at = "free" /\ Idle.op = "none"
  /\ [Idle EXCEPT !.at = "stamp"] \in CallStates
  /\ [Idle EXCEPT !.at = "stamp"].at = "stamp" /\ [Idle EXCEPT !.at = "stamp"].op = "none"
  /\ [Idle EXCEPT !.at = "parse"] \in CallStates
  /\ [Idle EXCEPT !.at = "parse"].at = "parse" /\ [Idle EXCEPT !.at = "parse"].op = "none"
<1>1. /\ "free" \in Places /\ "stamp" \in Places /\ "parse" \in Places
      /\ "none" \in Ops /\ "none" \in Replies /\ {} \in SUBSET Keys
  BY DEF Places, Ops, Replies
<1>2. Empty \in [Keys -> Values \cup {Nothing}]
  BY DEF Empty
<1>3. QED
  BY <1>1, <1>2 DEF Idle, CallStates

LEMMA ReloadedEnds ==
  ASSUME TypeOK, NEW x \in Processes, NEW reply \in {"ok", "refused"}, Move(x, Reloaded(x, reply))
  PROVE  Ends(x)
<1>1. CASE x = Monitor
  <2>1. Move(x, [Idle EXCEPT !.at = "stamp"])
    BY <1>1 DEF Reloaded
  <2>2. QED
    BY <1>1, <2>1, IdleIsACall, Moves DEF Ends
<1>2. CASE x # Monitor
  <2>1. Reloaded(x, reply)
          = [calls[x] EXCEPT !.at = "answered", !.reply = reply, !.todo = {}, !.copy = Empty]
    BY <1>2, CallTypes DEF CallStates, Answer, Reloaded
  <2>2. "answered" \in Places /\ reply \in Replies /\ {} \in SUBSET Keys
    BY DEF Places, Replies
  <2>3. Becomes(x, "answered", reply, {}, Empty)
    BY <2>1, <2>2, CallTypes, MoveBecomes
  <2>4. QED
    BY <1>2, <2>3 DEF Ends, Becomes
<1>3. QED
  BY <1>1, <1>2

LEMMA ParseBecomes ==
  ASSUME TypeOK, NEW x \in Processes, Parse(x)
  PROVE  \/ Readable /\ Becomes(x, "load", calls[x].reply, calls[x].todo, calls[x].copy)
         \/ ~ Readable /\ Ends(x)
<1>1. CASE Readable
  <2>1. Move(x, [calls[x] EXCEPT !.at = "load"]) /\ "load" \in Places
    BY <1>1 DEF Parse, Places
  <2>2. [calls[x] EXCEPT !.at = "load"]
          = [calls[x] EXCEPT !.at = "load", !.reply = calls[x].reply, !.todo = calls[x].todo,
                             !.copy = calls[x].copy]
    BY CallTypes DEF CallStates
  <2>3. Becomes(x, "load", calls[x].reply, calls[x].todo, calls[x].copy)
    BY <2>1, <2>2, CallTypes, MoveBecomes
  <2>4. QED
    BY <1>1, <2>3
<1>2. CASE ~ Readable
  BY <1>2, ReloadedEnds DEF Parse
<1>3. QED
  BY <1>1, <1>2

LEMMA LoadBecomes ==
  ASSUME TypeOK, NEW x \in Processes, Load(x)
  PROVE  \/ /\ Contents \in [Keys -> Values]
            /\ Becomes(x, "apply", calls[x].reply, Keys, Contents)
         \/ ~ Readable /\ Ends(x)
<1>1. CASE Readable
  <2>1. Contents \in [Keys -> Values]
    BY <1>1, ContentsAreValues DEF TypeOK
  <2>2. Contents \in [Keys -> Values \cup {Nothing}] /\ Keys \in SUBSET Keys /\ "apply" \in Places
    BY <2>1 DEF Places
  <2>3. Move(x, [calls[x] EXCEPT !.at = "apply", !.todo = Keys, !.copy = Contents])
    BY <1>1 DEF Load
  <2>4. [calls[x] EXCEPT !.at = "apply", !.todo = Keys, !.copy = Contents]
          = [calls[x] EXCEPT !.at = "apply", !.reply = calls[x].reply, !.todo = Keys, !.copy = Contents]
    BY CallTypes DEF CallStates
  <2>5. Becomes(x, "apply", calls[x].reply, Keys, Contents)
    BY <2>2, <2>3, <2>4, CallTypes, MoveBecomes
  <2>6. QED
    BY <2>1, <2>5
<1>2. CASE ~ Readable
  BY <1>2, ReloadedEnds DEF Load
<1>3. QED
  BY <1>1, <1>2

LEMMA ApplyBecomes ==
  ASSUME TypeOK, NEW x \in Processes, NEW k \in Keys, Apply(x, k)
  PROVE  LET rest == calls[x].todo \ {k}
         IN  \/ rest # {} /\ Becomes(x, "apply", calls[x].reply, rest, calls[x].copy)
             \/ rest = {} /\ Ends(x)
<1> DEFINE rest == calls[x].todo \ {k}
<1>1. CASE rest # {}
  <2>1. Move(x, [calls[x] EXCEPT !.todo = rest]) /\ At(x, "apply") /\ "apply" \in Places
    BY <1>1 DEF Apply, Places
  <2>2. [calls[x] EXCEPT !.todo = rest]
          = [calls[x] EXCEPT !.at = "apply", !.reply = calls[x].reply, !.todo = rest,
                             !.copy = calls[x].copy]
    BY <2>1, CallTypes DEF CallStates, At
  <2>3. rest \in SUBSET Keys
    BY CallTypes
  <2>4. Becomes(x, "apply", calls[x].reply, rest, calls[x].copy)
    BY <2>1, <2>2, <2>3, CallTypes, MoveBecomes
  <2>5. QED
    BY <1>1, <2>4
<1>2. CASE rest = {}
  <2>1. Move(x, Reloaded(x, "ok"))
    BY <1>2 DEF Apply
  <2>2. Ends(x)
    BY <2>1, ReloadedEnds
  <2>3. QED
    BY <1>2, <2>2
<1>3. QED
  BY <1>1, <1>2

-----------------------------------------------------------------------------
(* The steps of a handler keep the types and what the calls carry.          *)

LEMMA FitsKept ==
  ASSUME CallsFit, NEW x \in Processes, MovesOnly(x), Fits(x, calls'[x])
  PROVE  CallsFit'
BY DEF CallsFit, MovesOnly

\* A handler goes on with its request.
HandlerMoves(s) ==
  /\ MovesOnly(s) /\ Fits(s, calls'[s])
  /\ calls'[s].op = calls[s].op /\ calls'[s].key = calls[s].key
  /\ calls'[s].value = calls[s].value
  /\ calls[s].at \notin {"free", "answered"} /\ calls'[s].at # "free"

LEMMA OldFits ==
  ASSUME CallsFit, NEW s \in Slots
  PROVE  Fits(s, calls[s]) /\ s # Monitor /\ s \in Processes
BY Constants DEF CallsFit, Processes

LEMMA SlotEnds ==
  ASSUME CallsFit, NEW s \in Slots, Ends(s), calls[s].at \in Reloading
  PROVE  HandlerMoves(s)
<1>1. calls[s].op = "reload" /\ s # Monitor
  BY OldFits DEF Fits
<1>2. PICK reply \in {"ok", "refused"} : Becomes(s, "answered", reply, {}, Empty)
  BY <1>1 DEF Ends
<1>3. QED
  BY <1>1, <1>2 DEF Becomes, HandlerMoves, Fits, Saving, Reloading, Adds, Drops

LEMMA ReloadMoves ==
  ASSUME TypeOK, CallsFit, NEW s \in Slots, ReloadStep(s)
  PROVE  HandlerMoves(s)
<1>1. Fits(s, calls[s]) /\ s # Monitor /\ s \in Processes
  BY OldFits
<1>2. calls[s].at \in Reloading
  BY DEF ReloadStep, Parse, Load, Apply, At, Reloading
<1>3. calls[s].op = "reload"
  BY <1>1, <1>2 DEF Fits
<1>4. CASE Ends(s)
  BY <1>2, <1>4, SlotEnds
<1>5. CASE Parse(s) /\ ~ Ends(s)
  <2>1. Becomes(s, "load", calls[s].reply, calls[s].todo, calls[s].copy)
    BY <1>1, <1>5, ParseBecomes
  <2>2. QED
    BY <1>1, <1>2, <1>3, <2>1 DEF Becomes, HandlerMoves, Fits, Saving, Reloading, Adds, Drops
<1>6. CASE Load(s) /\ ~ Ends(s)
  <2>1. Contents \in [Keys -> Values] /\ Becomes(s, "apply", calls[s].reply, Keys, Contents)
    BY <1>1, <1>6, LoadBecomes
  <2>2. QED
    BY <1>1, <1>2, <1>3, <2>1, Constants DEF Becomes, HandlerMoves, Fits, Saving, Reloading, Adds, Drops
<1>7. CASE ~ Ends(s) /\ \E k \in Keys : Apply(s, k)
  <2>1. PICK k \in Keys : Apply(s, k)
    BY <1>7
  <2>2. /\ calls[s].at = "apply" /\ calls[s].todo \ {k} # {}
        /\ Becomes(s, "apply", calls[s].reply, calls[s].todo \ {k}, calls[s].copy)
    BY <1>1, <1>7, <2>1, ApplyBecomes DEF Apply, At
  <2>3. QED
    BY <1>1, <1>2, <1>3, <2>2 DEF Becomes, HandlerMoves, Fits, Saving, Reloading, Adds, Drops
<1>8. QED
  BY <1>4, <1>5, <1>6, <1>7 DEF ReloadStep

LEMMA ReadMoves ==
  ASSUME TypeOK, CallsFit, NEW s \in Slots, NEW k \in Keys, ReadProperty(s, k)
  PROVE  HandlerMoves(s)
<1> DEFINE rest == calls[s].todo \ {k}
           copy == [calls[s].copy EXCEPT ![k] = memory[k]]
<1>1. Fits(s, calls[s]) /\ s # Monitor /\ s \in Processes
  BY OldFits
<1>2. calls[s].at \in {"read", "save"} /\ calls[s].todo \subseteq Keys
  BY <1>1, CallTypes DEF ReadProperty
<1>3. /\ calls[s].at = "read" => calls[s].op = "get_config"
      /\ calls[s].at = "save" => calls[s].op = "put_config"
      /\ \A l \in Keys \ calls[s].todo : calls[s].copy[l] \in Values
  BY <1>1, <1>2 DEF Fits, Saving
<1>4. memory[k] \in Values /\ calls[s].copy \in [Keys -> Values \cup {Nothing}]
  BY <1>1, CallTypes DEF TypeOK
<1>5. \A l \in Keys \ rest : copy[l] \in Values
  BY <1>3, <1>4
<1>6. rest = {} => copy \in [Keys -> Values]
  <2>1. copy \in [Keys -> Values \cup {Nothing}]
    BY <1>4
  <2>2. QED
    BY <1>5, <2>1
<1>7. CASE rest # {} /\ Becomes(s, calls[s].at, calls[s].reply, rest, copy)
  BY <1>1, <1>2, <1>3, <1>5, <1>7 DEF Becomes, HandlerMoves, Fits, Saving, Reloading, Adds, Drops
<1>8. CASE rest = {} /\ calls[s].at = "read" /\ Becomes(s, "answered", "ok", {}, copy)
  BY <1>1, <1>2, <1>3, <1>6, <1>8 DEF Becomes, HandlerMoves, Fits, Saving, Reloading, Adds, Drops
<1>9. CASE rest = {} /\ calls[s].at = "save" /\ Becomes(s, "truncate", calls[s].reply, {}, copy)
  BY <1>1, <1>2, <1>3, <1>6, <1>9 DEF Becomes, HandlerMoves, Fits, Saving, Reloading, Adds, Drops
<1>10. QED
  BY <1>7, <1>8, <1>9, ReadBecomes

LEMMA HandlerKeepsFit ==
  ASSUME TypeOK, CallsFit, NEW s \in Slots, HandlerStep(s)
  PROVE  HandlerMoves(s)
<1>1. Fits(s, calls[s]) /\ s # Monitor /\ s \in Processes
  BY OldFits
<1>2. CASE GetAllConfig(s)
  <2>1. /\ Becomes(s, "read", calls[s].reply, Keys, calls[s].copy)
        /\ calls[s].at = "sent" /\ calls[s].op = "get_config"
    BY <1>2, GetAllConfigBecomes DEF GetAllConfig, At
  <2>2. QED
    BY <1>1, <2>1, Constants DEF Becomes, HandlerMoves, Fits, Saving, Reloading, Adds, Drops
<1>3. CASE UpdateConfigProperty(s)
  <2>1. /\ \/ Becomes(s, "save", calls[s].reply, Keys, calls[s].copy)
           \/ Becomes(s, "answered", "refused", {}, calls[s].copy)
        /\ calls[s].at = "sent" /\ calls[s].op = "put_config"
    BY <1>3, UpdateBecomes DEF UpdateConfigProperty, At
  <2>2. QED
    BY <1>1, <2>1, Constants DEF Becomes, HandlerMoves, Fits, Saving, Reloading, Adds, Drops
<1>4. CASE ReloadConfig(s)
  <2>1. /\ Becomes(s, "parse", calls[s].reply, calls[s].todo, calls[s].copy)
        /\ calls[s].at = "sent" /\ calls[s].op = "reload"
    BY <1>4, ReloadConfigBecomes DEF ReloadConfig, At
  <2>2. QED
    BY <1>1, <2>1 DEF Becomes, HandlerMoves, Fits, Saving, Reloading, Adds, Drops
<1>5. CASE \E k \in Keys : ReadProperty(s, k)
  BY <1>5, ReadMoves
<1>6. CASE Truncate(s)
  <2>1. /\ Becomes(s, "write", calls[s].reply, calls[s].todo, calls[s].copy)
        /\ calls[s].at = "truncate" /\ calls[s].op = "put_config"
    BY <1>1, <1>6, TruncateBecomes DEF Truncate, At, Fits, Saving
  <2>2. QED
    BY <1>1, <2>1 DEF Becomes, HandlerMoves, Fits, Saving, Reloading, Adds, Drops
<1>7. CASE WriteFile(s) \/ SaveFails(s)
  <2>1. /\ Becomes(s, "answered", "ok", {}, Empty)
        /\ calls[s].at \in {"truncate", "write"} /\ calls[s].op = "put_config"
    BY <1>1, <1>7, SavedBecomes DEF WriteFile, SaveFails, At, Fits, Saving
  <2>2. QED
    BY <1>1, <2>1 DEF Becomes, HandlerMoves, Fits, Saving, Reloading, Adds, Drops
<1>8. CASE ReloadStep(s)
  BY <1>8, ReloadMoves
<1>9. QED
  BY <1>2, <1>3, <1>4, <1>5, <1>6, <1>7, <1>8 DEF HandlerStep

-----------------------------------------------------------------------------
(* The monitor, and what both do to the configuration.                      *)

LEMMA MonitorFits ==
  ASSUME CallsFit
  PROVE  Fits(Monitor, calls[Monitor]) /\ Monitor \in Processes
BY DEF CallsFit, Processes

LEMMA MonitorEnds ==
  ASSUME Ends(Monitor)
  PROVE  MovesOnly(Monitor) /\ Fits(Monitor, calls'[Monitor])
BY DEF Ends, Fits, Saving, Reloading, Adds, Drops

LEMMA MonitorWakesUp ==
  ASSUME TypeOK, MonitorWakes
  PROVE  MovesOnly(Monitor) /\ calls'[Monitor].at = "parse" /\ calls'[Monitor].op = "none"
<1>1. Monitor \in Processes
  BY DEF Processes
<1>2. QED
  BY <1>1, IdleIsACall, Moves DEF MonitorWakes

LEMMA MonitorSleeps ==
  ASSUME TypeOK, MonitorStamps
  PROVE  MovesOnly(Monitor) /\ calls'[Monitor].at = "free" /\ calls'[Monitor].op = "none"
<1>1. Monitor \in Processes
  BY DEF Processes
<1>2. QED
  BY <1>1, IdleIsACall, Moves DEF MonitorStamps

LEMMA MonitorKeepsFit ==
  ASSUME TypeOK, CallsFit, MonitorStep
  PROVE  MovesOnly(Monitor) /\ Fits(Monitor, calls'[Monitor])
<1>1. Fits(Monitor, calls[Monitor]) /\ Monitor \in Processes
  BY MonitorFits
<1>2. CASE MonitorWakes
  BY <1>2, MonitorWakesUp DEF Fits, Saving, Reloading, Adds, Drops
<1>3. CASE MonitorStamps
  BY <1>3, MonitorSleeps DEF Fits, Saving, Reloading, Adds, Drops
<1>4. CASE Parse(Monitor)
  <2>1. CASE Becomes(Monitor, "load", calls[Monitor].reply, calls[Monitor].todo, calls[Monitor].copy)
    BY <1>1, <2>1 DEF Becomes, Fits, Saving, Reloading, Adds, Drops
  <2>2. QED
    BY <1>1, <1>4, <2>1, ParseBecomes, MonitorEnds
<1>5. CASE Load(Monitor)
  <2>1. CASE Contents \in [Keys -> Values] /\ Becomes(Monitor, "apply", calls[Monitor].reply, Keys, Contents)
    BY <1>1, <2>1, Constants DEF Becomes, Fits, Saving, Reloading, Adds, Drops
  <2>2. QED
    BY <1>1, <1>5, <2>1, LoadBecomes, MonitorEnds
<1>6. ASSUME NEW k \in Keys, Apply(Monitor, k)
      PROVE  MovesOnly(Monitor) /\ Fits(Monitor, calls'[Monitor])
  <2> DEFINE rest == calls[Monitor].todo \ {k}
  <2>1. CASE rest # {} /\ Becomes(Monitor, "apply", calls[Monitor].reply, rest, calls[Monitor].copy)
    <3>1. calls[Monitor].at = "apply"
      BY <1>6 DEF Apply, At
    <3>2. QED
      BY <1>1, <2>1, <3>1 DEF Becomes, Fits, Saving, Reloading, Adds, Drops
  <2>2. QED
    BY <1>1, <1>6, <2>1, ApplyBecomes, MonitorEnds
<1>7. QED
  BY <1>2, <1>3, <1>4, <1>5, <1>6 DEF MonitorStep, ReloadStep

\* The configuration keeps its types, and the file nobody edits.
ConfigTypes ==
  /\ memory \in [Keys -> Values]
  /\ file \in [Keys -> Scalars] \cup {Empty}
  /\ asked \in [Keys -> Values]
  /\ changed \in BOOLEAN /\ calm \in BOOLEAN

LEMMA ReloadTypes ==
  ASSUME ConfigTypes, CallsFit, NEW x \in Processes, ReloadStep(x)
  PROVE  ConfigTypes' /\ edits' = edits /\ asked' = asked /\ calm' = calm
<1>1. CASE Parse(x) \/ Load(x)
  BY <1>1 DEF Parse, Load, config, ConfigTypes
<1>2. ASSUME NEW k \in Keys, Apply(x, k)
      PROVE  ConfigTypes' /\ edits' = edits /\ asked' = asked /\ calm' = calm
  <2>1. calls[x].copy \in [Keys -> Values]
    BY <1>2 DEF Apply, At, CallsFit, Fits
  <2>2. QED
    BY <1>2, <2>1 DEF Apply, ConfigTypes
<1>3. QED
  BY <1>1, <1>2 DEF ReloadStep

LEMMA HandlerTypes ==
  ASSUME TypeOK, CallsFit, NEW s \in Slots, HandlerStep(s)
  PROVE  /\ ConfigTypes' /\ edits' = edits /\ (calm' => calm)
         /\ asked' # asked => UpdateConfigProperty(s)
<1>0. ConfigTypes
  BY DEF TypeOK, ConfigTypes
<1>1. Fits(s, calls[s]) /\ s \in Processes
  BY OldFits
<1>2. CASE GetAllConfig(s) \/ \E k \in Keys : ReadProperty(s, k)
  <2>1. UNCHANGED config
    BY <1>2 DEF GetAllConfig, ReadProperty
  <2>2. QED
    BY <1>0, <2>1 DEF config, ConfigTypes
<1>2a. CASE ReloadConfig(s)
  <2>1. calm' \in BOOLEAN /\ (calm' => calm)
    BY <1>2a DEF ReloadConfig, ChangeBegins
  <2>2. UNCHANGED <<memory, file, changed, edits, asked>>
    BY <1>2a DEF ReloadConfig
  <2>3. QED
    BY <1>0, <2>1, <2>2 DEF ConfigTypes
<1>3. CASE UpdateConfigProperty(s)
  <2>1. CASE /\ calls[s].key \in Keys /\ Typed[calls[s].key][calls[s].value] \in Values
             /\ memory' = [memory EXCEPT ![calls[s].key] = Typed[calls[s].key][calls[s].value]]
             /\ asked' = [asked EXCEPT ![calls[s].key] = Typed[calls[s].key][calls[s].value]]
             /\ calm' = (calm /\ Changing = {} /\ InStep)
    BY <1>0, <1>3, <2>1 DEF UpdateConfigProperty, ConfigTypes
  <2>2. CASE UNCHANGED <<memory, asked, calm>>
    BY <1>0, <1>3, <2>2 DEF UpdateConfigProperty, ConfigTypes
  <2>3. QED
    BY <1>3, <2>1, <2>2, UpdateBecomes
<1>4. CASE Truncate(s) \/ SaveFails(s)
  <2>1. file' \in {file, Empty} /\ UNCHANGED <<memory, asked, edits>>
    BY <1>4 DEF Truncate, SaveFails
  <2>2. calm' \in BOOLEAN /\ changed' \in BOOLEAN
    BY <1>0, <1>4 DEF Truncate, SaveFails, ConfigTypes
  <2>3. calm' => calm
    BY <1>4 DEF Truncate, SaveFails
  <2>4. QED
    BY <1>0, <2>1, <2>2, <2>3 DEF ConfigTypes
<1>5. CASE WriteFile(s)
  <2>1. calls[s].copy \in [Keys -> Values]
    BY <1>1, <1>5 DEF WriteFile, At, Fits
  <2>2. [k \in Keys |-> TextOf[calls[s].copy[k]]] \in [Keys -> Scalars]
    BY <2>1, ConfigAssumption
  <2>3. file' \in [Keys -> Scalars] \cup {Empty}
    BY <1>5, <2>2 DEF WriteFile
  <2>4. changed' = TRUE /\ UNCHANGED <<memory, edits, asked, calm>>
    BY <1>5 DEF WriteFile
  <2>5. QED
    BY <1>0, <2>3, <2>4 DEF ConfigTypes
<1>6. CASE ReloadStep(s)
  BY <1>0, <1>1, <1>6, ReloadTypes
<1>7. QED
  BY <1>2, <1>2a, <1>3, <1>4, <1>5, <1>6 DEF HandlerStep

LEMMA MonitorTypes ==
  ASSUME TypeOK, CallsFit, MonitorStep
  PROVE  ConfigTypes' /\ edits' = edits /\ asked' = asked /\ (calm' => calm)
<1>0. ConfigTypes
  BY DEF TypeOK, ConfigTypes
<1>1. CASE MonitorWakes \/ MonitorStamps
  <2>1. calm' \in BOOLEAN /\ (calm' => calm)
    <3>1. CASE MonitorWakes
      BY <3>1 DEF MonitorWakes, ChangeBegins
    <3>2. CASE MonitorStamps
      BY <1>0, <3>2 DEF MonitorStamps, ConfigTypes
    <3>3. QED
      BY <1>1, <3>1, <3>2
  <2>2. changed' \in {changed, FALSE} /\ UNCHANGED <<memory, file, edits, asked>>
    BY <1>1 DEF MonitorWakes, MonitorStamps
  <2>3. QED
    BY <1>0, <2>1, <2>2 DEF ConfigTypes
<1>2. CASE ReloadStep(Monitor)
  BY <1>0, <1>2, MonitorFits, ReloadTypes
<1>3. QED
  BY <1>1, <1>2 DEF MonitorStep

-----------------------------------------------------------------------------
(* Changes that come one after the other.                                   *)

Busy == Saving \cup Reloading \cup {"stamp"}

LEMMA ChangingIsBusy ==
  Changing = { x \in Processes : calls[x].at \in Busy }
BY DEF Changing, Processes, Busy, Saving, Reloading

LEMMA ChangingMoves ==
  ASSUME NEW x \in Processes, MovesOnly(x)
  PROVE  /\ \A y \in Changing' : y \in Processes
         /\ x \in Changing' <=> calls'[x].at \in Busy
         /\ \A y \in Processes \ {x} : y \in Changing' <=> y \in Changing
<1>1. Changing' = { y \in Processes : calls'[y].at \in Busy }
  BY DEF Changing, Processes, Busy, Saving, Reloading
<1>2. QED
  BY <1>1, ChangingIsBusy DEF MovesOnly

\* What the step of the only process that changes something has to show.
StaysCalm(x) ==
  calm => /\ x \in Changing => ChangeAgrees(x)
          /\ calls[x].at \notin Saving => Agreed
          /\ MemoryAgrees

LEMMA CalmByOne ==
  ASSUME NEW x \in Processes, MovesOnly(x), calm' => calm /\ Changing \subseteq {x},
         StaysCalm(x)'
  PROVE  CalmInv'
<1> SUFFICES ASSUME calm'
             PROVE  /\ OneChange' /\ FileAgrees' /\ MemoryAgrees'
                    /\ \A y \in Changing' : ChangeAgrees(y)'
  BY DEF CalmInv
<1>1. Changing' \subseteq {x}
  BY ChangingMoves
<1>2. OneChange'
  BY <1>1 DEF OneChange
<1>3. \A y \in Changing' : ChangeAgrees(y)'
  BY <1>1 DEF StaysCalm
<1>4. FileAgrees'
  <2> SUFFICES ASSUME \A y \in Changing' : calls'[y].at \notin Saving
               PROVE  Agreed'
    BY DEF FileAgrees
  <2>1. calls'[x].at \notin Saving
    BY ChangingMoves DEF Busy
  <2>2. QED
    BY <2>1 DEF StaysCalm
<1>5. QED
  BY <1>2, <1>3, <1>4 DEF StaysCalm

\* What memory and file agree on does not depend on who is about.
LEMMA ConfigAside ==
  ASSUME UNCHANGED config
  PROVE  /\ Agreed' <=> Agreed
         /\ MemoryAgrees' <=> MemoryAgrees
         /\ Readable' <=> Readable
         /\ Contents' = Contents
         /\ \A x : calls'[x] = calls[x] => (ChangeAgrees(x)' <=> ChangeAgrees(x))
<1>1. UNCHANGED <<memory, file, changed, edits, asked, calm>>
  BY DEF config
<1>2. (Readable' <=> Readable) /\ Contents' = Contents
  BY <1>1 DEF Readable, Contents
<1>3. QED
  BY <1>1, <1>2 DEF Agreed, MemoryAgrees, ChangeAgrees

\* A step of a process that changes nothing.
LEMMA CalmAside ==
  ASSUME CalmInv, NEW x \in Processes, MovesOnly(x),
         calls[x].at \notin Busy, calls'[x].at \notin Busy, UNCHANGED config
  PROVE  CalmInv'
<1>1. calm' = calm
  BY DEF config
<1>2. Changing' = Changing
  BY ChangingMoves, ChangingIsBusy
<1>3. \A y \in Changing : calls'[y] = calls[y]
  BY ChangingIsBusy DEF MovesOnly
<1>4. CASE ~ calm
  BY <1>1, <1>4 DEF CalmInv
<1>5. CASE calm
  <2>1. OneChange' /\ MemoryAgrees'
    BY <1>2, <1>5, ConfigAside DEF CalmInv, OneChange
  <2>2. ASSUME NEW y \in Changing
        PROVE  ChangeAgrees(y)'
    <3>1. ChangeAgrees(y) /\ calls'[y] = calls[y]
      BY <1>3, <1>5 DEF CalmInv
    <3>2. QED
      BY <3>1, ConfigAside
  <2>3. FileAgrees'
    BY <1>2, <1>3, <1>5, ConfigAside DEF CalmInv, FileAgrees
  <2>4. QED
    BY <1>2, <2>1, <2>2, <2>3 DEF CalmInv
<1>6. QED
  BY <1>4, <1>5

LEMMA CalmFacts ==
  ASSUME CalmInv, calm, NEW x \in Processes, calls[x].at \in Busy
  PROVE  /\ Changing = {x} /\ ChangeAgrees(x) /\ MemoryAgrees
         /\ calls[x].at \notin Saving => Agreed
BY ChangingIsBusy DEF CalmInv, OneChange, FileAgrees

LEMMA QuietFacts ==
  ASSUME CalmInv, calm, Changing = {}
  PROVE  Agreed /\ MemoryAgrees
BY DEF CalmInv, FileAgrees

\* One value taken over from the file: what memory and file agree on stays.
LEMMA TakenOver ==
  ASSUME ConfigTypes, Agreed, MemoryAgrees, NEW k \in Keys,
         memory' = [memory EXCEPT ![k] = Contents[k]],
         UNCHANGED <<file, changed, edits, asked>>
  PROVE  /\ Agreed' /\ MemoryAgrees' /\ Contents' = Contents
         /\ memory' \in [Keys -> Values] /\ memory'[k] = Contents[k]
         /\ edits = 0 => \A l \in Keys : memory'[l] \in Retyped[memory[l]]
<1>1. Contents' = Contents /\ Readable' /\ Readable
  BY DEF Contents, Readable, Agreed
<1>2. /\ Contents \in [Keys -> Values] /\ memory \in [Keys -> Values] /\ asked \in [Keys -> Values]
  BY <1>1, ContentsAreValues DEF ConfigTypes
<1>3. /\ memory' \in [Keys -> Values] /\ memory'[k] = Contents[k]
      /\ \A l \in Keys \ {k} : memory'[l] = memory[l]
  BY <1>2
<1>4. \A l \in Keys : /\ memory'[l] \in Retyped[memory'[l]]
                      /\ memory[l] \in Retyped[memory[l]]
  BY <1>2, <1>3, RetypedKeeps
<1>5. edits = 0 => \A l \in Keys : memory'[l] \in Retyped[memory[l]]
  BY <1>3, <1>4 DEF Agreed
<1>6. Agreed'
  <2>1. ASSUME NEW l \in Keys
        PROVE  /\ Contents[l] \in Retyped[asked[l]]
               /\ ~ changed => memory'[l] \in Retyped[asked[l]]
               /\ edits = 0 => Contents[l] \in Retyped[memory'[l]]
    <3>1. CASE l = k
      BY <1>3, <1>4, <3>1 DEF Agreed
    <3>2. CASE l # k
      BY <1>3, <3>2 DEF Agreed
    <3>3. QED
      BY <3>1, <3>2
  <2>2. QED
    BY <1>1, <2>1 DEF Agreed
<1>7. MemoryAgrees'
  BY <1>3 DEF Agreed, MemoryAgrees
<1>8. QED
  BY <1>1, <1>3, <1>5, <1>6, <1>7

\* What is about to be saved is what was asked for, or will be when it is read.
LEMMA SavedWillAgree ==
  ASSUME ConfigTypes, Agreed, MemoryAgrees, InStep, NEW k \in Keys, NEW v \in Values,
         memory' = [memory EXCEPT ![k] = v], asked' = [asked EXCEPT ![k] = v], edits' = edits
  PROVE  MemoryAgrees' /\ \A l \in Keys : Reread(memory'[l]) \in Retyped[asked'[l]]
<1>1. /\ memory \in [Keys -> Values] /\ asked \in [Keys -> Values] /\ Readable
  BY DEF ConfigTypes, Agreed
<1>2. v \in Retyped[v] /\ Reread(v) \in Retyped[v]
  BY RetypedKeeps
<1>3. ASSUME NEW l \in Keys, l # k
      PROVE  Reread(memory[l]) \in Retyped[asked[l]]
  <2>1. Contents[l] \in Retyped[asked[l]]
    BY DEF Agreed
  <2>2. CASE memory = Contents
    BY <1>1, <2>1, <2>2, RetypedKeeps
  <2>3. CASE file = [j \in Keys |-> TextOf[memory[j]]]
    <3>1. Contents[l] = Reread(memory[l])
      BY <2>3 DEF Contents, Reread
    <3>2. QED
      BY <2>1, <3>1
  <2>4. QED
    BY <2>2, <2>3 DEF InStep
<1>4. MemoryAgrees'
  BY <1>1, <1>2 DEF MemoryAgrees
<1>5. QED
  BY <1>1, <1>2, <1>3, <1>4

\* The keys that are left are one fewer; a copy is complete when none is left.
LEMMA ReloadIsCalm ==
  ASSUME TypeOK, CallsFit, CalmInv, NEW x \in Processes, ReloadStep(x)
  PROVE  CalmInv'
<1>1. calls[x].at \in Reloading /\ calls[x].at \in Busy /\ calls[x].at \notin Saving
  BY DEF ReloadStep, Parse, Load, Apply, At, Busy, Reloading, Saving
<1>2. ConfigTypes /\ UNCHANGED <<file, changed, edits, asked, calm>>
  BY DEF TypeOK, ConfigTypes, ReloadStep, Parse, Load, Apply, config
<1>3. MovesOnly(x)
  <2>1. CASE Parse(x)
    BY <2>1, ParseBecomes DEF Becomes, Ends
  <2>2. CASE Load(x)
    BY <2>2, LoadBecomes DEF Becomes, Ends
  <2>3. CASE \E k \in Keys : Apply(x, k)
    BY <2>3, ApplyBecomes DEF Becomes, Ends
  <2>4. QED
    BY <2>1, <2>2, <2>3 DEF ReloadStep
<1> SUFFICES ASSUME calm
             PROVE  StaysCalm(x)'
  BY <1>1, <1>2, <1>3, CalmByOne, CalmFacts DEF CalmInv
<1>4. ChangeAgrees(x) /\ Agreed /\ MemoryAgrees /\ Readable
  BY <1>1, CalmFacts DEF Agreed
<1>5. x \in Changing' <=> calls'[x].at \in Busy
  BY <1>3, ChangingMoves
<1>6. CASE Parse(x)
  <2>1. calls'[x].at = "load" /\ UNCHANGED config
    BY <1>4, <1>6, ParseBecomes DEF Becomes, Parse
  <2>2. Agreed' /\ MemoryAgrees'
    BY <1>4, <2>1, ConfigAside
  <2>3. QED
    BY <2>1, <2>2 DEF StaysCalm, ChangeAgrees, Saving
<1>7. CASE Load(x)
  <2>1. /\ calls'[x].at = "apply" /\ calls'[x].todo = Keys /\ calls'[x].copy = Contents
        /\ UNCHANGED config
    BY <1>4, <1>7, LoadBecomes DEF Becomes, Load
  <2>2. Agreed' /\ MemoryAgrees' /\ Contents' = Contents
    BY <1>4, <2>1, ConfigAside
  <2>3. QED
    BY <2>1, <2>2 DEF StaysCalm, ChangeAgrees, Saving
<1>8. ASSUME NEW k \in Keys, Apply(x, k)
      PROVE  StaysCalm(x)'
  <2> DEFINE rest == calls[x].todo \ {k}
  <2>1. /\ calls[x].at = "apply" /\ calls[x].copy = Contents
        /\ memory' = [memory EXCEPT ![k] = Contents[k]]
        /\ \A l \in Keys \ calls[x].todo : memory[l] = Contents[l]
    BY <1>4, <1>8 DEF Apply, At, ChangeAgrees
  <2>2. /\ Agreed' /\ MemoryAgrees' /\ Contents' = Contents
        /\ memory' \in [Keys -> Values] /\ memory'[k] = Contents[k]
    BY <1>2, <1>4, <2>1, TakenOver
  <2>3. \A l \in Keys \ rest : memory'[l] = Contents[l]
    BY <1>2, <2>1, <2>2 DEF ConfigTypes
  <2>4. CASE rest # {} /\ Becomes(x, "apply", calls[x].reply, rest, calls[x].copy)
    <3>1. calls'[x].at = "apply" /\ calls'[x].todo = rest /\ calls'[x].copy = Contents
      BY <2>1, <2>4 DEF Becomes
    <3>2. QED
      BY <2>2, <2>3, <3>1 DEF StaysCalm, ChangeAgrees, Saving
  <2>5. CASE rest = {} /\ Ends(x)
    <3>1. calls'[x].at \in {"stamp", "answered"}
      BY <2>5 DEF Ends, Becomes
    <3>2. memory' = Contents
      <4>1. Contents \in [Keys -> Values]
        BY <1>2, <1>4, ContentsAreValues DEF ConfigTypes
      <4>2. QED
        BY <2>2, <2>3, <2>5, <4>1
    <3>3. QED
      BY <2>2, <3>1, <3>2 DEF StaysCalm, ChangeAgrees, Saving
  <2>6. QED
    BY <1>8, <2>4, <2>5, ApplyBecomes
<1>9. QED
  BY <1>6, <1>7, <1>8 DEF ReloadStep

LEMMA HandlerIsCalm ==
  ASSUME TypeOK, CallsFit, CalmInv, NEW s \in Slots, HandlerStep(s)
  PROVE  CalmInv'
<1>1. Fits(s, calls[s]) /\ s # Monitor /\ s \in Processes /\ MovesOnly(s)
  BY OldFits, HandlerKeepsFit DEF HandlerMoves
<1>2. ConfigTypes /\ (calm' => calm)
  BY HandlerTypes DEF TypeOK, ConfigTypes
<1>3. CASE GetAllConfig(s)
  <2>1. /\ calls[s].at = "sent" /\ calls'[s].at = "read" /\ UNCHANGED config
    BY <1>3, GetAllConfigBecomes DEF GetAllConfig, At, Becomes
  <2>2. QED
    BY <1>1, <2>1, CalmAside DEF Busy, Saving, Reloading
<1>4. CASE UpdateConfigProperty(s)
  <2>1. UNCHANGED <<file, changed, edits>> /\ calls[s].at = "sent"
    BY <1>4 DEF UpdateConfigProperty, At
  <2>2. CASE /\ calls[s].key \in Keys /\ Typed[calls[s].key][calls[s].value] \in Values
             /\ Becomes(s, "save", calls[s].reply, Keys, calls[s].copy)
             /\ memory' = [memory EXCEPT ![calls[s].key] = Typed[calls[s].key][calls[s].value]]
             /\ asked' = [asked EXCEPT ![calls[s].key] = Typed[calls[s].key][calls[s].value]]
             /\ calm' = (calm /\ Changing = {} /\ InStep)
    <3>1. SUFFICES ASSUME calm'
                   PROVE  StaysCalm(s)' /\ calm /\ Changing = {}
      BY <1>1, CalmByOne DEF CalmInv
    <3>2. calm /\ Changing = {} /\ InStep
      BY <2>2, <3>1
    <3>3. Agreed /\ MemoryAgrees
      BY <3>2, QuietFacts
    <3>4. MemoryAgrees' /\ \A l \in Keys : Reread(memory'[l]) \in Retyped[asked'[l]]
      BY <1>2, <2>1, <2>2, <3>2, <3>3, SavedWillAgree
    <3>5. calls'[s].at = "save" /\ calls'[s].todo = Keys
      BY <2>2 DEF Becomes
    <3>6. QED
      BY <3>2, <3>4, <3>5 DEF StaysCalm, ChangeAgrees, Saving
  <2>3. CASE /\ Becomes(s, "answered", "refused", {}, calls[s].copy)
             /\ UNCHANGED <<memory, asked, calm>>
    <3>1. UNCHANGED config /\ calls'[s].at = "answered"
      BY <2>1, <2>3 DEF config, Becomes
    <3>2. QED
      BY <1>1, <2>1, <3>1, CalmAside DEF Busy, Saving, Reloading
  <2>4. QED
    BY <1>4, <2>2, <2>3, UpdateBecomes
<1>5. CASE ReloadConfig(s)
  <2>1. /\ UNCHANGED <<memory, file, changed, edits, asked>>
        /\ calm' = (calm /\ Changing = {}) /\ calls'[s].at = "parse"
    BY <1>5, ReloadConfigBecomes DEF ReloadConfig, ChangeBegins, Becomes
  <2>2. SUFFICES ASSUME calm'
                 PROVE  StaysCalm(s)' /\ calm /\ Changing = {}
    BY <1>1, CalmByOne DEF CalmInv
  <2>3. calm /\ Changing = {}
    BY <2>1, <2>2
  <2>4. Agreed /\ MemoryAgrees
    BY <2>3, QuietFacts
  <2>5. Agreed' /\ MemoryAgrees'
    BY <2>1, <2>4 DEF Agreed, MemoryAgrees, Readable, Contents
  <2>6. QED
    BY <2>1, <2>3, <2>5 DEF StaysCalm, ChangeAgrees, Saving
<1>6. ASSUME NEW k \in Keys, ReadProperty(s, k)
      PROVE  CalmInv'
  <2> DEFINE rest == calls[s].todo \ {k}
             copy == [calls[s].copy EXCEPT ![k] = memory[k]]
  <2>1. calls[s].at \in {"read", "save"} /\ UNCHANGED config
    BY <1>6 DEF ReadProperty
  <2>2. CASE calls[s].at = "read"
    <3>1. calls'[s].at \in {"read", "answered"}
      BY <1>6, <2>2, ReadBecomes DEF Becomes
    <3>2. QED
      BY <1>1, <2>1, <2>2, <3>1, CalmAside DEF Busy, Saving, Reloading
  <2>3. CASE calls[s].at = "save"
    <3>1. SUFFICES ASSUME calm
                   PROVE  StaysCalm(s)'
      BY <1>1, <1>2, <2>3, CalmByOne, CalmFacts DEF CalmInv, Busy, Saving
    <3>2. /\ \A l \in Keys \ calls[s].todo : calls[s].copy[l] = memory[l]
          /\ \A l \in Keys : Reread(memory[l]) \in Retyped[asked[l]]
          /\ MemoryAgrees
      BY <1>1, <2>3, <3>1, CalmFacts DEF Busy, Saving, ChangeAgrees
    <3>3. calls[s].copy \in [Keys -> Values \cup {Nothing}]
      BY <1>1, CallTypes
    <3>4. \A l \in Keys \ rest : copy[l] = memory[l]
      BY <3>2, <3>3
    <3>5. copy \in [Keys -> Values \cup {Nothing}]
      BY <1>2, <3>3 DEF ConfigTypes
    <3>6. rest = {} => copy = memory
      BY <1>2, <3>4, <3>5 DEF ConfigTypes
    <3>7. \/ calls'[s].at = "save" /\ calls'[s].todo = rest /\ calls'[s].copy = copy
          \/ calls'[s].at = "truncate" /\ calls'[s].copy = copy /\ rest = {}
      BY <1>6, <2>3, ReadBecomes DEF Becomes
    <3>8. UNCHANGED <<memory, asked, edits>> /\ MemoryAgrees'
      BY <2>1, <3>2, ConfigAside DEF config
    <3> HIDE DEF rest, copy
    <3>9. QED
      BY <3>2, <3>4, <3>6, <3>7, <3>8 DEF StaysCalm, ChangeAgrees, Saving
  <2>4. QED
    BY <2>1, <2>2, <2>3
<1>7. CASE Truncate(s)
  <2>1. /\ calls[s].at = "truncate" /\ calls'[s].at = "write" /\ calls'[s].copy = calls[s].copy
        /\ file' = Empty /\ UNCHANGED <<memory, asked, edits, calm>>
    BY <1>7, TruncateBecomes DEF Truncate, At, Becomes
  <2>2. SUFFICES ASSUME calm
                 PROVE  StaysCalm(s)'
    BY <1>1, <2>1, CalmByOne, CalmFacts DEF CalmInv, Busy, Saving
  <2>3. /\ \A l \in Keys : Reread(memory[l]) \in Retyped[asked[l]]
        /\ calls[s].copy = memory /\ MemoryAgrees
    BY <1>1, <2>1, <2>2, CalmFacts DEF Busy, Saving, ChangeAgrees
  <2>4. MemoryAgrees'
    BY <2>1, <2>3 DEF MemoryAgrees
  <2>5. QED
    BY <2>1, <2>3, <2>4 DEF StaysCalm, ChangeAgrees, Saving
<1>8. CASE WriteFile(s)
  <2>1. /\ calls[s].at = "write" /\ calls'[s].at = "answered"
        /\ file' = [k \in Keys |-> TextOf[calls[s].copy[k]]] \/ Readable
        /\ changed' = TRUE /\ UNCHANGED <<memory, asked, edits, calm>>
    BY <1>8, SavedBecomes DEF WriteFile, At, Becomes
  <2>2. SUFFICES ASSUME calm
                 PROVE  StaysCalm(s)'
    BY <1>1, <2>1, CalmByOne, CalmFacts DEF CalmInv, Busy, Saving
  <2>3. /\ \A l \in Keys : Reread(memory[l]) \in Retyped[asked[l]]
        /\ calls[s].copy = memory /\ file = Empty /\ MemoryAgrees
    BY <1>1, <2>1, <2>2, CalmFacts DEF Busy, Saving, ChangeAgrees
  <2>4. file' = [k \in Keys |-> TextOf[memory[k]]]
    BY <2>1, <2>3 DEF Readable
  <2>5. Readable' /\ Contents' = [k \in Keys |-> Reread(memory[k])]
    BY <1>2, <2>4, TextsAreRead DEF ConfigTypes, Readable, Contents, Reread
  <2>6. \A l \in Keys : Reread(memory[l]) \in Retyped[memory[l]]
    BY <1>2, RetypedKeeps DEF ConfigTypes
  <2>7. Agreed' /\ MemoryAgrees'
    BY <2>1, <2>3, <2>5, <2>6 DEF Agreed, MemoryAgrees
  <2>8. QED
    BY <1>1, <2>1, <2>7, ChangingMoves DEF StaysCalm, ChangeAgrees, Busy, Saving, Reloading
<1>9. CASE SaveFails(s)
  BY <1>9 DEF SaveFails, CalmInv
<1>10. CASE ReloadStep(s)
  BY <1>1, <1>10, ReloadIsCalm
<1>11. QED
  BY <1>3, <1>4, <1>5, <1>6, <1>7, <1>8, <1>9, <1>10 DEF HandlerStep

LEMMA MonitorIsCalm ==
  ASSUME TypeOK, CallsFit, CalmInv, MonitorStep
  PROVE  CalmInv'
<1>1. Monitor \in Processes
  BY DEF Processes
<1>2. CASE MonitorWakes
  <2>1. /\ UNCHANGED <<memory, file, changed, edits, asked>>
        /\ calm' = (calm /\ Changing = {}) /\ calls'[Monitor].at = "parse" /\ MovesOnly(Monitor)
    BY <1>2, MonitorWakesUp DEF MonitorWakes, ChangeBegins
  <2>2. SUFFICES ASSUME calm'
                 PROVE  StaysCalm(Monitor)' /\ calm /\ Changing = {}
    BY <1>1, <2>1, CalmByOne DEF CalmInv
  <2>3. calm /\ Changing = {}
    BY <2>1, <2>2
  <2>4. Agreed /\ MemoryAgrees
    BY <2>3, QuietFacts
  <2>5. Agreed' /\ MemoryAgrees'
    BY <2>1, <2>4 DEF Agreed, MemoryAgrees, Readable, Contents
  <2>6. QED
    BY <2>1, <2>3, <2>5 DEF StaysCalm, ChangeAgrees, Saving
<1>3. CASE MonitorStamps
  <2>1. /\ calls[Monitor].at = "stamp" /\ calls'[Monitor].at = "free" /\ MovesOnly(Monitor)
        /\ UNCHANGED <<memory, file, edits, asked, calm>>
    BY <1>3, MonitorSleeps DEF MonitorStamps, At
  <2>2. SUFFICES ASSUME calm
                 PROVE  StaysCalm(Monitor)'
    BY <1>1, <2>1, CalmByOne, CalmFacts DEF CalmInv, Busy
  <2>3. memory = Contents /\ Agreed /\ MemoryAgrees
    BY <1>1, <2>1, <2>2, CalmFacts DEF Busy, Saving, ChangeAgrees
  <2>4. Agreed' /\ MemoryAgrees'
    BY <2>1, <2>3 DEF Agreed, MemoryAgrees, Readable, Contents
  <2>5. QED
    BY <1>1, <2>1, <2>4, ChangingMoves DEF StaysCalm, ChangeAgrees, Busy, Saving, Reloading
<1>4. CASE ReloadStep(Monitor)
  BY <1>1, <1>4, ReloadIsCalm
<1>5. QED
  BY <1>2, <1>3, <1>4 DEF MonitorStep

LEMMA EditIsCalm ==
  ASSUME TypeOK, CalmInv, EditStep
  PROVE  CalmInv' /\ ConfigTypes' /\ edits' = edits + 1 /\ calls' = calls
<1>1. PICK k \in Keys, t \in Scalars : Edit(k, t)
  BY DEF EditStep
<1>2. /\ file \in [Keys -> Scalars] /\ asked \in [Keys -> Values] /\ ReadAs[t] \in Values
      /\ memory \in [Keys -> Values] /\ edits \in Nat
  BY <1>1, ConfigAssumption DEF TypeOK, Edit, Readable
<1>3. /\ file' = [file EXCEPT ![k] = t] /\ asked' = [asked EXCEPT ![k] = ReadAs[t]]
      /\ changed' = TRUE /\ edits' = edits + 1 /\ calm' = (calm /\ Changing = {})
      /\ memory' = memory /\ calls' = calls
  BY <1>1 DEF Edit, ChangeBegins
<1>4. file' \in [Keys -> Scalars] /\ asked' \in [Keys -> Values]
  BY <1>2, <1>3
<1>5. ConfigTypes'
  <2>1. changed' \in BOOLEAN /\ calm' \in BOOLEAN
    BY <1>3
  <2>2. QED
    BY <1>2, <1>3, <1>4, <2>1 DEF ConfigTypes
<1>6. CalmInv'
  <2> SUFFICES ASSUME calm'
               PROVE  /\ OneChange' /\ FileAgrees' /\ MemoryAgrees'
                      /\ \A y \in Changing' : ChangeAgrees(y)'
    BY DEF CalmInv
  <2>1. calm /\ Changing = {}
    BY <1>3
  <2>2. Changing' = {}
    BY <1>3, <2>1 DEF Changing
  <2>3. edits' # 0
    BY <1>2, <1>3
  <2>4. Readable'
    BY <1>4, Constants DEF Readable
  <2>5. ASSUME NEW l \in Keys
        PROVE  Contents'[l] \in Retyped[asked'[l]]
    <3>1. Contents'[l] = ReadAs[file'[l]]
      BY DEF Contents
    <3>2. CASE l = k
      BY <1>2, <1>3, <3>1, <3>2, RetypedKeeps
    <3>3. CASE l # k
      <4>1. Contents[l] \in Retyped[asked[l]]
        BY <2>1, QuietFacts DEF Agreed
      <4>2. QED
        BY <1>2, <1>3, <3>1, <3>3, <4>1 DEF Contents
    <3>4. QED
      BY <3>2, <3>3
  <2>6. Agreed' /\ MemoryAgrees'
    BY <1>3, <2>3, <2>4, <2>5 DEF Agreed, MemoryAgrees
  <2>7. QED
    BY <2>2, <2>6 DEF OneChange, FileAgrees
<1>7. QED
  BY <1>3, <1>5, <1>6

-----------------------------------------------------------------------------
(* What the server's steps leave to the page.                               *)

\* Memory has what it had, or what that is reread as.
Forward == \A k \in Keys : memory'[k] \in Retyped[memory[k]]

LEMMA StillFollows ==
  ASSUME memory \in [Keys -> Values], Forward
  PROVE  \A k \in Keys, v \in Values : memory[k] \in Retyped[v] => memory'[k] \in Retyped[v]
BY RetypedKeeps DEF Forward

LEMMA SameIsForward ==
  ASSUME memory \in [Keys -> Values], memory' = memory
  PROVE  Forward
BY RetypedKeeps DEF Forward

LEMMA ReloadIsForward ==
  ASSUME TypeOK, CalmInv, calm, edits = 0, NEW x \in Processes, ReloadStep(x)
  PROVE  Forward
<1>1. ConfigTypes /\ memory \in [Keys -> Values]
  BY DEF TypeOK, ConfigTypes
<1>2. calls[x].at \in Reloading /\ calls[x].at \in Busy /\ calls[x].at \notin Saving
  BY DEF ReloadStep, Parse, Load, Apply, At, Busy, Reloading, Saving
<1>3. ChangeAgrees(x) /\ Agreed /\ MemoryAgrees
  BY <1>2, CalmFacts
<1>4. CASE Parse(x) \/ Load(x)
  <2>1. memory' = memory
    BY <1>4 DEF Parse, Load, config
  <2>2. QED
    BY <1>1, <2>1, SameIsForward
<1>5. ASSUME NEW k \in Keys, Apply(x, k)
      PROVE  Forward
  <2>1. /\ memory' = [memory EXCEPT ![k] = Contents[k]]
        /\ UNCHANGED <<file, changed, edits, asked>>
    BY <1>3, <1>5 DEF Apply, At, ChangeAgrees
  <2>2. QED
    BY <1>1, <1>3, <2>1, TakenOver DEF Forward
<1>6. QED
  BY <1>4, <1>5 DEF ReloadStep

\* A request is on its way before and after, and the page does not notice.
Serves(s) ==
  /\ MovesOnly(s)
  /\ calls'[s].op = calls[s].op /\ calls'[s].key = calls[s].key
  /\ calls'[s].value = calls[s].value
  /\ calls[s].at # "free" /\ calls'[s].at # "free"
  /\ UNCHANGED page

LEMMA OutStays ==
  ASSUME NEW s \in Slots, Serves(s)
  PROVE  /\ Out' = Out
         /\ \A r \in Slots : /\ calls'[r].op = calls[r].op /\ calls'[r].key = calls[r].key
                             /\ calls'[r].at = "free" <=> calls[r].at = "free"
<1>1. \A r \in Slots : /\ calls'[r].op = calls[r].op /\ calls'[r].key = calls[r].key
                       /\ calls'[r].at = "free" <=> calls[r].at = "free"
  BY DEF Serves, MovesOnly, Processes
<1>2. QED
  BY <1>1 DEF Out, At

LEMMA ServedPage ==
  ASSUME PageInv, NEW s \in Slots, Serves(s), edits' = edits, calm' => calm,
         memory \in [Keys -> Values], asked' # asked => calls[s].op = "put_config",
         calm' /\ edits = 0 => Forward \/ calls[s].op = "put_config",
         stored' # stored => calls[s].op \notin Loads,
         ~ crossed /\ edits = 0 => StaysDone(s)',
         ~ crossed /\ calm' /\ edits = 0 => LoadIsCurrent(s)'
  PROVE  PageInv'
<1>1. UNCHANGED <<sections, grid, form, late, note, crossed, clicks>>
  BY DEF Serves, page
<1>2. /\ Out' = Out
      /\ \A r \in Slots : /\ calls'[r].op = calls[r].op /\ calls'[r].key = calls[r].key
                          /\ calls'[r].at = "free" <=> calls[r].at = "free"
  BY OutStays
<1>3. \A r \in Slots : TextInForm(r)' /\ NoteWaits(r)'
  BY <1>1, <1>2 DEF PageInv, TextInForm, NoteWaits, At
<1>4. ~ crossed => \A r \in Slots : Solo(r)'
  BY <1>2 DEF PageInv, Solo, At
<1>5. \A r \in Slots \ {s} : calls'[r] = calls[r]
  BY DEF Serves, MovesOnly, Processes
<1>6. ~ crossed /\ calls[s].op \notin Loads => \A r \in Slots \ {s} : calls[r].at = "free"
  BY DEF PageInv, Solo, Serves, Out, At
<1>7. ASSUME ~ crossed, edits = 0, NEW r \in Slots
      PROVE  StaysDone(r)'
  <2>1. CASE r = s
    BY <1>7, <2>1
  <2>2. CASE r # s /\ asked' = asked /\ stored' = stored
    <3>1. StaysDone(r) /\ calls'[r] = calls[r]
      BY <1>5, <1>7, <2>2 DEF PageInv
    <3>2. QED
      BY <2>2, <3>1 DEF StaysDone
  <2>3. CASE r # s /\ ~ (asked' = asked /\ stored' = stored)
    <3>1. calls'[r].at = "free"
      BY <1>5, <1>6, <1>7, <2>3 DEF Loads
    <3>2. QED
      BY <3>1 DEF StaysDone, Saving
  <2>4. QED
    BY <2>1, <2>2, <2>3
<1>8. ASSUME ~ crossed, calm', edits = 0
      PROVE  (\A r \in Slots : LoadIsCurrent(r)') /\ GridWillShow'
  <2>0. Forward => \A k \in Keys, v \in Values : memory[k] \in Retyped[v] => memory'[k] \in Retyped[v]
    BY StillFollows
  <2>1. ASSUME NEW r \in Slots
        PROVE  LoadIsCurrent(r)'
    <3>1. CASE r = s
      BY <1>8, <3>1
    <3>2. CASE r # s /\ Forward
      <4>1. LoadIsCurrent(r) /\ calls'[r] = calls[r]
        BY <1>5, <1>8, <3>2 DEF PageInv
      <4>2. QED
        BY <2>0, <3>2, <4>1 DEF LoadIsCurrent, Follows
    <3>3. CASE r # s /\ calls[s].op = "put_config"
      <4>1. calls'[r].at = "free"
        BY <1>5, <1>6, <1>8, <3>3 DEF Loads
      <4>2. QED
        BY <4>1 DEF LoadIsCurrent
    <3>4. QED
      BY <1>8, <3>1, <3>2, <3>3
  <2>2. GridWillShow'
    <3>1. GridWillShow
      BY <1>8 DEF PageInv
    <3>2. ASSUME NEW r \in Slots, WillShow(r)
          PROVE  WillShow(r)'
      BY <1>2, <3>2 DEF WillShow, At
    <3>3. CASE Forward
      BY <1>1, <2>0, <3>1, <3>2, <3>3 DEF GridWillShow, Follows
    <3>4. CASE calls[s].op = "put_config"
      <4>1. WillShow(s)'
        BY <3>4 DEF WillShow, At, Serves
      <4>2. QED
        BY <4>1 DEF GridWillShow
    <3>5. QED
      BY <1>8, <3>3, <3>4
  <2>3. QED
    BY <2>1, <2>2
<1>9. QED
  BY <1>1, <1>3, <1>4, <1>7, <1>8 DEF PageInv

\* The handlers of the configuration.
LEMMA HandlerServes ==
  ASSUME TypeOK, CallsFit, NEW s \in Slots, HandlerStep(s), UNCHANGED page
  PROVE  Serves(s)
BY HandlerKeepsFit DEF HandlerMoves, Serves

LEMMA HandlerStaysDone ==
  ASSUME Inv, NEW s \in Slots, HandlerStep(s), UNCHANGED <<stored, page>>, ~ crossed, edits = 0
  PROVE  StaysDone(s)'
<1>1. /\ TypeOK /\ CallsFit /\ StaysDone(s) /\ Fits(s, calls[s]) /\ Serves(s)
      /\ s \in Processes /\ s # Monitor
      /\ asked \in [Keys -> Values]
  BY OldFits, HandlerServes DEF Inv, PageInv, TypeOK
<1>2. calls'[s].op = calls[s].op /\ calls'[s].key = calls[s].key /\ calls'[s].value = calls[s].value
  BY <1>1 DEF Serves
<1>3. CASE calls[s].op # "put_config"
  <2>1. calls[s].op \in {"get_config", "reload"}
    BY <1>1, <1>3 DEF HandlerStep, GetAllConfig, UpdateConfigProperty, ReloadConfig, ReadProperty,
          Truncate, WriteFile, SaveFails, ReloadStep, Parse, Load, Apply, At, Fits, Saving, Reloading
  <2>2. QED
    BY <1>2, <2>1 DEF StaysDone, Adds, Drops
<1>4. CASE calls[s].op = "put_config"
  <2>1. SUFFICES ASSUME \/ calls'[s].at \in Saving
                        \/ calls'[s].at = "answered" /\ calls'[s].reply = "ok"
                 PROVE  asked'[calls[s].key] = Typed[calls[s].key][calls[s].value]
    BY <1>2, <1>4 DEF StaysDone, Adds, Drops
  <2>2. CASE UpdateConfigProperty(s)
    <3>1. CASE /\ calls[s].key \in Keys
               /\ asked' = [asked EXCEPT ![calls[s].key] = Typed[calls[s].key][calls[s].value]]
      BY <1>1, <3>1
    <3>2. CASE Becomes(s, "answered", "refused", {}, calls[s].copy)
      BY <2>1, <3>2 DEF Becomes, Saving
    <3>3. QED
      BY <1>1, <2>2, <3>1, <3>2, UpdateBecomes
  <2>3. CASE ~ UpdateConfigProperty(s)
    <3>1. asked' = asked
      BY <1>1, <2>3, HandlerTypes
    <3>2. calls[s].at \in Saving
      BY <1>1, <1>4, <2>3, Constants DEF HandlerStep, GetAllConfig, ReloadConfig, ReadProperty,
            Truncate, WriteFile, SaveFails, ReloadStep, Parse, Load, Apply, At, Fits, Saving, Reloading
    <3>3. QED
      BY <1>1, <1>4, <3>1, <3>2 DEF StaysDone
  <2>4. QED
    BY <2>2, <2>3
<1>5. QED
  BY <1>3, <1>4

LEMMA HandlerLoadIsCurrent ==
  ASSUME Inv, NEW s \in Slots, HandlerStep(s), UNCHANGED <<stored, page>>,
         ~ crossed, calm', edits = 0
  PROVE  LoadIsCurrent(s)'
<1>1. TypeOK /\ CallsFit /\ CalmInv /\ Fits(s, calls[s]) /\ Serves(s) /\ s # Monitor /\ s \in Processes
  BY OldFits, HandlerServes DEF Inv
<1>2. calm
  BY <1>1, HandlerTypes
<1>3. LoadIsCurrent(s) /\ memory \in [Keys -> Values]
  BY <1>1, <1>2 DEF Inv, PageInv, TypeOK
<1> SUFFICES ASSUME calls[s].op = "get_config"
             PROVE  LoadIsCurrent(s)'
  BY <1>1 DEF LoadIsCurrent, Serves
<1>4. CASE GetAllConfig(s)
  <2>1. calls'[s].at = "read" /\ calls'[s].todo = Keys
    BY <1>1, <1>4, GetAllConfigBecomes DEF Becomes
  <2>2. QED
    BY <2>1 DEF LoadIsCurrent
<1>5. ASSUME NEW k \in Keys, ReadProperty(s, k)
      PROVE  LoadIsCurrent(s)'
  <2> DEFINE rest == calls[s].todo \ {k}
             copy == [calls[s].copy EXCEPT ![k] = memory[k]]
  <2>1. calls[s].at = "read" /\ UNCHANGED config
    BY <1>1, <1>5 DEF ReadProperty, Fits, Saving
  <2>2. memory' = memory /\ memory[k] \in Values /\ memory[k] \in Retyped[memory[k]]
    BY <1>3, <2>1, RetypedKeeps DEF config
  <2>3. calls[s].copy \in [Keys -> Values \cup {Nothing}] /\ calls[s].todo \subseteq Keys
    BY <1>1, CallTypes
  <2>4. \A l \in Keys \ rest : Follows(copy, l)
    BY <1>3, <2>1, <2>2, <2>3 DEF LoadIsCurrent, Follows
  <2>5. \/ calls'[s].at = "read" /\ calls'[s].todo = rest /\ calls'[s].copy = copy
        \/ /\ calls'[s].at = "answered" /\ calls'[s].copy = copy /\ rest = {}
           /\ calls'[s].reply = "ok"
    BY <1>1, <1>5, <2>1, ReadBecomes DEF Becomes
  <2> HIDE DEF rest, copy
  <2>6. QED
    BY <2>2, <2>4, <2>5 DEF LoadIsCurrent, Follows
<1>6. QED
  BY <1>1, <1>4, <1>5 DEF HandlerStep, UpdateConfigProperty, ReloadConfig,
        Truncate, WriteFile, SaveFails, ReloadStep, Parse, Load, Apply, At, Fits, Saving, Reloading

\* Only a call that sets a property gives memory another value than before, or
\* what that is reread as.
LEMMA HandlerIsForward ==
  ASSUME Inv, NEW s \in Slots, HandlerStep(s), calm', edits = 0
  PROVE  Forward \/ calls[s].op = "put_config"
<1>1. TypeOK /\ CallsFit /\ CalmInv /\ s \in Processes /\ memory \in [Keys -> Values]
  BY DEF Inv, TypeOK, Processes
<1>2. calm
  BY <1>1, HandlerTypes
<1>3. CASE ReloadStep(s)
  BY <1>1, <1>2, <1>3, ReloadIsForward
<1>4. CASE UpdateConfigProperty(s)
  BY <1>4 DEF UpdateConfigProperty
<1>5. CASE memory' = memory
  BY <1>1, <1>5, SameIsForward
<1>6. QED
  BY <1>3, <1>4, <1>5 DEF HandlerStep, GetAllConfig, ReloadConfig, ReadProperty, Truncate,
        WriteFile, SaveFails, config

\* Handlers that are one step, and a connection that is lost.
LEMMA AnswerBecomes ==
  ASSUME TypeOK, NEW s \in Slots, NEW reply \in Replies, Move(s, Answer(calls[s], reply))
  PROVE  Becomes(s, "answered", reply, {}, calls[s].copy)
<1>1. s \in Processes /\ "answered" \in Places /\ {} \in SUBSET Keys
  BY DEF Processes, Places
<1>2. Answer(calls[s], reply)
        = [calls[s] EXCEPT !.at = "answered", !.reply = reply, !.todo = {}, !.copy = calls[s].copy]
  BY <1>1, CallTypes DEF CallStates, Answer
<1>3. Move(s, [calls[s] EXCEPT !.at = "answered", !.reply = reply, !.todo = {}, !.copy = calls[s].copy])
  BY <1>2
<1>4. QED
  BY <1>1, <1>3, CallTypes, MoveBecomes

LEMMA LoseBecomes ==
  ASSUME TypeOK, NEW s \in Slots, Lose(s)
  PROVE  Becomes(s, "answered", "lost", {}, Empty)
<1>1. s \in Processes /\ "answered" \in Places /\ "lost" \in Replies /\ {} \in SUBSET Keys
  BY DEF Processes, Places, Replies
<1>2. [Answer(calls[s], "lost") EXCEPT !.copy = Empty]
        = [calls[s] EXCEPT !.at = "answered", !.reply = "lost", !.todo = {}, !.copy = Empty]
  BY <1>1, CallTypes DEF CallStates, Answer
<1>3. Move(s, [calls[s] EXCEPT !.at = "answered", !.reply = "lost", !.todo = {}, !.copy = Empty])
  BY <1>2 DEF Lose
<1>4. QED
  BY <1>1, <1>3, CallTypes, MoveBecomes

\* A step of the server that leaves the configuration alone and answers.
LEMMA AnsweredKeeps ==
  ASSUME Inv, NEW s \in Slots, NEW reply \in Replies \ {"none"}, NEW copy,
         calls[s].at \in {"sent", "answered"}, Becomes(s, "answered", reply, {}, copy),
         reply = "ok" => calls[s].op \in Adds \cup Drops \cup {"list_settings"},
         UNCHANGED <<config, page>>,
         stored' # stored => calls[s].op \notin Loads,
         ~ crossed /\ edits = 0 => StaysDone(s)'
  PROVE  CallsFit' /\ CalmInv' /\ PageInv'
<1>1. Fits(s, calls[s]) /\ s # Monitor /\ s \in Processes
  BY OldFits DEF Inv
<1>2. Fits(s, calls'[s]) /\ MovesOnly(s) /\ Serves(s)
  BY <1>1 DEF Becomes, Fits, Serves, Saving, Reloading, Adds, Drops
<1>3. CallsFit'
  BY <1>1, <1>2, FitsKept DEF Inv
<1>4. CalmInv'
  BY <1>1, <1>2, CalmAside DEF Inv, Busy, Saving, Reloading, Becomes
<1>5. edits' = edits /\ calm' = calm /\ asked' = asked /\ memory' = memory
  BY DEF config
<1>5a. memory \in [Keys -> Values] /\ Forward
  BY <1>5, SameIsForward DEF Inv, TypeOK
<1>6. LoadIsCurrent(s)'
  BY <1>2 DEF LoadIsCurrent, Becomes, Adds, Drops
<1>7. PageInv'
  BY <1>2, <1>5, <1>5a, <1>6, ServedPage DEF Inv
<1>8. QED
  BY <1>3, <1>4, <1>7

LEMMA FormOps ==
  /\ \A op \in Adds \cup Drops : FormOf(op) \in Forms /\ op # "put_config" /\ op \notin Loads
  /\ Adds \cap Drops = {}
BY DEF FormOf, Forms, Adds, Drops, Loads

LEMMA StoreKeeps ==
  ASSUME Inv, NEW s \in Slots, StoreText(s) \/ DropText(s)
  PROVE  CallsFit' /\ CalmInv' /\ PageInv' /\ stored' \in [Forms -> SUBSET Texts] /\ MovesOnly(s)
<1>1. /\ TypeOK /\ stored \in [Forms -> SUBSET Texts] /\ "ok" \in Replies /\ "refused" \in Replies
      /\ UNCHANGED <<config, page>> /\ calls[s].at = "sent" /\ calls[s].op \in Adds \cup Drops
  BY DEF Inv, TypeOK, Replies, StoreText, DropText, At
<1>2. calls[s].key \in Texts /\ FormOf(calls[s].op) \in Forms /\ calls[s].op \notin Loads
  BY <1>1, OldFits, FormOps DEF Inv, Fits
<1>3. CASE Move(s, Answer(calls[s], "ok")) /\ StoreText(s)
           /\ stored' = [stored EXCEPT ![FormOf(calls[s].op)] = @ \cup {calls[s].key}]
  <2>1. Becomes(s, "answered", "ok", {}, calls[s].copy)
    BY <1>1, <1>3, AnswerBecomes
  <2>2. /\ stored' \in [Forms -> SUBSET Texts]
        /\ calls[s].key \in stored'[FormOf(calls[s].op)] /\ calls[s].op \in Adds
    BY <1>1, <1>2, <1>3 DEF StoreText
  <2>3. StaysDone(s)'
    BY <2>1, <2>2, FormOps DEF StaysDone, Becomes
  <2>4. QED
    BY <1>1, <1>2, <2>1, <2>2, <2>3, AnsweredKeeps DEF Becomes
<1>4. CASE Move(s, Answer(calls[s], "ok")) /\ DropText(s)
           /\ stored' = [stored EXCEPT ![FormOf(calls[s].op)] = @ \ {calls[s].key}]
  <2>1. Becomes(s, "answered", "ok", {}, calls[s].copy)
    BY <1>1, <1>4, AnswerBecomes
  <2>2. /\ stored' \in [Forms -> SUBSET Texts]
        /\ calls[s].key \notin stored'[FormOf(calls[s].op)] /\ calls[s].op \in Drops
    BY <1>1, <1>2, <1>4 DEF DropText
  <2>3. StaysDone(s)'
    BY <2>1, <2>2, FormOps DEF StaysDone, Becomes
  <2>4. QED
    BY <1>1, <1>2, <2>1, <2>2, <2>3, AnsweredKeeps DEF Becomes
<1>5. CASE Move(s, Answer(calls[s], "refused")) /\ UNCHANGED stored
  <2>1. Becomes(s, "answered", "refused", {}, calls[s].copy)
    BY <1>1, <1>5, AnswerBecomes
  <2>2. StaysDone(s)'
    BY <2>1 DEF StaysDone, Becomes, Saving
  <2>3. QED
    BY <1>1, <1>2, <1>5, <2>1, <2>2, AnsweredKeeps DEF Becomes
<1>6. QED
  BY <1>3, <1>4, <1>5 DEF StoreText, DropText

LEMMA PlainAnswerKeeps ==
  ASSUME Inv, NEW s \in Slots, ListUserSettings(s) \/ NoHandler(s) \/ Lose(s)
  PROVE  CallsFit' /\ CalmInv' /\ PageInv' /\ MovesOnly(s)
<1>1. /\ TypeOK /\ "ok" \in Replies /\ "refused" \in Replies /\ "lost" \in Replies
      /\ UNCHANGED <<config, stored, page>> /\ calls[s].at \in {"sent", "answered"}
  BY DEF Inv, TypeOK, Replies, ListUserSettings, NoHandler, Lose, At
<1>2. CASE ListUserSettings(s)
  <2>1. Becomes(s, "answered", "ok", {}, calls[s].copy) /\ calls[s].op = "list_settings"
    BY <1>1, <1>2, AnswerBecomes DEF ListUserSettings
  <2>2. StaysDone(s)'
    BY <2>1 DEF StaysDone, Becomes, Adds, Drops
  <2>3. QED
    BY <1>1, <2>1, <2>2, AnsweredKeeps DEF Becomes
<1>3. CASE NoHandler(s)
  <2>1. Becomes(s, "answered", "refused", {}, calls[s].copy)
    BY <1>1, <1>3, AnswerBecomes DEF NoHandler
  <2>2. StaysDone(s)'
    BY <2>1 DEF StaysDone, Becomes, Saving
  <2>3. QED
    BY <1>1, <2>1, <2>2, AnsweredKeeps DEF Becomes
<1>4. CASE Lose(s)
  <2>1. Becomes(s, "answered", "lost", {}, Empty)
    BY <1>1, <1>4, LoseBecomes
  <2>2. StaysDone(s)'
    BY <2>1 DEF StaysDone, Becomes, Saving
  <2>3. QED
    BY <1>1, <2>1, <2>2, AnsweredKeeps DEF Becomes
<1>5. QED
  BY <1>2, <1>3, <1>4

-----------------------------------------------------------------------------
(* The page.                                                                *)

LEMMA RequestIsACall ==
  ASSUME NEW op \in Ops, NEW key \in Keys \cup Texts \cup {Nothing},
         NEW value \in Scalars \cup {Nothing}
  PROVE  /\ Request(op, key, value) \in CallStates
         /\ Request(op, key, value).at = "sent" /\ Request(op, key, value).op = op
         /\ Request(op, key, value).key = key /\ Request(op, key, value).value = value
<1>1. Idle \in CallStates /\ "sent" \in Places
  BY IdleIsACall DEF Places
<1>2. QED
  BY <1>1 DEF Request, CallStates

\* What the page keeps of its own.
PageTypes ==
  /\ grid \in [Keys -> Values] \cup {Empty}
  /\ form \in [Forms -> Texts \cup {Nothing}]
  /\ note \in [Slots -> {"none", "success", "error"}]
  /\ late \subseteq Forms /\ crossed \in BOOLEAN

\* A step of the page that leaves the configuration alone.
LEMMA PageKeepsCalm ==
  ASSUME Inv, NEW s \in Slots, MovesOnly(s), UNCHANGED config,
         calls[s].at \in {"free", "answered"}, Fits(s, calls'[s]), calls'[s].at \in {"free", "sent"}
  PROVE  CallsFit' /\ CalmInv'
<1>1. s \in Processes
  BY DEF Processes
<1>2. CallsFit'
  BY <1>1, FitsKept DEF Inv
<1>3. CalmInv'
  BY <1>1, CalmAside DEF Inv, Busy, Saving, Reloading
<1>4. QED
  BY <1>2, <1>3

LEMMA ClickKeeps ==
  ASSUME Inv, NEW s \in Slots, NEW section, NEW op \in Adds \cup Drops \cup {"put_config", "reload"},
         NEW key \in Keys \cup Texts \cup {Nothing}, NEW value \in Scalars \cup {Nothing},
         Click(s, section, op, key, value),
         op = "put_config" => key \in Keys /\ value \in Scalars,
         op \in Adds \cup Drops => key \in Texts,
         op \in Adds \cup {"deregister"} => form[FormOf(op)] = key,
         section = "config" => op \in {"put_config", "reload"}
  PROVE  CallsFit' /\ CalmInv' /\ PageInv' /\ PageTypes' /\ MovesOnly(s)
<1> DEFINE request == Request(op, key, value)
<1>1. /\ request \in CallStates /\ request.at = "sent" /\ request.op = op /\ request.key = key
      /\ request.value = value
  BY RequestIsACall DEF Ops
<1>2. MovesOnly(s) /\ calls'[s] = request
  <2>1. TypeOK /\ s \in Processes /\ Move(s, request)
    BY DEF Inv, Processes, Click
  <2>2. QED
    BY <1>1, <2>1, Moves
<1> HIDE DEF request
<1>3. /\ UNCHANGED <<sections, config, stored, grid, form, late>>
      /\ note' = [note EXCEPT ![s] = "none"] /\ crossed' = (crossed \/ Out # {})
      /\ section \in sections /\ calls[s].at = "free"
  BY DEF Click, FreeSlot, Out, At
<1>4. PageTypes' /\ note \in [Slots -> {"none", "success", "error"}]
  <2>1. crossed' \in BOOLEAN
    BY <1>3
  <2>2. note' \in [Slots -> {"none", "success", "error"}] /\ note \in [Slots -> {"none", "success", "error"}]
    BY <1>3 DEF Inv, TypeOK
  <2>3. QED
    BY <1>3, <2>1, <2>2 DEF Inv, TypeOK, PageTypes
<1>5. Fits(s, calls'[s])
  <2>1. s # Monitor
    BY Constants
  <2>2. QED
    BY <1>1, <1>2, <2>1 DEF Fits, Saving, Reloading
<1>6. CallsFit' /\ CalmInv'
  BY <1>1, <1>2, <1>3, <1>5, PageKeepsCalm
<1>7. \A r \in Slots \ {s} : calls'[r] = calls[r] /\ note'[r] = note[r]
  BY <1>2, <1>3, <1>4 DEF MovesOnly, Processes
<1>8. note'[s] = "none"
  BY <1>3, <1>4
<1>9. \A r \in Slots : TextInForm(r)' /\ NoteWaits(r)'
  <2>1. TextInForm(s)' /\ NoteWaits(s)'
    BY <1>1, <1>2, <1>3, <1>8 DEF TextInForm, NoteWaits
  <2>2. ASSUME NEW r \in Slots \ {s}
        PROVE  TextInForm(r)' /\ NoteWaits(r)'
    <3>1. TextInForm(r) /\ NoteWaits(r)
      BY DEF Inv, PageInv
    <3>2. QED
      BY <1>3, <1>7, <3>1 DEF TextInForm, NoteWaits, At
  <2>3. QED
    BY <2>1, <2>2
<1>10. ASSUME ~ crossed'
       PROVE  \A r \in Slots : Solo(r)' /\ StaysDone(r)' /\ LoadIsCurrent(r)'
  <2>1. \A r \in Slots \ {s} : calls'[r].at = "free"
    BY <1>3, <1>7, <1>10 DEF Out, At
  <2>2. Out' = {s}
    BY <1>1, <1>2, <2>1 DEF Out, At
  <2>3. \A r \in Slots : Solo(r)'
    BY <2>1, <2>2 DEF Solo, At
  <2>4. StaysDone(s)' /\ LoadIsCurrent(s)'
    BY <1>1, <1>2 DEF StaysDone, LoadIsCurrent, Saving, Adds, Drops
  <2>5. \A r \in Slots \ {s} : StaysDone(r)' /\ LoadIsCurrent(r)'
    BY <2>1 DEF StaysDone, LoadIsCurrent, Saving
  <2>6. QED
    BY <2>3, <2>4, <2>5
<1>11. GridWillShow'
  <2>1. SUFFICES ASSUME sections' = {"config"}
                 PROVE  WillShow(s)'
    BY DEF GridWillShow
  <2>2. op \in {"put_config", "reload"}
    BY <1>3, <2>1
  <2>3. QED
    BY <1>1, <1>2, <2>2 DEF WillShow, At
<1>12. PageInv'
  BY <1>9, <1>10, <1>11 DEF PageInv
<1>13. QED
  BY <1>2, <1>4, <1>6, <1>12

LEMMA UserKeeps ==
  ASSUME Inv, NEW s \in Slots, UserStep(s)
  PROVE  /\ CallsFit' /\ CalmInv' /\ PageInv' /\ PageTypes' /\ MovesOnly(s)
         /\ UNCHANGED <<sections, config, stored>> /\ clicks' = clicks + 1 /\ clicks + edits < MaxClicks
<1>1. /\ form \in [Forms -> Texts \cup {Nothing}] /\ "settings" \in Forms /\ "media" \in Forms
      /\ Nothing \in Keys \cup Texts \cup {Nothing} /\ Nothing \in Scalars \cup {Nothing}
  BY DEF Inv, TypeOK, Forms
<1>2. ASSUME NEW k \in Keys, NEW t \in Scalars, UpdateConfig(s, k, t)
      PROVE  CallsFit' /\ CalmInv' /\ PageInv' /\ PageTypes' /\ MovesOnly(s)
  BY <1>2, ClickKeeps DEF UpdateConfig, Adds, Drops
<1>3. ASSUME ReloadConfiguration(s)
      PROVE  CallsFit' /\ CalmInv' /\ PageInv' /\ PageTypes' /\ MovesOnly(s)
  <2>1. Click(s, "config", "reload", Nothing, Nothing)
    BY <1>3 DEF ReloadConfiguration
  <2>2. "reload" \notin Adds \cup Drops \cup {"deregister"}
    BY DEF Adds, Drops
  <2>3. QED
    BY <1>1, <2>1, <2>2, ClickKeeps
<1>4. ASSUME AddUserSetting(s)
      PROVE  CallsFit' /\ CalmInv' /\ PageInv' /\ PageTypes' /\ MovesOnly(s)
  <2>1. PICK t \in Texts : form["settings"] = t
    BY <1>1, <1>4 DEF AddUserSetting
  <2>2. Click(s, "settings", "put_setting", t, Nothing)
    BY <1>4, <2>1 DEF AddUserSetting
  <2>3. "put_setting" \in Adds /\ FormOf("put_setting") = "settings"
    BY DEF Adds, FormOf
  <2>4. QED
    BY <1>1, <2>1, <2>2, <2>3, ClickKeeps
<1>5. ASSUME RegisterMediaLocation(s)
      PROVE  CallsFit' /\ CalmInv' /\ PageInv' /\ PageTypes' /\ MovesOnly(s)
  <2>1. PICK t \in Texts : form["media"] = t
    BY <1>1, <1>5 DEF RegisterMediaLocation
  <2>2. Click(s, "media", "register", t, Nothing)
    BY <1>5, <2>1 DEF RegisterMediaLocation
  <2>3. "register" \in Adds /\ FormOf("register") = "media"
    BY DEF Adds, FormOf
  <2>4. QED
    BY <1>1, <2>1, <2>2, <2>3, ClickKeeps
<1>6. ASSUME DeregisterMediaLocation(s)
      PROVE  CallsFit' /\ CalmInv' /\ PageInv' /\ PageTypes' /\ MovesOnly(s)
  <2>1. PICK t \in Texts : form["media"] = t
    BY <1>1, <1>6 DEF DeregisterMediaLocation
  <2>2. Click(s, "media", "deregister", t, Nothing)
    BY <1>6, <2>1 DEF DeregisterMediaLocation
  <2>3. "deregister" \in Drops /\ FormOf("deregister") = "media"
    BY DEF Drops, FormOf
  <2>4. QED
    BY <1>1, <2>1, <2>2, <2>3, ClickKeeps
<1>7. ASSUME NEW t \in Texts, DeleteUserSetting(s, t)
      PROVE  CallsFit' /\ CalmInv' /\ PageInv' /\ PageTypes' /\ MovesOnly(s)
  <2>1. "delete_setting" \in Drops /\ "delete_setting" \notin Adds
    BY DEF Adds, Drops
  <2>2. QED
    BY <1>7, <2>1, ClickKeeps DEF DeleteUserSetting
<1>8. /\ UNCHANGED <<sections, config, stored>> /\ clicks' = clicks + 1
      /\ clicks + edits < MaxClicks
  BY DEF UserStep, UpdateConfig, ReloadConfiguration, AddUserSetting, RegisterMediaLocation,
         DeregisterMediaLocation, DeleteUserSetting, Click
<1>9. QED
  BY <1>2, <1>3, <1>4, <1>5, <1>6, <1>7, <1>8 DEF UserStep

LEMMA TypeIntoKeeps ==
  ASSUME Inv, NEW f \in Forms, NEW t \in Texts, TypeInto(f, t)
  PROVE  CallsFit' /\ CalmInv' /\ PageInv' /\ PageTypes'
<1>1. /\ UNCHANGED <<sections, config, calls, stored, grid, note, crossed, clicks>>
      /\ form' = [form EXCEPT ![f] = t] /\ late \subseteq late' /\ late' \subseteq late \cup {f}
      /\ form \in [Forms -> Texts \cup {Nothing}]
  BY DEF TypeInto, Inv, TypeOK
<1>2. UNCHANGED <<memory, file, changed, edits, asked, calm>>
  BY <1>1 DEF config
<1>3. CallsFit'
  BY <1>1 DEF Inv, CallsFit
<1>4. CalmInv'
  <2>1. Changing' = Changing
    BY <1>1 DEF Changing
  <2>2. CalmInv
    BY DEF Inv
  <2>3. QED
    BY <1>1, <1>2, <2>1, <2>2, ConfigAside DEF CalmInv, OneChange, FileAgrees
<1>5. PageTypes'
  BY <1>1 DEF Inv, TypeOK, PageTypes
<1>6. ASSUME NEW s \in Slots
      PROVE  TextInForm(s)'
  <2>1. TextInForm(s)
    BY DEF Inv, PageInv
  <2>2. CASE FormOf(calls[s].op) # f
    <3>1. form'[FormOf(calls[s].op)] = form[FormOf(calls[s].op)]
      BY <1>1, <2>2 DEF FormOf, Forms
    <3>2. QED
      BY <1>1, <2>1, <3>1 DEF TextInForm
  <2>3. CASE FormOf(calls[s].op) = f
    <3>1. SUFFICES ASSUME calls[s].op \in Adds \cup {"deregister"}, calls[s].at # "free"
                   PROVE  f \in late'
      BY <1>1, <2>3 DEF TextInForm
    <3>2. s \in Out /\ calls[s].op \in Adds \cup Drops
      BY <3>1 DEF Out, At, Drops
    <3>3. QED
      BY <2>3, <3>2 DEF TypeInto
  <2>4. QED
    BY <2>2, <2>3
<1>7. Out' = Out
  BY <1>1 DEF Out, At
<1>8. ASSUME NEW s \in Slots
      PROVE  /\ NoteWaits(s)' <=> NoteWaits(s)
             /\ Solo(s)' <=> Solo(s)
             /\ StaysDone(s)' <=> StaysDone(s)
             /\ LoadIsCurrent(s)' <=> LoadIsCurrent(s)
             /\ WillShow(s)' <=> WillShow(s)
  BY <1>1, <1>2, <1>7 DEF NoteWaits, Solo, StaysDone, LoadIsCurrent, WillShow, At, Follows
<1>9. GridWillShow' <=> GridWillShow
  BY <1>1, <1>2, <1>8 DEF GridWillShow, Follows
<1>10. PageInv'
  BY <1>1, <1>2, <1>6, <1>8, <1>9 DEF Inv, PageInv
<1>11. QED
  BY <1>3, <1>4, <1>5, <1>10

\* What follows an await: the slot is freed, or carries the load that follows.
LEMMA LoadReturnsKeeps ==
  ASSUME Inv, NEW s \in Slots, LoadReturns(s)
  PROVE  CallsFit' /\ CalmInv' /\ PageInv' /\ PageTypes' /\ MovesOnly(s)
<1>1. /\ UNCHANGED <<sections, config, stored, form, late, crossed, clicks>>
      /\ calls[s].at = "answered" /\ calls[s].op \in Loads
      /\ grid' = IF Succeeded(calls[s]) /\ calls[s].op = "get_config" THEN calls[s].copy ELSE grid
      /\ IF Succeeded(calls[s]) THEN note' = note ELSE note' = [note EXCEPT ![s] = "error"]
      /\ note \in [Slots -> {"none", "success", "error"}]
  BY DEF LoadReturns, At, ShowError, Notify, Inv, TypeOK
<1>2. UNCHANGED <<memory, file, changed, edits, asked, calm>>
  BY <1>1 DEF config
<1>3. MovesOnly(s) /\ calls'[s].at = "free" /\ calls'[s].op = "none"
  <2>1. s \in Processes /\ Move(s, Idle) /\ TypeOK
    BY DEF Processes, LoadReturns, Inv
  <2>2. QED
    BY <2>1, IdleIsACall, Moves
<1>4. Fits(s, calls[s]) /\ s # Monitor
  BY OldFits DEF Inv
<1>5. PageTypes'
  <2>1. grid' \in [Keys -> Values] \cup {Empty}
    BY <1>1, <1>4 DEF Fits, Succeeded, Inv, TypeOK
  <2>2. note' \in [Slots -> {"none", "success", "error"}]
    BY <1>1
  <2>3. QED
    BY <1>1, <2>1, <2>2 DEF PageTypes, Inv, TypeOK
<1>6. CallsFit' /\ CalmInv'
  <2>1. Fits(s, calls'[s])
    BY <1>3, <1>4 DEF Fits, Saving, Reloading, Adds, Drops
  <2>2. QED
    BY <1>1, <1>3, <2>1, PageKeepsCalm
<1>7. \A r \in Slots \ {s} : calls'[r] = calls[r] /\ note'[r] = note[r]
  BY <1>1, <1>3 DEF MovesOnly, Processes
<1>8. ASSUME NEW r \in Slots
      PROVE  TextInForm(r)' /\ NoteWaits(r)' /\ (~ crossed => Solo(r)')
  <2>1. TextInForm(r) /\ NoteWaits(r) /\ (~ crossed => Solo(r))
    BY DEF Inv, PageInv
  <2>2. CASE r = s
    BY <1>3, <2>2 DEF TextInForm, NoteWaits, Solo, At
  <2>3. CASE r # s
    <3>1. TextInForm(r)' /\ NoteWaits(r)'
      BY <1>1, <1>7, <2>1, <2>3 DEF TextInForm, NoteWaits, At
    <3>2. s \in Out
      BY <1>1 DEF Out, At
    <3>3. ~ crossed => Solo(r)'
      BY <1>7, <2>1, <2>3, <3>2 DEF Solo, At
    <3>4. QED
      BY <3>1, <3>3
  <2>4. QED
    BY <2>2, <2>3
<1>9. ASSUME NEW r \in Slots
      PROVE  /\ ~ crossed /\ edits = 0 => StaysDone(r)'
             /\ ~ crossed /\ calm /\ edits = 0 => LoadIsCurrent(r)'
  <2>1. CASE r = s
    BY <1>3, <2>1 DEF StaysDone, LoadIsCurrent, Adds, Drops
  <2>2. CASE r # s
    <3>1. /\ ~ crossed /\ edits = 0 => StaysDone(r)
          /\ ~ crossed /\ calm /\ edits = 0 => LoadIsCurrent(r)
      BY DEF Inv, PageInv
    <3>2. QED
      BY <1>1, <1>2, <1>7, <2>2, <3>1 DEF StaysDone, LoadIsCurrent, Follows
  <2>3. QED
    BY <2>1, <2>2
<1>10. ASSUME ~ crossed, calm, edits = 0
       PROVE  GridWillShow'
  <2> SUFFICES ASSUME sections = {"config"}
               PROVE  (\A k \in Keys : Follows(grid, k)') \/ \E r \in Slots : note'[r] = "error" \/ WillShow(r)'
    BY <1>1, <1>2 DEF GridWillShow
  <2>1. GridWillShow /\ LoadIsCurrent(s)
    BY <1>10 DEF Inv, PageInv
  <2>2. CASE ~ Succeeded(calls[s])
    <3>1. note'[s] = "error"
      BY <1>1, <2>2
    <3>2. QED
      BY <3>1
  <2>3. CASE Succeeded(calls[s]) /\ calls[s].op = "get_config"
    BY <1>1, <1>2, <2>1, <2>3 DEF LoadIsCurrent, Succeeded, Follows
  <2>4. CASE Succeeded(calls[s]) /\ calls[s].op # "get_config"
    <3>1. grid' = grid /\ note' = note
      BY <1>1, <2>4
    <3>2. ~ WillShow(s)
      BY <1>1, <2>4 DEF WillShow, Loads
    <3>3. \A r \in Slots : WillShow(r) => WillShow(r)'
      BY <1>7, <3>2 DEF WillShow, At
    <3>4. QED
      BY <1>2, <2>1, <3>1, <3>3 DEF GridWillShow, Follows
  <2>5. QED
    BY <2>2, <2>3, <2>4
<1>11. PageInv'
  BY <1>1, <1>2, <1>8, <1>9, <1>10 DEF PageInv
<1>12. QED
  BY <1>3, <1>5, <1>6, <1>11

LEMMA LoadAfterOps ==
  ASSUME NEW op
  PROVE  /\ LoadAfter(op) \in {"get_config", "list_settings", "none"}
         /\ op \in {"put_config", "reload"} => LoadAfter(op) = "get_config"
BY DEF LoadAfter

LEMMA ActionReturnsMoves ==
  ASSUME Inv, NEW s \in Slots, ActionReturns(s)
  PROVE  /\ MovesOnly(s) /\ calls'[s].at \in {"free", "sent"}
         /\ calls'[s].op \in {"get_config", "list_settings", "none"}
         /\ calls'[s].at = "free" \/ calls'[s].op # "none"
         /\ Succeeded(calls[s]) /\ calls[s].op \in {"put_config", "reload"} =>
              calls'[s].at = "sent" /\ calls'[s].op = "get_config"
<1>1. TypeOK /\ s \in Processes
  BY DEF Inv, Processes
<1>2. LoadAfter(calls[s].op) \in {"get_config", "list_settings", "none"}
  BY LoadAfterOps
<1>3. PICK load \in {"get_config", "list_settings", "none"} : load = LoadAfter(calls[s].op)
  BY <1>2
<1>4. CASE Succeeded(calls[s]) /\ load # "none"
  <2>1. Move(s, Request(load, Nothing, Nothing))
    BY <1>3, <1>4 DEF ActionReturns
  <2>2. load \in Ops
    BY <1>4 DEF Ops, Loads
  <2>3. /\ Request(load, Nothing, Nothing) \in CallStates
        /\ Request(load, Nothing, Nothing).at = "sent" /\ Request(load, Nothing, Nothing).op = load
    BY <2>2, RequestIsACall
  <2>4. MovesOnly(s) /\ calls'[s] = Request(load, Nothing, Nothing)
    BY <1>1, <2>1, <2>3, Moves
  <2>5. calls[s].op \in {"put_config", "reload"} => load = "get_config"
    BY <1>3, LoadAfterOps
  <2>6. QED
    BY <1>4, <2>3, <2>4, <2>5
<1>5. CASE ~ (Succeeded(calls[s]) /\ load # "none")
  <2>1. Move(s, Idle)
    BY <1>3, <1>5 DEF ActionReturns
  <2>2. MovesOnly(s) /\ calls'[s] = Idle
    BY <1>1, <2>1, IdleIsACall, Moves
  <2>3. ~ (Succeeded(calls[s]) /\ calls[s].op \in {"put_config", "reload"})
    BY <1>3, <1>5, LoadAfterOps
  <2>4. QED
    BY <2>2, <2>3, IdleIsACall
<1>6. QED
  BY <1>4, <1>5

LEMMA ActionReturnsKeeps ==
  ASSUME Inv, NEW s \in Slots, ActionReturns(s)
  PROVE  CallsFit' /\ CalmInv' /\ PageInv' /\ PageTypes' /\ MovesOnly(s)
<1> DEFINE f == FormOf(calls[s].op)
<1>1. /\ UNCHANGED <<sections, config, stored, grid, crossed, clicks>>
      /\ calls[s].at = "answered" /\ calls[s].op \notin Loads
      /\ note' = [note EXCEPT ![s] = IF Succeeded(calls[s]) THEN "success" ELSE "error"]
      /\ \/ form' = [form EXCEPT ![f] = Nothing] /\ late' = late \ {f}
         \/ form' = form /\ late' = late
      /\ note \in [Slots -> {"none", "success", "error"}] /\ form \in [Forms -> Texts \cup {Nothing}]
      /\ f \in Forms
  BY DEF ActionReturns, At, ShowError, Notify, Inv, TypeOK, FormOf, Forms
<1>2. UNCHANGED <<memory, file, changed, edits, asked, calm>>
  BY <1>1 DEF config
<1>3. /\ MovesOnly(s) /\ calls'[s].at \in {"free", "sent"}
      /\ calls'[s].op \in {"get_config", "list_settings", "none"}
      /\ calls'[s].at = "free" \/ calls'[s].op # "none"
      /\ Succeeded(calls[s]) /\ calls[s].op \in {"put_config", "reload"} =>
           calls'[s].at = "sent" /\ calls'[s].op = "get_config"
  BY ActionReturnsMoves
<1>4. s # Monitor /\ note[s] = "none"
  BY <1>1, Constants DEF Inv, PageInv, NoteWaits, At
<1>5. PageTypes'
  <2>1. note' \in [Slots -> {"none", "success", "error"}]
    BY <1>1
  <2>2. form' \in [Forms -> Texts \cup {Nothing}] /\ late' \subseteq Forms
    BY <1>1 DEF Inv, TypeOK
  <2>3. QED
    BY <1>1, <2>1, <2>2 DEF PageTypes, Inv, TypeOK
<1>6. CallsFit' /\ CalmInv'
  <2>1. Fits(s, calls'[s])
    BY <1>3, <1>4 DEF Fits, Saving, Reloading, Adds, Drops
  <2>2. QED
    BY <1>1, <1>3, <2>1, PageKeepsCalm
<1>7. \A r \in Slots \ {s} : calls'[r] = calls[r] /\ note'[r] = note[r]
  BY <1>1, <1>3 DEF MovesOnly, Processes
<1>8. ASSUME NEW r \in Slots
      PROVE  TextInForm(r)' /\ NoteWaits(r)'
  <2>1. TextInForm(r) /\ NoteWaits(r)
    BY DEF Inv, PageInv
  <2>2. CASE r = s
    BY <1>3, <2>2 DEF TextInForm, NoteWaits, At, Adds, Loads
  <2>3. CASE r # s
    <3>1. NoteWaits(r)'
      BY <1>7, <2>1, <2>3 DEF NoteWaits, At
    <3>2. FormOf(calls[r].op) \in Forms
      BY DEF FormOf, Forms
    <3> HIDE DEF f
    <3>3. TextInForm(r)'
      BY <1>1, <1>7, <2>1, <2>3, <3>2 DEF TextInForm
    <3>4. QED
      BY <3>1, <3>3
  <2>4. QED
    BY <2>2, <2>3
<1>9. ~ crossed => \A r \in Slots \ {s} : calls'[r].at = "free"
  <2>1. ~ crossed => Out = {s}
    BY <1>1 DEF Inv, PageInv, Solo, At
  <2>2. QED
    BY <1>7, <2>1 DEF Out, At
<1>10. ASSUME ~ crossed, NEW r \in Slots
       PROVE  Solo(r)' /\ StaysDone(r)' /\ LoadIsCurrent(r)'
  <2>1. CASE r = s
    BY <1>3, <2>1 DEF Solo, StaysDone, LoadIsCurrent, At, Adds, Drops, Loads
  <2>2. CASE r # s
    BY <1>9, <1>10, <2>2 DEF Solo, StaysDone, LoadIsCurrent, At, Saving
  <2>3. QED
    BY <2>1, <2>2
<1>11. ASSUME ~ crossed, calm, edits = 0
       PROVE  GridWillShow'
  <2> SUFFICES ASSUME sections = {"config"}
               PROVE  (\A k \in Keys : Follows(grid, k)') \/ \E r \in Slots : note'[r] = "error" \/ WillShow(r)'
    BY <1>1, <1>2 DEF GridWillShow
  <2>1. CASE ~ Succeeded(calls[s])
    <3>1. note'[s] = "error"
      BY <1>1, <2>1
    <3>2. QED
      BY <3>1
  <2>2. CASE Succeeded(calls[s]) /\ calls[s].op \in {"put_config", "reload"}
    <3>1. WillShow(s)'
      BY <1>3, <2>2 DEF WillShow, At
    <3>2. QED
      BY <3>1
  <2>3. CASE Succeeded(calls[s]) /\ calls[s].op \notin {"put_config", "reload"}
    <3>1. GridWillShow
      BY <1>11 DEF Inv, PageInv
    <3>2. \A r \in Slots : WillShow(r) => r # s
      BY <1>1, <2>3 DEF WillShow, Loads
    <3>3. \A r \in Slots : WillShow(r) => WillShow(r)'
      BY <1>7, <3>2 DEF WillShow, At
    <3>4. \A r \in Slots : note[r] = "error" => note'[r] = "error"
      BY <1>4, <1>7
    <3>5. QED
      BY <1>1, <1>2, <3>1, <3>3, <3>4 DEF GridWillShow, Follows
  <2>4. QED
    BY <2>1, <2>2, <2>3
<1>12. PageInv'
  BY <1>1, <1>2, <1>8, <1>10, <1>11 DEF PageInv
<1>13. QED
  BY <1>3, <1>5, <1>6, <1>12

-----------------------------------------------------------------------------
(* The invariant.                                                           *)

LEMMA TypesAgain ==
  ASSUME TypeOK, NEW x \in Processes, MovesOnly(x), ConfigTypes', PageTypes',
         stored' \in [Forms -> SUBSET Texts], sections' = sections,
         edits' \in 0 .. MaxEdits, clicks' \in Nat, clicks' + edits' <= MaxClicks
  PROVE  TypeOK'
BY DEF TypeOK, MovesOnly, ConfigTypes, PageTypes, Processes

LEMMA OldTypes ==
  ASSUME TypeOK
  PROVE  /\ ConfigTypes /\ PageTypes /\ stored \in [Forms -> SUBSET Texts] /\ edits \in 0 .. MaxEdits
         /\ clicks \in Nat /\ clicks + edits <= MaxClicks /\ edits \in Nat
BY DEF TypeOK, ConfigTypes, PageTypes

LEMMA ServerKeepsInv ==
  ASSUME Inv, NEW s \in Slots, ServerStep(s) \/ Lose(s)
  PROVE  Inv'
<1>1. TypeOK /\ CallsFit /\ CalmInv /\ PageInv /\ s \in Processes
  BY DEF Inv, Processes
<1>2. CASE HandlerStep(s) /\ UNCHANGED <<stored, page>>
  <2>1. Serves(s) /\ HandlerMoves(s)
    BY <1>1, <1>2, HandlerServes, HandlerKeepsFit
  <2>2. /\ ConfigTypes' /\ edits' = edits /\ (calm' => calm)
        /\ asked' # asked => calls[s].op = "put_config"
    BY <1>1, <1>2, HandlerTypes DEF UpdateConfigProperty
  <2>3. CallsFit'
    BY <1>1, <2>1, FitsKept DEF HandlerMoves
  <2>4. CalmInv'
    BY <1>1, <1>2, HandlerIsCalm
  <2>5. PageInv'
    BY <1>1, <1>2, <2>1, <2>2, HandlerStaysDone, HandlerLoadIsCurrent, HandlerIsForward,
       OldTypes, ServedPage DEF ConfigTypes
  <2>6. UNCHANGED <<sections, grid, form, late, note, crossed, clicks>>
    BY <1>2 DEF page
  <2>7. PageTypes'
    BY <1>1, <2>6, OldTypes DEF PageTypes
  <2>8. TypeOK'
    BY <1>1, <1>2, <2>1, <2>2, <2>6, <2>7, OldTypes, TypesAgain DEF Serves
  <2>9. QED
    BY <2>3, <2>4, <2>5, <2>8 DEF Inv
<1>3. CASE StoreText(s) \/ DropText(s) \/ ListUserSettings(s) \/ NoHandler(s) \/ Lose(s)
  <2>1. /\ CallsFit' /\ CalmInv' /\ PageInv' /\ stored' \in [Forms -> SUBSET Texts] /\ MovesOnly(s)
        /\ UNCHANGED <<config, page>>
    <3>1. CASE StoreText(s) \/ DropText(s)
      BY <3>1, StoreKeeps DEF StoreText, DropText
    <3>2. CASE ListUserSettings(s) \/ NoHandler(s) \/ Lose(s)
      BY <1>1, <3>2, PlainAnswerKeeps, OldTypes DEF ListUserSettings, NoHandler, Lose
    <3>3. QED
      BY <1>3, <3>1, <3>2
  <2>2. /\ UNCHANGED <<sections, grid, form, late, note, crossed, clicks>>
        /\ UNCHANGED <<memory, file, changed, edits, asked, calm>>
    BY <2>1 DEF page, config
  <2>3. PageTypes' /\ ConfigTypes'
    BY <1>1, <2>2, OldTypes DEF PageTypes, ConfigTypes
  <2>4. TypeOK'
    BY <1>1, <2>1, <2>2, <2>3, OldTypes, TypesAgain
  <2>5. QED
    BY <2>1, <2>4 DEF Inv
<1>4. QED
  BY <1>2, <1>3 DEF ServerStep

LEMMA PageKeepsInv ==
  ASSUME Inv, NEW s \in Slots, PageStep(s) \/ UserStep(s)
  PROVE  Inv'
<1>1. TypeOK /\ s \in Processes /\ MaxClicks \in Nat
  BY PageAssumption DEF Inv, Processes
<1>2. /\ CallsFit' /\ CalmInv' /\ PageInv' /\ PageTypes' /\ MovesOnly(s)
      /\ UNCHANGED <<sections, config, stored>>
      /\ clicks' = clicks \/ (clicks' = clicks + 1 /\ clicks + edits < MaxClicks)
  <2>1. CASE LoadReturns(s)
    BY <2>1, LoadReturnsKeeps DEF LoadReturns
  <2>2. CASE ActionReturns(s)
    BY <2>2, ActionReturnsKeeps DEF ActionReturns
  <2>3. CASE UserStep(s)
    BY <2>3, UserKeeps
  <2>4. QED
    BY <2>1, <2>2, <2>3 DEF PageStep
<1>3. UNCHANGED <<memory, file, changed, edits, asked, calm>>
  BY <1>2 DEF config
<1>4. ConfigTypes' /\ clicks' \in Nat /\ clicks' + edits' <= MaxClicks /\ edits' \in 0 .. MaxEdits
  BY <1>1, <1>2, <1>3, OldTypes DEF ConfigTypes
<1>5. TypeOK'
  BY <1>1, <1>2, <1>4, OldTypes, TypesAgain
<1>6. QED
  BY <1>2, <1>5 DEF Inv

LEMMA TypingKeepsInv ==
  ASSUME Inv, NEW f \in Forms, NEW t \in Texts, TypeInto(f, t)
  PROVE  Inv'
<1>1. CallsFit' /\ CalmInv' /\ PageInv' /\ PageTypes'
  BY TypeIntoKeeps
<1>2. UNCHANGED <<sections, config, calls, stored, clicks>> /\ TypeOK
  BY DEF TypeInto, Inv
<1>3. UNCHANGED <<memory, file, changed, edits, asked, calm>>
  BY <1>2 DEF config
<1>4. TypeOK'
  BY <1>1, <1>2, <1>3 DEF TypeOK, PageTypes
<1>5. QED
  BY <1>1, <1>4 DEF Inv

\* Beside the calls: the monitor, and somebody who edits the file.
LEMMA MonitorKeepsInv ==
  ASSUME Inv, MonitorStep, UNCHANGED <<stored, page>>
  PROVE  Inv'
<1>1. TypeOK /\ CallsFit /\ CalmInv /\ PageInv /\ Monitor \in Processes
  BY DEF Inv, Processes
<1>2. MovesOnly(Monitor) /\ Fits(Monitor, calls'[Monitor])
  BY <1>1, MonitorKeepsFit
<1>3. ConfigTypes' /\ edits' = edits /\ asked' = asked /\ (calm' => calm)
  BY <1>1, MonitorTypes
<1>4. UNCHANGED <<sections, grid, form, late, note, crossed, clicks>>
  BY DEF page
<1>5. CallsFit' /\ CalmInv'
  BY <1>1, <1>2, FitsKept, MonitorIsCalm
<1>6. \A r \in Slots : calls'[r] = calls[r]
  BY <1>2, Constants DEF MovesOnly, Processes
<1>7. Out' = Out
  BY <1>6 DEF Out, At
<1>8. memory \in [Keys -> Values] /\ (calm /\ edits = 0 => Forward)
  <2>1. memory \in [Keys -> Values]
    BY <1>1 DEF TypeOK
  <2>2. CASE MonitorWakes \/ MonitorStamps
    BY <2>1, <2>2, SameIsForward DEF MonitorWakes, MonitorStamps
  <2>3. CASE ReloadStep(Monitor)
    BY <1>1, <2>1, <2>3, ReloadIsForward
  <2>4. QED
    BY <2>1, <2>2, <2>3 DEF MonitorStep
<1>9. ASSUME NEW r \in Slots
      PROVE  /\ TextInForm(r)' <=> TextInForm(r)
             /\ NoteWaits(r)' <=> NoteWaits(r)
             /\ Solo(r)' <=> Solo(r)
             /\ StaysDone(r)' <=> StaysDone(r)
             /\ WillShow(r)' <=> WillShow(r)
  BY <1>3, <1>4, <1>6, <1>7 DEF TextInForm, NoteWaits, Solo, StaysDone, WillShow, At
<1>10. ASSUME ~ crossed, calm', edits = 0
       PROVE  (\A r \in Slots : LoadIsCurrent(r)') /\ GridWillShow'
  <2>1. /\ \A r \in Slots : LoadIsCurrent(r)
        /\ GridWillShow /\ Forward
    BY <1>1, <1>3, <1>8, <1>10 DEF PageInv
  <2>2. \A k \in Keys, v \in Values : memory[k] \in Retyped[v] => memory'[k] \in Retyped[v]
    BY <1>8, <2>1, StillFollows
  <2>3. \A r \in Slots : LoadIsCurrent(r)'
    BY <1>6, <2>1, <2>2 DEF LoadIsCurrent, Follows
  <2>4. GridWillShow'
    BY <1>4, <1>9, <2>1, <2>2 DEF GridWillShow, Follows
  <2>5. QED
    BY <2>3, <2>4
<1>10a. PageInv'
  BY <1>1, <1>3, <1>4, <1>9, <1>10 DEF PageInv
<1>11. PageTypes'
  BY <1>1, <1>4, OldTypes DEF PageTypes
<1>12. TypeOK'
  BY <1>1, <1>2, <1>3, <1>4, <1>11, OldTypes, TypesAgain
<1>13. QED
  BY <1>5, <1>10a, <1>12 DEF Inv

LEMMA EditKeepsInv ==
  ASSUME Inv, EditStep, clicks + edits < MaxClicks, UNCHANGED <<stored, page>>
  PROVE  Inv'
<1>1. TypeOK /\ CallsFit /\ CalmInv /\ PageInv /\ MaxClicks \in Nat /\ MaxEdits \in Nat
  BY PageAssumption, ConfigAssumption DEF Inv
<1>2. CalmInv' /\ ConfigTypes' /\ edits' = edits + 1 /\ calls' = calls /\ edits < MaxEdits
  BY <1>1, EditIsCalm DEF EditStep, Edit
<1>3. UNCHANGED <<sections, grid, form, late, note, crossed, clicks>>
  BY DEF page
<1>4. CallsFit'
  BY <1>1, <1>2 DEF CallsFit
<1>5. Out' = Out
  BY <1>2 DEF Out, At
<1>6. ASSUME NEW r \in Slots
      PROVE  /\ TextInForm(r)' <=> TextInForm(r)
             /\ NoteWaits(r)' <=> NoteWaits(r)
             /\ Solo(r)' <=> Solo(r)
  BY <1>2, <1>3, <1>5 DEF TextInForm, NoteWaits, Solo, At
<1>7. edits' # 0
  BY <1>1, <1>2, OldTypes
<1>8. PageInv'
  BY <1>1, <1>3, <1>6, <1>7 DEF PageInv
<1>9. edits' \in 0 .. MaxEdits /\ clicks' \in Nat /\ clicks' + edits' <= MaxClicks
  BY <1>1, <1>2, <1>3, OldTypes
<1>10. TypeOK'
  BY <1>1, <1>2, <1>3, <1>9 DEF TypeOK, ConfigTypes
<1>11. QED
  BY <1>2, <1>4, <1>8, <1>10 DEF Inv

LEMMA InitInv == Init => Inv
<1> SUFFICES ASSUME Init
             PROVE  Inv
  OBVIOUS
<1>1. /\ asked = memory /\ changed = FALSE /\ edits = 0
      /\ calm = TRUE /\ sections \in Visits /\ stored = [f \in Forms |-> {}] /\ grid = Empty
      /\ form = [f \in Forms |-> Nothing] /\ late = {} /\ note = [s \in Slots |-> "none"]
      /\ crossed = FALSE /\ clicks = 0
  BY DEF Init, ConfigInit
<1>2. MaxEdits \in Nat /\ MaxClicks \in Nat
  BY ConfigAssumption, PageAssumption
<1>2a. /\ memory \in [Keys -> Values] /\ file \in [Keys -> Scalars] /\ Readable
       /\ \A k \in Keys : Contents[k] \in Retyped[memory[k]]
  <2>1. CASE memory = Defaults /\ file = [k \in Keys |-> TextOf[memory[k]]]
    <3>1. memory \in [Keys -> Values]
      BY <2>1, ConfigAssumption
    <3>2. file \in [Keys -> Scalars] /\ Readable /\ Contents = [k \in Keys |-> Reread(memory[k])]
      BY <2>1, <3>1, TextsAreRead DEF Readable, Contents
    <3>3. \A k \in Keys : Reread(memory[k]) \in Retyped[memory[k]]
      BY <3>1, RetypedKeeps
    <3>4. QED
      BY <3>1, <3>2, <3>3
  <2>2. CASE file \in OldFiles /\ memory = Contents
    <3>1. file \in [Keys -> Scalars]
      BY <2>2, ConfigAssumption
    <3>2. Readable
      BY <3>1, Constants DEF Readable
    <3>3. memory \in [Keys -> Values]
      BY <2>2, <3>1, <3>2, ContentsAreValues
    <3>4. QED
      BY <2>2, <3>1, <3>2, <3>3, RetypedKeeps
  <2>3. QED
    BY <2>1, <2>2 DEF Init, ConfigInit
<1>2b. Agreed /\ MemoryAgrees
  BY <1>1, <1>2a, RetypedKeeps DEF Agreed, MemoryAgrees
<1>3. /\ OpeningLoads[1] = "get_config" /\ OpeningLoads[2] = "tpm_status"
      /\ OpeningLoads[3] = "list_settings" /\ SectionOf[1] = "config"
  BY DEF OpeningLoads, SectionOf
<1>4. ASSUME NEW x \in Processes
      PROVE  /\ calls[x] \in CallStates
             /\ \/ calls[x] = Idle
                \/ x \in 1 .. 3 /\ calls[x] = Request(OpeningLoads[x], Nothing, Nothing)
  <2>1. CASE x \in 1 .. 3
    <3>1. OpeningLoads[x] \in Ops
      BY <1>3, <2>1 DEF Ops, Loads
    <3>2. Request(OpeningLoads[x], Nothing, Nothing) \in CallStates
      BY <3>1, RequestIsACall
    <3>3. QED
      BY <2>1, <3>2, IdleIsACall DEF Init, Processes
  <2>2. CASE x \notin 1 .. 3
    BY <2>2, IdleIsACall DEF Init, Processes
  <2>3. QED
    BY <2>1, <2>2
<1>5. ASSUME NEW x \in Processes
      PROVE  \/ calls[x].at = "free" /\ calls[x].op = "none"
             \/ x \in 1 .. 3 /\ calls[x].at = "sent" /\ calls[x].op \in Loads
  <2>1. CASE calls[x] = Idle
    BY <2>1, IdleIsACall
  <2>2. CASE x \in 1 .. 3 /\ calls[x] = Request(OpeningLoads[x], Nothing, Nothing)
    <3>1. OpeningLoads[x] \in Ops /\ OpeningLoads[x] \in Loads
      BY <1>3, <2>2 DEF Ops, Loads
    <3>2. QED
      BY <2>2, <3>1, RequestIsACall
  <2>3. QED
    BY <1>4, <2>1, <2>2
<1>6. calls \in [Processes -> CallStates]
  <2>1. \A x \in Processes : calls[x] \in CallStates
    BY <1>4
  <2>2. calls = [x \in Processes |-> calls[x]]
    BY DEF Init, Processes
  <2>3. QED
    BY <2>1, <2>2
<1>7. Monitor \notin 1 .. 3
  BY SlotsAssumption, Constants
<1>8. TypeOK
  <2>1. /\ stored \in [Forms -> SUBSET Texts] /\ form \in [Forms -> Texts \cup {Nothing}]
        /\ note \in [Slots -> {"none", "success", "error"}]
    BY <1>1
  <2>2. changed \in BOOLEAN /\ calm \in BOOLEAN /\ crossed \in BOOLEAN
    BY <1>1
  <2>3. QED
    BY <1>1, <1>2, <1>2a, <1>6, <2>1, <2>2 DEF TypeOK, Processes
<1>9. CallsFit
  <2>1. ASSUME NEW x \in Processes
        PROVE  Fits(x, calls[x])
    BY <1>5, <1>7 DEF Fits, Saving, Reloading, Adds, Drops, Loads
  <2>2. QED
    BY <2>1 DEF CallsFit
<1>10. CalmInv
  <2>1. Changing = {}
    BY <1>5, ChangingIsBusy DEF Busy, Saving, Reloading
  <2>2. QED
    BY <1>2b, <2>1 DEF CalmInv, OneChange, FileAgrees
<1>11. ASSUME NEW s \in Slots
       PROVE  TextInForm(s) /\ NoteWaits(s) /\ Solo(s) /\ StaysDone(s) /\ LoadIsCurrent(s)
  <2>1. \/ calls[s].at = "free" /\ calls[s].op = "none"
        \/ calls[s].at = "sent" /\ calls[s].op \in Loads
    BY <1>5 DEF Processes
  <2>2. QED
    BY <2>1 DEF TextInForm, NoteWaits, Solo, StaysDone, LoadIsCurrent, At, Adds, Drops, Loads, Saving
<1>12. GridWillShow
  <2> SUFFICES ASSUME sections = {"config"}
               PROVE  WillShow(1) /\ 1 \in Slots
    BY DEF GridWillShow
  <2>1. 1 \in Slots /\ 1 \in 1 .. 3 /\ 1 \in Processes
    BY SlotsAssumption DEF Processes
  <2>2. calls[1] = Request("get_config", Nothing, Nothing)
    BY <1>3, <2>1 DEF Init
  <2>3. QED
    BY <2>1, <2>2, RequestIsACall DEF WillShow, At, Ops, Loads
<1>13. QED
  BY <1>8, <1>9, <1>10, <1>11, <1>12 DEF Inv, PageInv

LEMMA InvIsKept == Inv /\ [Next]_vars => Inv'
<1> SUFFICES ASSUME Inv, [Next]_vars
             PROVE  Inv'
  OBVIOUS
<1>1. ASSUME NEW s \in Slots, ServerStep(s) \/ Lose(s)
      PROVE  Inv'
  BY <1>1, ServerKeepsInv
<1>2. ASSUME NEW s \in Slots, PageStep(s) \/ UserStep(s)
      PROVE  Inv'
  BY <1>2, PageKeepsInv
<1>3. ASSUME NEW f \in Forms, NEW t \in Texts, TypeInto(f, t)
      PROVE  Inv'
  BY <1>3, TypingKeepsInv
<1>4. CASE MonitorStep /\ UNCHANGED <<stored, page>>
  BY <1>4, MonitorKeepsInv
<1>5. CASE clicks + edits < MaxClicks /\ EditStep /\ UNCHANGED <<stored, page>>
  BY <1>5, EditKeepsInv
<1>6. CASE UNCHANGED vars
  <2>1. UNCHANGED <<memory, file, changed, edits, asked, calm, calls, stored>>
    BY <1>6 DEF vars, config
  <2>2. UNCHANGED <<sections, grid, form, late, note, crossed, clicks>>
    BY <1>6 DEF vars, page
  <2>3. TypeOK' /\ CallsFit'
    BY <2>1, <2>2 DEF Inv, TypeOK, CallsFit
  <2>4. CalmInv'
    <3>1. Changing' = Changing
      BY <2>1 DEF Changing
    <3>2. QED
      BY <1>6, <2>1, <3>1, ConfigAside DEF vars, Inv, CalmInv, OneChange, FileAgrees
  <2>5. PageInv'
    <3>1. Out' = Out
      BY <2>1 DEF Out, At
    <3>2. QED
      BY <2>1, <2>2, <3>1 DEF Inv, PageInv, TextInForm, NoteWaits, Solo, StaysDone,
            LoadIsCurrent, Follows, GridWillShow, WillShow, At
  <2>6. QED
    BY <2>3, <2>4, <2>5 DEF Inv
<1>7. QED
  BY <1>1, <1>2, <1>3, <1>4, <1>5, <1>6 DEF Next

LEMMA InvHolds == Spec => []Inv
<1>1. QED
  BY InitInv, InvIsKept, PTL DEF Spec

-----------------------------------------------------------------------------
(* The theorems.                                                            *)

\* Every variable keeps its type: a property has a value, whatever the file
\* held, a file that is read has a text for each, and what a call will use of its
\* copy is there.
THEOREM TypesAreKept == Spec => []TypeOK
<1>1. Inv => TypeOK
  BY DEF Inv
<1>2. QED
  BY <1>1, InvHolds, PTL

\* Changes that come one after the other are all kept, up to the types: whatever
\* texts the values have and whatever each is read as, the save of a change, and
\* the reload by the monitor that follows it, do nothing to any key but to reread
\* its value.
THEOREM ChangesAreKept == Spec => []EveryChangeIsKept
<1>1. Inv => EveryChangeIsKept
  BY QuietFacts DEF Inv, EveryChangeIsKept, Agreed
<1>2. QED
  BY <1>1, InvHolds, PTL

\* A user who waits sees the configuration that the server has, but for the types,
\* or an error: until then a chain is out that ends with a load, and memory has
\* since moved by rereading only (GridWillShow, LoadIsCurrent).
THEOREM GridStaysCurrent == Spec => []GridIsCurrent
<1>1. Inv => GridIsCurrent
  <2> SUFFICES ASSUME Inv, Out = {}, sections = {"config"}, ~ crossed, calm, edits = 0
               PROVE  \/ grid # Empty /\ \A k \in Keys : memory[k] \in Retyped[grid[k]]
                      \/ \E s \in Slots : note[s] = "error"
    BY DEF GridIsCurrent
  <2>1. GridWillShow
    BY DEF Inv, PageInv
  <2>2. \A s \in Slots : ~ WillShow(s)
    BY DEF WillShow, Out
  <2>3. CASE \A k \in Keys : Follows(grid, k)
    <3>1. grid # Empty
      <4>1. PICK k \in Keys : TRUE
        BY Constants
      <4>2. grid[k] \in Values
        BY <2>3 DEF Follows
      <4>3. Empty[k] = Nothing
        BY DEF Empty
      <4>4. QED
        BY <4>2, <4>3, Constants
    <3>2. QED
      BY <2>3, <3>1 DEF Follows
  <2>4. QED
    BY <2>1, <2>2, <2>3 DEF GridWillShow
<1>2. QED
  BY <1>1, InvHolds, PTL

\* An error never costs the user what was typed: the only step that empties a
\* form is the return of a call that succeeded, and its text is the one in the
\* form (TextInForm).
THEOREM TypedTextStays == Spec => TypedTextIsKept
<1> DEFINE Kept ==
      \A f \in Forms : form[f] # Nothing /\ form'[f] = Nothing /\ f \notin late =>
        \E s \in Slots : /\ At(s, "answered") /\ calls[s].reply = "ok"
                         /\ calls[s].key = form[f]
<1>1. ASSUME Inv, Next
      PROVE  Kept
  <2>1. CASE form' = form
    BY <2>1
  <2>2. ASSUME NEW g \in Forms, NEW t \in Texts, TypeInto(g, t)
        PROVE  Kept
    <3>1. form' = [form EXCEPT ![g] = t] /\ t # Nothing /\ form \in [Forms -> Texts \cup {Nothing}]
      BY <1>1, <2>2, PageAssumption DEF TypeInto, Inv, TypeOK
    <3>2. \A f \in Forms : form'[f] = Nothing => form[f] = Nothing
      BY <3>1
    <3>3. QED
      BY <3>2
  <2>3. ASSUME NEW s \in Slots, ActionReturns(s), form' # form
        PROVE  Kept
    <3>1. /\ ClearsForm(calls[s]) /\ At(s, "answered")
          /\ form' = [form EXCEPT ![FormOf(calls[s].op)] = Nothing]
      BY <2>3 DEF ActionReturns
    <3>2. /\ calls[s].op \in Adds \cup {"deregister"} /\ calls[s].reply = "ok"
          /\ calls[s].at = "answered"
      BY <3>1 DEF ClearsForm, Succeeded, At
    <3>3. TextInForm(s)
      BY <1>1 DEF Inv, PageInv
    <3>4. form \in [Forms -> Texts \cup {Nothing}]
      BY <1>1 DEF Inv, TypeOK
    <3>5. ASSUME NEW f \in Forms, form[f] # Nothing, form'[f] = Nothing, f \notin late
          PROVE  calls[s].key = form[f]
      <4>1. FormOf(calls[s].op) = f
        BY <3>1, <3>4, <3>5
      <4>2. QED
        BY <3>2, <3>3, <3>5, <4>1 DEF TextInForm
    <3>6. QED
      BY <3>1, <3>2, <3>5
  <2>4. \/ form' = form
        \/ \E g \in Forms, t \in Texts : TypeInto(g, t)
        \/ \E s \in Slots : ActionReturns(s)
    BY <1>1 DEF Next, ServerStep, StoreText, DropText, ListUserSettings, NoHandler, Lose, PageStep,
          LoadReturns, UserStep, UpdateConfig, ReloadConfiguration, AddUserSetting,
          RegisterMediaLocation, DeregisterMediaLocation, DeleteUserSetting, Click, page
  <2> HIDE DEF Kept
  <2>5. QED
    BY <2>1, <2>2, <2>3, <2>4
<1>2. Inv /\ [Next]_vars => [Kept]_vars
  BY <1>1
<1>3. QED
  BY <1>2, InvHolds, PTL DEF Spec, TypedTextIsKept

\* What the page reports as a success is so in memory and in the file: between
\* the answer of the server and its return nothing is done to the value but to
\* reread it (StaysDone, Agreed).
THEOREM SuccessStaysReal == Spec => SuccessIsReal
<1> DEFINE Real ==
      \A s \in Slots :
        /\ At(s, "answered") /\ calls[s].op \notin Loads
        /\ note'[s] = "success" /\ ~ crossed /\ calm /\ edits = 0
        => Done(calls[s])
<1>1. ASSUME Inv, Next, NEW s \in Slots, At(s, "answered"), calls[s].op \notin Loads,
             note'[s] = "success", ~ crossed, calm, edits = 0
      PROVE  Done(calls[s])
  <2>1. note[s] = "none" /\ StaysDone(s) /\ MemoryAgrees /\ note \in [Slots -> {"none", "success", "error"}]
    BY <1>1 DEF Inv, PageInv, NoteWaits, At, CalmInv, TypeOK
  <2>2. calls[s].at = "answered"
    BY <1>1 DEF At
  <2>3. calls[s].reply = "ok"
    <3>1. note' # note
      BY <1>1, <2>1
    <3>2. \/ \E r \in Slots : LoadReturns(r) \/ ActionReturns(r) \/ UserStep(r)
      BY <1>1, <3>1 DEF Next, ServerStep, StoreText, DropText, ListUserSettings, NoHandler, Lose,
            PageStep, TypeInto, page
    <3>3. ASSUME NEW r \in Slots, LoadReturns(r)
          PROVE  FALSE
      BY <1>1, <2>1, <3>3 DEF LoadReturns, ShowError, Notify
    <3>4. ASSUME NEW r \in Slots, UserStep(r)
          PROVE  FALSE
      <4>1. note' = [note EXCEPT ![r] = "none"]
        BY <3>4 DEF UserStep, UpdateConfig, ReloadConfiguration, AddUserSetting,
              RegisterMediaLocation, DeregisterMediaLocation, DeleteUserSetting, Click
      <4>2. QED
        BY <1>1, <2>1, <4>1
    <3>5. ASSUME NEW r \in Slots, ActionReturns(r)
          PROVE  calls[s].reply = "ok"
      <4>1. note' = [note EXCEPT ![r] = IF Succeeded(calls[r]) THEN "success" ELSE "error"]
        BY <3>5 DEF ActionReturns, ShowError, Notify
      <4>2. r = s /\ Succeeded(calls[r])
        BY <1>1, <2>1, <4>1
      <4>3. QED
        BY <4>2 DEF Succeeded
    <3>6. QED
      BY <3>2, <3>3, <3>4, <3>5
  <2>4. CASE calls[s].op = "put_config"
    <3>1. Agreed
      <4>1. Out = {s} /\ \A x \in Processes : Fits(x, calls[x])
        BY <1>1 DEF Inv, PageInv, Solo, At, CallsFit
      <4>2. ASSUME NEW x \in Changing
            PROVE  calls[x].at \notin Saving
        <5>1. CASE x \in Slots /\ x # s
          BY <4>1, <5>1 DEF Out, At, Saving
        <5>2. CASE x = s
          BY <2>2, <5>2 DEF Saving
        <5>3. CASE x = Monitor
          BY <4>1, <5>3 DEF Fits, Processes, Saving, Reloading
        <5>4. QED
          BY <5>1, <5>2, <5>3, ChangingIsBusy DEF Processes
      <4>3. QED
        BY <1>1, <4>2 DEF Inv, CalmInv, FileAgrees
    <3>2. calls[s].key \in Keys /\ s \in Processes
      BY <1>1, <2>4, OldFits DEF Inv, Fits
    <3>3. InForce(calls[s].key, asked[calls[s].key])
      BY <1>1, <2>1, <3>1, <3>2 DEF InForce, Agreed, MemoryAgrees
    <3>4. asked[calls[s].key] = Typed[calls[s].key][calls[s].value]
      BY <2>1, <2>2, <2>3, <2>4 DEF StaysDone
    <3>5. Done(calls[s]) = InForce(calls[s].key, Typed[calls[s].key][calls[s].value])
      BY <2>4 DEF Done, Adds, Drops
    <3>6. QED
      BY <3>3, <3>4, <3>5
  <2>5. CASE calls[s].op \in Adds
    BY <2>1, <2>2, <2>3, <2>5 DEF StaysDone, Done, Adds, Drops
  <2>6. CASE calls[s].op \in Drops
    BY <2>1, <2>2, <2>3, <2>6 DEF StaysDone, Done, Adds, Drops
  <2>7. CASE calls[s].op \notin Adds \cup Drops \cup {"put_config"}
    BY <2>7 DEF Done
  <2>8. QED
    BY <2>4, <2>5, <2>6, <2>7
<1>2. Inv /\ [Next]_vars => [Real]_vars
  BY <1>1
<1>3. QED
  BY <1>2, InvHolds, PTL DEF Spec, SuccessIsReal

=============================================================================
