---------------------------- MODULE ConfigServer ----------------------------
(***************************************************************************)
(* The configuration of the server: the properties in memory               *)
(* (UnifiedObservableConfigManager), the YAML file, the thread that watches *)
(* the file (ConfigFileMonitor), and the three handlers of /api/v1/config.  *)
(*                                                                         *)
(* The mutex of ConfigPropertyManager guards one look-up of one property,   *)
(* so a handler that reads all properties, a save and a reload go key by    *)
(* key, and nothing at all guards the file: a save truncates it and writes  *)
(* it in a second step, a reload parses it twice.                          *)
(*                                                                         *)
(* calls[x] is a process: a call of a handler by its slot, from the moment  *)
(* the request is sent to the moment its sender has dealt with the answer,  *)
(* or the monitor thread, which reloads in the same way.                    *)
(*                                                                         *)
(* A property has a value of a type in memory and a text in the file.  The  *)
(* text does not tell the type: reading guesses it, so that the string      *)
(* "0.0.0.0" comes back as the number 0.0, and that, written as 0, as the   *)
(* integer 0.                                                              *)
(***************************************************************************)
EXTENDS Integers

CONSTANTS
  Keys,      \* names of properties
  Scalars,   \* texts, as a request or the file holds them
  Values,    \* strings, numbers and Booleans, as value_ holds them
  Typed,     \* Typed[k][t]: what setValueFromString() makes of t for k, or Nothing
  TextOf,    \* TextOf[v]: the text anyToYamlNode() writes for v
  ReadAs,    \* ReadAs[t]: what convertStringToType() makes of t
  Defaults,  \* the properties the factory creates
  OldFiles,  \* files that the server may find
  Slots,     \* calls that may be under way at one time
  Monitor,   \* the monitor thread
  Nothing,   \* no value
  MaxEdits   \* bound: how often somebody edits the file

ASSUME ConfigAssumption ==
  /\ Keys # {}
  /\ Nothing \notin Values \cup Scalars
  /\ Typed \in [Keys -> [Scalars -> Values \cup {Nothing}]]
  /\ TextOf \in [Values -> Scalars]
  /\ ReadAs \in [Scalars -> Values]
  /\ Defaults \in [Keys -> Values]
  /\ OldFiles \subseteq [Keys -> Scalars]
  /\ Monitor \notin Slots
  /\ MaxEdits \in Nat

VARIABLES
  memory,    \* value_ of each property
  file,      \* the YAML file
  changed,   \* the time of the file is later than last_modification_time_
  calls,     \* the processes
  edits,     \* how often the file was edited
  asked,     \* history: the last value given to each key, by a call or an edit
  calm       \* history: no two changes of the configuration ever overlapped

config == <<memory, file, changed, edits, asked, calm>>

Empty == [k \in Keys |-> Nothing]

\* A file that is truncated or damaged gives the parser no property at all.
Readable == file # Empty

\* What the file is read as; a key keeps no trace of the type it had.
Contents == [k \in Keys |-> ReadAs[file[k]]]

Reread(v) == ReadAs[TextOf[v]]

\* What v may have turned into when it was written and read again, any number
\* of times: the least set with v that rereading does not leave.  A value that
\* comes back as it was turns into nothing else.
Retyped ==
  [v \in Values |->
     { w \in Values : \A S \in SUBSET Values :
                        v \in S /\ (\A x \in S : Reread(x) \in S) => w \in S }]

\* The file is what was saved, or the memory is what was read from it.
InStep == file = [k \in Keys |-> TextOf[memory[k]]] \/ memory = Contents

Idle == [at |-> "free", op |-> "none", key |-> Nothing, value |-> Nothing,
         reply |-> "none", todo |-> {}, copy |-> Empty]

At(x, place) == calls[x].at = place

Move(x, call) == calls' = [calls EXCEPT ![x] = call]

Answer(call, reply) == [call EXCEPT !.at = "answered", !.reply = reply, !.todo = {}]

\* Those that are changing the memory or the file, or are about to.  While
\* the file is newer than last_modification_time_ a reload is about to begin.
Changing == { x \in Slots \cup {Monitor} :
                calls[x].at \in {"save", "truncate", "write", "parse", "load", "apply", "stamp"} }

\* calm remembers whether the changes came one after the other: each begins
\* when no other is under way, and nobody writes a file whose last edit has
\* not been read.
ChangeBegins == calm' = (calm /\ Changing = {})

-----------------------------------------------------------------------------
(* The handlers.                                                           *)

GetAllConfig(s) ==
  /\ At(s, "sent") /\ calls[s].op = "get_config"
  /\ Move(s, [calls[s] EXCEPT !.at = "read", !.todo = Keys])
  /\ UNCHANGED config

\* Mutant: the text is not converted to the type of the property.
AcceptsAnything(k, t) == TRUE

\* setValueFromString(): the text is of the type that the property was created
\* with.
Accepts(k, t) == Typed[k][t] # Nothing

\* Mutant: the property is changed in memory only.
SetWithoutSave(call) == Answer(call, "ok")

\* After the property was set: triggerSave().
SetAndSave(call) == [call EXCEPT !.at = "save", !.todo = Keys]

UpdateConfigProperty(s) ==
  LET call  == calls[s]
      value == Typed[call.key][call.value]
  IN  /\ At(s, "sent") /\ call.op = "put_config"
      /\ IF Accepts(call.key, call.value)
           THEN /\ memory' = [memory EXCEPT ![call.key] = value]
                /\ asked' = [asked EXCEPT ![call.key] = value]
                /\ Move(s, SetAndSave(call))
                /\ calm' = (calm /\ Changing = {} /\ InStep)
           ELSE /\ Move(s, Answer(call, "refused"))
                /\ UNCHANGED <<memory, asked, calm>>
      /\ UNCHANGED <<file, changed, edits>>

\* One property is read, by GET or by saveConfiguration().
ReadProperty(s, k) ==
  LET call == calls[s]
      rest == call.todo \ {k}
      read == [call EXCEPT !.copy[k] = memory[k], !.todo = rest]
  IN  /\ call.at \in {"read", "save"}
      /\ k \in call.todo
      /\ \/ rest # {} /\ Move(s, read)
         \/ rest = {} /\ call.at = "read" /\ Move(s, Answer(read, "ok"))
         \/ rest = {} /\ call.at = "save" /\ Move(s, [read EXCEPT !.at = "truncate"])
      /\ UNCHANGED config

\* serializeToYamlFile(): the file is opened, which truncates it, ...
Truncate(s) ==
  /\ At(s, "truncate")
  /\ file' = Empty
  /\ changed' = TRUE
  /\ Move(s, [calls[s] EXCEPT !.at = "write"])
  /\ UNCHANGED <<memory, edits, asked, calm>>

\* ... and written, as texts.  The text of somebody who wrote in between may
\* show behind a shorter one and make the file unreadable.
WriteFile(s) ==
  /\ At(s, "write")
  /\ \/ file' = [k \in Keys |-> TextOf[calls[s].copy[k]]]
     \/ Readable /\ file' = Empty
  /\ changed' = TRUE
  /\ Move(s, Answer([calls[s] EXCEPT !.copy = Empty], "ok"))
  /\ UNCHANGED <<memory, edits, asked, calm>>

\* The file cannot be opened: the handler does not look at the result.
SaveFails(s) ==
  /\ At(s, "truncate")
  /\ Move(s, Answer([calls[s] EXCEPT !.copy = Empty], "ok"))
  /\ calm' = FALSE
  /\ UNCHANGED <<memory, file, changed, edits, asked>>

ReloadConfig(s) ==
  /\ At(s, "sent") /\ calls[s].op = "reload"
  /\ Move(s, [calls[s] EXCEPT !.at = "parse"])
  /\ ChangeBegins
  /\ UNCHANGED <<memory, file, changed, edits, asked>>

-----------------------------------------------------------------------------
(* reloadConfiguration(), by the handler or by the monitor.                *)

\* The monitor ignores the result and stores the time of the file; the handler
\* answers.
Reloaded(x, reply) ==
  IF x = Monitor
    THEN [Idle EXCEPT !.at = "stamp"]
    ELSE Answer([calls[x] EXCEPT !.copy = Empty], reply)

\* ConfigFileManager::loadConfiguration() parses the file to see whether it is valid.
Parse(x) ==
  /\ At(x, "parse")
  /\ Move(x, IF Readable THEN [calls[x] EXCEPT !.at = "load"] ELSE Reloaded(x, "refused"))
  /\ UNCHANGED config

\* getLoadedProperties() parses it again, for the values: the type of each is
\* that which its text looks like.
Load(x) ==
  /\ At(x, "load")
  /\ Move(x, IF Readable
               THEN [calls[x] EXCEPT !.at = "apply", !.todo = Keys, !.copy = Contents]
               ELSE Reloaded(x, "refused"))
  /\ UNCHANGED config

\* setValueFromFile(): the value replaces what the property had, of whatever
\* type, and is not validated.
Apply(x, k) ==
  LET rest == calls[x].todo \ {k}
  IN  /\ At(x, "apply")
      /\ k \in calls[x].todo
      /\ memory' = [memory EXCEPT ![k] = calls[x].copy[k]]
      /\ Move(x, IF rest # {} THEN [calls[x] EXCEPT !.todo = rest] ELSE Reloaded(x, "ok"))
      /\ UNCHANGED <<file, changed, edits, asked, calm>>

\* monitoringLoop(): hasFileChanged() is true, the callback reloads, ...
MonitorWakes ==
  /\ At(Monitor, "free")
  /\ changed
  /\ Move(Monitor, [Idle EXCEPT !.at = "parse"])
  /\ ChangeBegins
  /\ UNCHANGED <<memory, file, changed, edits, asked>>

\* ... and the time stored is the one the file has afterwards.
MonitorStamps ==
  /\ At(Monitor, "stamp")
  /\ changed' = FALSE
  /\ Move(Monitor, Idle)
  /\ UNCHANGED <<memory, file, edits, asked, calm>>

\* Somebody replaces the file by one with another text, which a call might not
\* be allowed to set.
Edit(k, t) ==
  /\ edits < MaxEdits
  /\ Readable
  /\ file[k] # t
  /\ file' = [file EXCEPT ![k] = t]
  /\ changed' = TRUE
  /\ edits' = edits + 1
  /\ asked' = [asked EXCEPT ![k] = ReadAs[t]]
  /\ ChangeBegins
  /\ UNCHANGED <<memory, calls>>

-----------------------------------------------------------------------------
\* The server writes its defaults if it finds no file, otherwise it reads it.
ConfigInit ==
  /\ \/ memory = Defaults /\ file = [k \in Keys |-> TextOf[memory[k]]]
     \/ file \in OldFiles /\ memory = Contents
  /\ changed = FALSE
  /\ edits = 0
  /\ asked = memory
  /\ calm = TRUE

ReloadStep(x) == Parse(x) \/ Load(x) \/ \E k \in Keys : Apply(x, k)

HandlerStep(s) ==
  \/ GetAllConfig(s) \/ UpdateConfigProperty(s) \/ ReloadConfig(s)
  \/ \E k \in Keys : ReadProperty(s, k)
  \/ Truncate(s) \/ WriteFile(s) \/ SaveFails(s)
  \/ ReloadStep(s)

MonitorStep == MonitorWakes \/ ReloadStep(Monitor) \/ MonitorStamps

EditStep == \E k \in Keys, t \in Scalars : Edit(k, t)

\* As long as changes come one after the other, each is kept up to its type:
\* when none is under way, the file is read as the last value given to every
\* key, by a call that was answered or by an edit, and memory holds it, once
\* the monitor has seen the file; or they have what that value has turned into
\* by being saved and reloaded.  The reload that follows every save does change
\* a value whose text looks like another type, but it changes nothing else.
EveryChangeIsKept ==
  calm /\ Changing = {} =>
    /\ Readable
    /\ \A k \in Keys : /\ Contents[k] \in Retyped[asked[k]]
                       /\ ~ changed => memory[k] \in Retyped[asked[k]]

=============================================================================
