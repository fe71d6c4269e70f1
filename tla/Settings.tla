------------------------------ MODULE Settings ------------------------------
(***************************************************************************)
(* config.toml and its readers: vtermd/src/config.rs over                  *)
(* vt-config/src/load.rs and reload.rs.  The user's editor saves the file  *)
(* as a whole.  A config.set reads it, edits one key, checks the result,   *)
(* writes it beside the file, renames it over the file and loads it again. *)
(* A watcher compares modification times once a second.  None of them      *)
(* holds a lock over more than the assignment of the loaded values.  A     *)
(* client asks for the values when it connects and at config.changed.      *)
(***************************************************************************)
EXTENDS Integers, FiniteSets

CONSTANTS Keys,
          Values,       (* of a key                                        *)
          Refused,      (* values validate() has a complaint about         *)
          Default,      (* the values of Config::default()                 *)
          Callers,      (* connections that call config.set, config.reload *)
          MaxWrites,    (* bound: times the file is written                *)
          MaxCalls      (* bound: calls begun                              *)

ASSUME SettingsAssumption ==
    /\ Default \in [Keys -> Values] /\ Refused \subseteq Values
    /\ \A k \in Keys : Default[k] \notin Refused
    /\ MaxWrites \in Nat /\ MaxCalls \in Nat

VARIABLES
    file,       (* config.toml: its text, and which write it is from       *)
    tmp,        (* config.toml.tmp, one name for every writer              *)
    daemon,     (* "absent", "off", "loaded", "watching"                   *)
    loaded,     (* ConfigState.loaded                                      *)
    stamp,      (* Watcher.stamps: the write it has seen                   *)
    watch,      (* the watcher: "asleep", "changed", "read", "stored"      *)
    fresh,      (* what a reload has read and not yet stored               *)
    call,       (* a config.set: "idle", "checked", "truncated", "filled", *)
                (* "renamed", "read"                                       *)
    edit,       (* its text                                                *)
    calls,
    told,       (* the client has been told to ask                         *)
    view        (* the values it shows                                     *)

Actors == Callers \cup {"watcher"}
Text(vals) == [parses |-> TRUE, whole |-> TRUE, vals |-> vals]
Broken == [parses |-> FALSE, whole |-> TRUE, vals |-> Default]
(* An empty file is a legal one: every key has a default. *)
Truncated == [parses |-> TRUE, whole |-> FALSE, vals |-> Default]
Missing == [parses |-> FALSE, whole |-> FALSE, vals |-> Default]
Texts == [parses : BOOLEAN, whole : BOOLEAN, vals : [Keys -> Values]]

(* load(): defaults for a file that does not parse; complaints of          *)
(* validate() are reported and the values used all the same.               *)
Load(text) == [error |-> ~text.parses, vals |-> IF text.parses THEN text.vals ELSE Default]
Valid(text) == text.parses /\ \A k \in Keys : text.vals[k] \notin Refused

fileVars == <<file, tmp>>
callVars == <<call, edit, calls>>
viewVars == <<told, view>>
settingsVars == <<fileVars, daemon, loaded, stamp, watch, fresh, callVars, viewVars>>

SettingsTypeOK ==
    /\ file \in [text : Texts, write : 0..MaxWrites] /\ tmp \in Texts
    /\ daemon \in {"absent", "off", "loaded", "watching"}
    /\ loaded \in [error : BOOLEAN, vals : [Keys -> Values]]
    /\ stamp \in 0..MaxWrites /\ watch \in {"asleep", "changed", "read", "stored"}
    /\ fresh \in [Actors -> [error : BOOLEAN, vals : [Keys -> Values]]]
    /\ call \in [Callers -> {"idle", "checked", "truncated", "filled", "renamed", "read"}]
    /\ edit \in [Callers -> Texts] /\ calls \in 0..MaxCalls
    /\ told \in BOOLEAN /\ view \in [error : BOOLEAN, vals : [Keys -> Values]]

Unloaded ==
    /\ file = [text |-> Text(Default), write |-> 0] /\ tmp = Missing
    /\ loaded = Load(Text(Default))
    /\ stamp = 0 /\ watch = "asleep" /\ fresh = [a \in Actors |-> Load(Text(Default))]
    /\ call = [c \in Callers |-> "idle"] /\ edit = [c \in Callers |-> Missing] /\ calls = 0
    /\ told = FALSE /\ view = Load(Text(Default))

SettingsInit == Unloaded /\ daemon = "off"

Write(text) == file.write < MaxWrites /\ file' = [text |-> text, write |-> file.write + 1]

UserSaves ==
    /\ \E text \in {Text(v) : v \in [Keys -> Values]} \cup {Broken} : text # file.text /\ Write(text)
    /\ UNCHANGED <<tmp, daemon, loaded, stamp, watch, fresh, callVars, viewVars>>

-----------------------------------------------------------------------------
(* The daemon: load_default, much later start_watch, then the socket. *)

LoadDefault ==
    /\ daemon = "off" /\ daemon' = "loaded" /\ loaded' = Load(file.text)
    /\ UNCHANGED <<fileVars, stamp, watch, fresh, callVars, viewVars>>

StartWatch ==
    /\ daemon = "loaded" /\ daemon' = "watching"
    /\ stamp' = file.write /\ told' = TRUE
    /\ UNCHANGED <<fileVars, loaded, watch, fresh, callVars, view>>

Crash ==
    /\ daemon # "off" /\ daemon' = "off"
    /\ watch' = "asleep" /\ call' = [c \in Callers |-> "idle"] /\ told' = FALSE
    /\ UNCHANGED <<fileVars, loaded, stamp, fresh, edit, calls, view>>

(* Watcher::poll takes the new times before anything is read. *)
Poll ==
    /\ daemon = "watching" /\ watch = "asleep" /\ stamp # file.write
    /\ stamp' = file.write /\ watch' = "changed"
    /\ UNCHANGED <<fileVars, daemon, loaded, fresh, callVars, viewVars>>

ReloadReads(a) == fresh' = [fresh EXCEPT ![a] = Load(file.text)]
ReloadStores(a) == loaded' = fresh[a]

WatchReads ==
    /\ watch = "changed" /\ watch' = "read" /\ ReloadReads("watcher")
    /\ UNCHANGED <<fileVars, daemon, loaded, stamp, callVars, viewVars>>

StampLate ==
    /\ watch = "read" /\ watch' = "stored" /\ ReloadStores("watcher") /\ stamp' = file.write
    /\ UNCHANGED <<fileVars, daemon, fresh, callVars, viewVars>>

WatchStores ==
    /\ watch = "read" /\ watch' = "stored" /\ ReloadStores("watcher")
    /\ UNCHANGED <<fileVars, daemon, stamp, fresh, callVars, viewVars>>

Broadcast ==
    /\ watch = "stored" /\ watch' = "asleep" /\ told' = TRUE
    /\ UNCHANGED <<fileVars, daemon, loaded, stamp, fresh, callVars, view>>

ClientAsks ==
    /\ daemon = "watching" /\ told
    /\ told' = FALSE /\ view' = loaded
    /\ UNCHANGED <<fileVars, daemon, loaded, stamp, watch, fresh, callVars>>

-----------------------------------------------------------------------------
(* config.set and config.reload. *)

(* set_config_value: what does not parse, or would not pass, is refused.   *)
SetReads(c) ==
    /\ daemon = "watching" /\ call[c] = "idle" /\ calls < MaxCalls /\ calls' = calls + 1
    /\ file.text.parses
    /\ \E k \in Keys, v \in Values :
           LET updated == [file.text EXCEPT !.vals[k] = v]
           IN  /\ Valid(updated)
               /\ edit' = [edit EXCEPT ![c] = updated]
    /\ call' = [call EXCEPT ![c] = "checked"]
    /\ UNCHANGED <<fileVars, daemon, loaded, stamp, watch, fresh, viewVars>>

SetRefused(c) ==
    /\ daemon = "watching" /\ call[c] = "idle" /\ calls < MaxCalls /\ calls' = calls + 1
    /\ \E k \in Keys, v \in Values : ~Valid([file.text EXCEPT !.vals[k] = v])
    /\ UNCHANGED <<fileVars, daemon, loaded, stamp, watch, fresh, call, edit, viewVars>>

WriteInPlace(c) ==
    /\ \/ call[c] = "checked" /\ Write(Truncated) /\ call' = [call EXCEPT ![c] = "truncated"]
       \/ call[c] = "truncated" /\ Write(edit[c]) /\ call' = [call EXCEPT ![c] = "renamed"]
    /\ UNCHANGED <<tmp, daemon, loaded, stamp, watch, fresh, edit, calls, viewVars>>

(* write_atomically: create and truncate, fill, rename. *)
SetWrites(c) ==
    /\ \/ call[c] = "checked" /\ tmp' = Truncated /\ call' = [call EXCEPT ![c] = "truncated"]
       \/ call[c] = "truncated" /\ tmp' = edit[c] /\ call' = [call EXCEPT ![c] = "filled"]
    /\ UNCHANGED <<file, daemon, loaded, stamp, watch, fresh, edit, calls, viewVars>>

SetRenames(c) ==
    /\ call[c] = "filled"
    /\ IF tmp = Missing
       THEN call' = [call EXCEPT ![c] = "idle"] /\ UNCHANGED fileVars
       ELSE Write(tmp) /\ tmp' = Missing /\ call' = [call EXCEPT ![c] = "renamed"]
    /\ UNCHANGED <<daemon, loaded, stamp, watch, fresh, edit, calls, viewVars>>

ReloadCalled(c) ==
    /\ daemon = "watching" /\ call[c] = "idle" /\ calls < MaxCalls /\ calls' = calls + 1
    /\ call' = [call EXCEPT ![c] = "renamed"]
    /\ UNCHANGED <<fileVars, daemon, loaded, stamp, watch, fresh, edit, viewVars>>

CallReloads(c) ==
    /\ \/ call[c] = "renamed" /\ ReloadReads(c) /\ call' = [call EXCEPT ![c] = "read"] /\ UNCHANGED loaded
       \/ call[c] = "read" /\ ReloadStores(c) /\ call' = [call EXCEPT ![c] = "idle"] /\ UNCHANGED fresh
    /\ UNCHANGED <<fileVars, daemon, stamp, watch, edit, calls, viewVars>>

CallSteps(c) == SetWrites(c) \/ SetRenames(c) \/ CallReloads(c)

SettingsNext ==
    \/ UserSaves \/ LoadDefault \/ StartWatch \/ Crash
    \/ Poll \/ WatchReads \/ WatchStores \/ Broadcast \/ ClientAsks
    \/ \E c \in Callers : SetReads(c) \/ SetRefused(c) \/ ReloadCalled(c) \/ CallSteps(c)

SettingsSpec == SettingsInit /\ [][SettingsNext]_settingsVars

(* The threads of the daemon run, and the client answers config.changed;   *)
(* nobody has to edit or to call.                                          *)
SettingsFairness ==
    /\ WF_settingsVars(LoadDefault) /\ WF_settingsVars(StartWatch)
    /\ WF_settingsVars(Poll \/ WatchReads \/ WatchStores \/ Broadcast) /\ WF_settingsVars(ClientAsks)
    /\ \A c \in Callers : WF_settingsVars(CallSteps(c))

FairSettingsSpec == SettingsSpec /\ SettingsFairness

-----------------------------------------------------------------------------
(* However a set is cut short, config.toml is a text the user saved or one *)
(* a set has finished and checked: never the part of one.                  *)
FileIsWhole == file.text.whole

(* The file, and what is on its way into and out of it, are what they are  *)
(* meant to be at every step of a set, a save, a reload and a crash.       *)
ConfigIsWhole == SettingsTypeOK /\ FileIsWhole

Quiet == \A c \in Callers : call[c] = "idle"
(* The daemon watches, and the write n is there and not yet seen by it. *)
Unseen(n) == daemon = "watching" /\ file.write = n /\ stamp # n /\ Quiet

(* docs/09, "re-reads them within a second of a write": what is written    *)
(* while the daemon watches reaches the client, whatever reload was on its *)
(* way when it was written, unless it is overwritten or a call runs.       *)
EditIsShown ==
    \A n \in 1..MaxWrites :
        Unseen(n) ~> (view = Load(file.text) \/ file.write # n \/ ~Quiet \/ daemon # "watching")

-----------------------------------------------------------------------------
(* Promises TLC refutes. *)

(* The same of whatever is in the file while the daemon serves: not so of  *)
(* an edit between load_default and start_watch, nor of one between the    *)
(* read and the store of a call's own reload.                              *)
FileIsShown ==
    \A n \in 0..MaxWrites :
        (daemon = "watching" /\ file.write = n /\ Quiet)
            ~> (view = Load(file.text) \/ file.write # n \/ ~Quiet \/ daemon # "watching")

(* A set changes one key and leaves the rest of the file as it is: not     *)
(* when the user saves between its read and its rename.                    *)
KeepsOtherKeys ==
    [][\A c \in Callers : SetRenames(c) /\ file' # file
           => Cardinality({k \in Keys : file'.text.vals[k] # file.text.vals[k]}) <= 1]_settingsVars
=============================================================================
