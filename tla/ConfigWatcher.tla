--------------------------- MODULE ConfigWatcher ---------------------------
(***************************************************************************)
(* The configuration watcher (config_watcher.rs), for one key and one      *)
(* file.  A value is replaced under the write lock of the map and          *)
(* announced after the lock is gone; the loop of start compares the file's *)
(* time with the one it keeps and announces changes.  Announcements go     *)
(* through one broadcast channel, read here by one subscriber.             *)
(***************************************************************************)
EXTENDS Integers, Sequences

CONSTANTS
    Setters,        \* tasks that call set
    Values,
    NoValue,        \* the key has no value yet
    ChannelSize,    \* 64
    LastMtime,      \* bound: modification times are 0..LastMtime
    Unwatched       \* the file is not in watched_files

ASSUME ChannelHolds == ChannelSize \in Nat \ {0}
ASSUME LastMtimeType == LastMtime \in Nat
ASSUME NoneApart == NoValue \notin Values /\ Unwatched \notin Int

VARIABLES
    setting,        \* config_values of the key
    setter,         \* a call of set: at rest, or about to announce
    channel,        \* change_tx: announcements the subscriber has yet to read
    missed,         \* the channel has dropped one of them
    balance,        \* what the subscriber has read: of each value, how often
                    \* it came in less how often it went out
    present,        \* the file can be read
    mtime,          \* its modification time
    watched,        \* watched_files of the file
    watchCall,      \* the time a call of watch_file has read, not yet entered
    modified,       \* the loop has still to announce the file
    newest,         \* history: the latest time the file has ever had
    owed            \* history: the file has that time since a write under watch,
                    \* and nothing has been announced since

watcherVars == <<setting, setter, channel, missed, balance, present, mtime,
                 watched, watchCall, modified, newest, owed>>

Settings == Values \cup {NoValue}
ValueChanged == [kind : {"value"}, old : Settings, new : Values]
Events == ValueChanged \cup {[kind |-> "file"], [kind |-> "reload"]}
Resting == [pc |-> "rest", old |-> NoValue, new |-> NoValue]
Mtimes == 0..LastMtime

WatcherTypeOK ==
    /\ setting \in Settings
    /\ setter \in [Setters -> [pc : {"rest", "send"}, old : Settings, new : Settings]]
    /\ channel \in Seq(Events) /\ Len(channel) <= ChannelSize
    /\ balance \in [Values -> Int]
    /\ missed \in BOOLEAN /\ present \in BOOLEAN
    /\ modified \in BOOLEAN /\ owed \in BOOLEAN
    /\ mtime \in Mtimes /\ newest \in Mtimes
    /\ watched \in Mtimes \cup {Unwatched}
    /\ watchCall \in Mtimes \cup {Unwatched}

WatcherInit ==
    /\ setting = NoValue
    /\ setter = [s \in Setters |-> Resting]
    /\ channel = <<>> /\ missed = FALSE
    /\ balance = [v \in Values |-> 0]
    /\ present = TRUE /\ mtime = 0 /\ newest = 0
    /\ watched = Unwatched /\ watchCall = Unwatched
    /\ modified = FALSE /\ owed = FALSE

\* broadcast::send: a full channel drops its oldest message.
Announce(e) ==
    IF Len(channel) < ChannelSize
    THEN channel' = Append(channel, e) /\ UNCHANGED missed
    ELSE channel' = Append(Tail(channel), e) /\ missed' = TRUE

fileVars == <<present, mtime, watched, watchCall, modified, newest, owed>>

\* Slip: a key that had no value does not count as changed.
SlipSet(s, v) ==
    /\ setter[s].pc = "rest"
    /\ setting' = v
    /\ setter' = [setter EXCEPT ![s] =
                    IF setting \in {v, NoValue} THEN Resting
                    ELSE [pc |-> "send", old |-> setting, new |-> v]]
    /\ UNCHANGED <<channel, missed, balance, fileVars>>

\* set: insert under the lock, which hands back the old value.
Set(s, v) ==
    /\ setter[s].pc = "rest"
    /\ setting' = v
    /\ setter' = [setter EXCEPT ![s] =
                    IF setting = v THEN Resting
                    ELSE [pc |-> "send", old |-> setting, new |-> v]]
    /\ UNCHANGED <<channel, missed, balance, fileVars>>

\* Outside the lock: announcements of two calls may change places.
SendValueChanged(s) ==
    /\ setter[s].pc = "send"
    /\ Announce([kind |-> "value", old |-> setter[s].old, new |-> setter[s].new])
    /\ setter' = [setter EXCEPT ![s] = Resting]
    /\ UNCHANGED <<setting, balance, fileVars>>

NotifyReload ==
    /\ Announce([kind |-> "reload"])
    /\ UNCHANGED <<setting, setter, balance, fileVars>>

\* The subscriber reads.
Counted(e, v) == (IF e.new = v THEN 1 ELSE 0) - (IF e.old = v THEN 1 ELSE 0)
Receive ==
    /\ channel # <<>>
    /\ channel' = Tail(channel)
    /\ balance' = IF Head(channel).kind = "value" /\ ~missed
                  THEN [v \in Values |-> balance[v] + Counted(Head(channel), v)]
                  ELSE balance
    /\ UNCHANGED <<setting, setter, missed, fileVars>>

\* watch_file: the time is read before the lock is asked for.  A file that
\* cannot be read is an error and is not entered.
ReadMtime ==
    /\ watchCall = Unwatched /\ present
    /\ watchCall' = mtime
    /\ UNCHANGED <<setting, setter, channel, missed, balance, present, mtime,
                   watched, modified, newest, owed>>

\* A time kept so far is replaced: a write that the call has seen already is
\* where it starts from, and is owed no more.
WatchFile ==
    /\ watchCall # Unwatched
    /\ watched' = watchCall
    /\ watchCall' = Unwatched
    /\ owed' = (owed /\ watchCall # mtime)
    /\ UNCHANGED <<setting, setter, channel, missed, balance, present, mtime, modified,
                   newest>>

UnwatchFile ==
    /\ watched' = Unwatched
    /\ owed' = FALSE
    /\ UNCHANGED <<setting, setter, channel, missed, balance, present, mtime,
                   watchCall, modified, newest>>

\* Slip: the new time is kept but the file is not put on the list.
SlipCheckFiles ==
    /\ ~modified
    /\ watched # Unwatched /\ present /\ mtime > watched
    /\ watched' = mtime
    /\ modified' = FALSE
    /\ UNCHANGED <<setting, setter, channel, missed, balance, present, mtime, watchCall,
                   newest, owed>>

\* A tick of the loop: check_files, under the lock.  A file that cannot be
\* read, or is not newer, changes nothing.
CheckFiles ==
    /\ ~modified
    /\ watched # Unwatched /\ present /\ mtime > watched
    /\ watched' = mtime
    /\ modified' = TRUE
    /\ UNCHANGED <<setting, setter, channel, missed, balance, present, mtime, watchCall,
                   newest, owed>>

\* The loop announces, whatever has become of the file meanwhile.
SendFileModified ==
    /\ modified
    /\ Announce([kind |-> "file"])
    /\ modified' = FALSE
    /\ owed' = FALSE
    /\ UNCHANGED <<setting, setter, balance, present, mtime, watched, watchCall, newest>>

\* Others write the file or put one in its place, with any time: a copy may
\* bring an older one along, two writes may fall on one tick of the clock.
Write(t) ==
    /\ present' = TRUE
    /\ mtime' = t
    /\ newest' = IF t > newest THEN t ELSE newest
    /\ owed' = IF t > newest THEN watched # Unwatched \/ watchCall # Unwatched
               ELSE owed /\ t = newest
    /\ UNCHANGED <<setting, setter, channel, missed, balance, watched, watchCall, modified>>

\* Others remove it or move it away.
MoveAway ==
    /\ present
    /\ present' = FALSE
    /\ UNCHANGED <<setting, setter, channel, missed, balance, mtime, watched,
                   watchCall, modified, newest, owed>>

WatcherLoop == CheckFiles \/ SendFileModified

WatcherNext ==
    \/ \E s \in Setters : (\E v \in Values : Set(s, v)) \/ SendValueChanged(s)
    \/ NotifyReload \/ Receive
    \/ ReadMtime \/ WatchFile \/ UnwatchFile
    \/ WatcherLoop \/ (\E t \in Mtimes : Write(t)) \/ MoveAway

\* The interval ticks; nothing else need happen.
WatcherFairness == WF_watcherVars(WatcherLoop)

WatcherSpec == WatcherInit /\ [][WatcherNext]_watcherVars /\ WatcherFairness

----------------------------------------------------------------------------
\* A subscriber who missed nothing knows the value: once no call is under way
\* and all is read, the values that came in less those that went out leave
\* the current one, in whatever order the announcements of concurrent calls
\* came (config_watcher.rs:71-88).  The last announcement read need not be of
\* the current value.
EventsAddUp ==
    ~missed /\ channel = <<>> /\ (\A s \in Setters : setter[s].pc = "rest")
      => \A v \in Values : balance[v] = IF setting = v THEN 1 ELSE 0

\* A write under watch that gives the file a later time than it ever had is
\* announced, unless it is overwritten by one with an earlier time, the file
\* goes, or the watch is changed: also one that falls between watch_file's
\* reading of the time and its entry, or between a check and its announcement
\* (config_watcher.rs:52-62, 119-157).  Of a write that leaves the time where it
\* was, or sets it back, nothing is said: the loop may never see it (:127).
ModificationIsAnnounced ==
    (owed /\ present /\ watched # Unwatched) ~> ~(owed /\ present /\ watched # Unwatched)
============================================================================
