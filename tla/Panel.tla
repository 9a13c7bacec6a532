------------------------------- MODULE Panel -------------------------------
(***************************************************************************)
(* What the app asks of the core while nothing is connected: the relay     *)
(* list, delay tests, the capture mode and the tunnel's DNS servers.  The  *)
(* app's threads (RelayDirectory.cpp, ServersPage.xaml.cpp,                *)
(* SettingsPage.xaml.cpp, CoreSupervisor.cpp), the core's handlers         *)
(* (core/api.go), and what these share: the directory cache                *)
(* (connectcore/directory.go), settings.json, and the engine's settings.   *)
(*                                                                         *)
(* A thread makes one request after the other, so a job is both.           *)
(***************************************************************************)
EXTENDS Env, Functions

CONSTANTS Broker,      \* the core's configured broker URL, None without one
          Saves,       \* SaveDns's threads, one of a settings page
          Modes,       \* the capture modes: "proxy", or "tun" for the whole device
          ServerLists, \* the DNS servers that may be asked for
          MaxServers,  \* maxTunnelDNSServers
          Refresh,     \* MinDirectoryRefreshInterval
          Validities,  \* how long a fetched list may be served again
          MaxJobs,     \* bound on the jobs under way at once
          Mixed        \* bound: whether lists and settings are dealt with at once

VARIABLES
    mode, dns,   \* the engine's: s.mode and s.tunnelDNSServers
    elevated,    \* the core has the privileges a tunnel device takes
    file,        \* settings.json
    settingsMu,  \* the job that holds it, or None
    cache,       \* the directory cache's list, None without one
    flight,      \* the job that holds flightMu, or None
    job          \* where each thread of the app is

settingsVars  == <<mode, dns, elevated, file, settingsMu>>
directoryVars == <<cache, flight>>
panelVars     == <<settingsVars, directoryVars, job>>

Loads == {"update", "refresh"}       \* UpdateFromRemote's, StartAutoRefresh's
Sets  == {"combo", "sync"}           \* ModeCombo's, SyncPreferredMode's
Jobs  == Loads \cup Saves \cup Sets \cup {"test"}

ASSUME PanelAssumption ==
    /\ None \notin Jobs /\ Saves \cap (Loads \cup Sets \cup {"test"}) = {}
    /\ Modes \subseteq {"proxy", "tun"}

Off     == [at |-> "off", arg |-> None, got |-> None]
Busy(j) == job[j].at # "off"
Quiet   == \A j \in Jobs : ~Busy(j)

Unset == [mode |-> "proxy", dns |-> <<>>]

PanelInit ==
    /\ mode = Unset.mode /\ dns = Unset.dns /\ elevated = FALSE
    /\ file = Unset /\ settingsMu = None /\ cache = None /\ flight = None
    /\ job = [j \in Jobs |-> Off]

\* Settings and lists share the core and, when a relay is tested, the mode.
SameKind(j, k) == j \in Saves \cup Sets <=> k \in Saves \cup Sets

\* A thread starts, goes on, or ends; an error the core answers with ends it too.
Begins(j, at, arg) ==
    /\ ~Busy(j) /\ Cardinality({k \in Jobs : Busy(k)}) < MaxJobs
    /\ Mixed \/ \A k \in Jobs : Busy(k) => SameKind(j, k)
    /\ job' = [job EXCEPT ![j] = [Off EXCEPT !.at = at, !.arg = arg]]
    /\ UNCHANGED <<settingsVars, directoryVars>>
To(j, at) == job' = [job EXCEPT ![j] = IF at = "off" THEN Off ELSE [@ EXCEPT !.at = at]]

-----------------------------------------------------------------------------
(* The directory cache *)

\* Mutant: a list is served whichever broker it came from.
snapshotForAny(url, withinInterval) ==
    /\ cache # None /\ cache.left > 0
    /\ withinInterval => cache.age < Refresh

\* The cached list is this broker's and still within its bound; and, for a hit, it is
\* not yet time to ask again.
snapshotFor(url, withinInterval) ==
    /\ cache # None /\ cache.url = url /\ cache.left > 0
    /\ withinInterval => cache.age < Refresh

\* The list page is of the configured broker, tests take the default ones'.
URLOf(j) == IF j = "test" THEN None ELSE Broker

\* The job has its list: which one is for ListsSound.
Served(j, list) ==
    job' = [job EXCEPT ![j].at = "listed",
                       ![j].got = IF list.url # URLOf(j) THEN "other"
                                  ELSE IF list.left = 0 THEN "expired" ELSE "good"]

\* flightMu is taken: the list is there, or has to be fetched.
fetch(j) ==
    /\ job[j].at = "list" /\ flight = None
    /\ \/ snapshotFor(URLOf(j), TRUE) /\ Served(j, cache) /\ UNCHANGED flight
       \/ ~snapshotFor(URLOf(j), TRUE) /\ To(j, "fetch") /\ flight' = j
    /\ UNCHANGED <<cache, settingsVars>>

\* A broker answers; or none does, and the last list is served if it still may be.
fetcher(j) ==
    /\ job[j].at = "fetch" /\ flight' = None
    /\ \/ /\ \E left \in Validities : cache' = [url |-> URLOf(j), age |-> 0, left |-> left]
          /\ job' = [job EXCEPT ![j].at = "listed", ![j].got = "good"]
       \/ snapshotFor(URLOf(j), FALSE) /\ Served(j, cache) /\ UNCHANGED cache
       \/ ~snapshotFor(URLOf(j), FALSE) /\ To(j, "off") /\ UNCHANGED cache
    /\ UNCHANGED settingsVars

\* Time goes by.
Ageing ==
    /\ cache # None
    /\ cache' = [cache EXCEPT !.age = IF @ < Refresh THEN @ + 1 ELSE @,
                              !.left = IF @ > 0 THEN @ - 1 ELSE @]
    /\ UNCHANGED <<settingsVars, flight, job>>

-----------------------------------------------------------------------------
(* Lists and tests *)

\* store.Loading(): UpdateFromRemote and the timer look at it, only the former sets it.
UpdateFromRemote == Begins("update", "list", None)
StartAutoRefresh == ~Busy("update") /\ Begins("refresh", "list", None)

\* The relays are ranked and replace those shown.
Load(j) ==
    /\ j \in Loads /\ job[j].at = "listed" /\ To(j, "off")
    /\ UNCHANGED <<settingsVars, directoryVars>>

\* store.Testing() lets one test run at a time.  RealDelay_Click asks for the mode
\* too, if it reaches the core, and TestRelayDelay looks again.
Tcping_Click    == Begins("test", "list", "tcping")
RealDelay_Click == Begins("test", "ask", "real")

TcpingRelays ==
    /\ job["test"].at = "listed" /\ job["test"].arg = "tcping" /\ To("test", "off")
    /\ UNCHANGED <<settingsVars, directoryVars>>

\* One relay after the other is tested over a tunnel that is thrown away: if it may be,
\* if it is listed, if the proxy's port is free, and if a rung of the ladder works.
\* RealDelay throws if not, and the others are not tested.
TestRelayDelay ==
    /\ job["test"].arg = "real"
    /\ \/ job["test"].at = "ask" /\ To("test", IF mode = "tun" THEN "off" ELSE "list")
       \/ job["test"].at = "listed" /\ \E at \in {"ask", "off"} : To("test", at)
    /\ UNCHANGED <<settingsVars, directoryVars>>

-----------------------------------------------------------------------------
(* Settings *)

\* m_dnsBusy is a page's own, and the mode's selector has no match for it.
SaveDns == \E j \in Saves, servers \in ServerLists : Begins(j, "set", servers)
ModeCombo_SelectionChanged == \E m \in Modes : Begins("combo", "set", m)

\* The app starts, with any preference.
SyncPreferredMode ==
    \/ \E m \in Modes : Begins("sync", "state", m)
    \/ /\ job["sync"].at = "state"
       /\ To("sync", IF mode # job["sync"].arg THEN "set"
                     ELSE IF mode = "tun" /\ ~elevated THEN "offer" ELSE "off")
       /\ UNCHANGED <<settingsVars, directoryVars>>

\* Not too many, and no host names: nothing could resolve them.
SetTunnelDNS(j) ==
    /\ j \in Saves /\ job[j].at = "set"
    /\ LET servers == job[j].arg IN
       IF Len(servers) > MaxServers \/ "name" \in Range(servers)
       THEN To(j, "off") /\ UNCHANGED dns
       ELSE To(j, "load") /\ dns' = servers
    /\ UNCHANGED <<mode, elevated, file, settingsMu, directoryVars>>

\* tunModeAvailable, then SetMode: refused for want of privileges, these are offered.
handleMode(j) ==
    /\ j \in Sets /\ job[j].at = "set"
    /\ IF job[j].arg = "tun" /\ ~elevated THEN To(j, "offer") /\ UNCHANGED mode
       ELSE To(j, "load") /\ mode' = job[j].arg
    /\ UNCHANGED <<dns, elevated, file, settingsMu, directoryVars>>

\* Mutant: the file is read before settingsMu is taken.
loadSettingsUnlocked(j) ==
    /\ job[j].at = "load"
    /\ settingsMu' = j
    /\ \E got \in {file, None} : job' = [job EXCEPT ![j].at = "save", ![j].got = got]
    /\ UNCHANGED <<mode, dns, elevated, file, directoryVars>>

\* Under settingsMu the file is read, and written with one half changed.  A file that
\* cannot be read or parsed counts as one that says nothing; here it is None.
loadSettings(j) ==
    /\ job[j].at = "load"
    /\ settingsMu = None /\ settingsMu' = j
    /\ \E got \in {file, None} : job' = [job EXCEPT ![j].at = "save", ![j].got = got]
    /\ UNCHANGED <<mode, dns, elevated, file, directoryVars>>

Contents(got) == IF got = None THEN Unset ELSE got
\* The half that a job does not save.
Half(j, f) == IF j \in Saves THEN f.mode ELSE f.dns

\* A file that cannot be written or renamed into place stays as it was.
saveSettings(j) ==
    /\ job[j].at = "save" /\ To(j, "off") /\ settingsMu' = None
    /\ \/ file' = IF j \in Saves THEN [Contents(job[j].got) EXCEPT !.dns = job[j].arg]
                  ELSE [Contents(job[j].got) EXCEPT !.mode = job[j].arg]
       \/ UNCHANGED file
    /\ UNCHANGED <<mode, dns, elevated, directoryVars>>

\* A new core: what the file says, if it can be read, no list, and no request has
\* survived.
restoreMode(privileged, jobs) ==
    /\ \E got \in {file, None} : mode' = Contents(got).mode /\ dns' = Contents(got).dns
    /\ elevated' = privileged
    /\ settingsMu' = None /\ cache' = None /\ flight' = None
    /\ job' = jobs /\ UNCHANGED file
Dropped == [j \in Jobs |-> IF job[j].at = "offer" THEN job[j] ELSE Off]

\* The core dies, and is launched again without privileges.
CoreDies == restoreMode(FALSE, Dropped)

\* The user is asked for them: the core is restarted with them and the mode set, or not.
RestartElevated(j) ==
    /\ job[j].at = "offer"
    /\ restoreMode(TRUE, [Dropped EXCEPT ![j].at = "set"])
Declined(j) ==
    /\ job[j].at = "offer" /\ To(j, "off") /\ UNCHANGED <<settingsVars, directoryVars>>

-----------------------------------------------------------------------------
PanelStep ==
    \/ UpdateFromRemote \/ StartAutoRefresh \/ Tcping_Click \/ RealDelay_Click
    \/ SaveDns \/ ModeCombo_SelectionChanged \/ SyncPreferredMode
    \/ TcpingRelays \/ TestRelayDelay \/ CoreDies \/ Ageing
    \/ \E j \in Jobs :
         \/ fetch(j) \/ fetcher(j) \/ Load(j) \/ SetTunnelDNS(j) \/ handleMode(j)
         \/ loadSettings(j) \/ saveSettings(j) \/ RestartElevated(j) \/ Declined(j)

\* A connect is asked for, and not refused for want of privileges.  What it does not
\* need again is forgotten.
handleConnect ==
    /\ Quiet /\ (mode = "tun" => elevated)
    /\ dns' = Unset.dns /\ elevated' = FALSE /\ file' = Unset /\ cache' = None
    /\ UNCHANGED <<mode, settingsMu, flight, job>>

-----------------------------------------------------------------------------
(* What holds throughout *)

JobFields == {"at", "arg", "got"}
JobInv == DOMAIN job = Jobs /\ \A j \in Jobs : JobFields \subseteq DOMAIN job[j]

\* One job fetches, and only what the cache does not have; a list is a good one.
ListInv ==
    /\ cache # None => {"url", "age", "left"} \subseteq DOMAIN cache
    /\ \A j \in Jobs :
         /\ job[j].at = "listed" => job[j].got = "good"
         /\ job[j].at = "fetch" => flight = j /\ ~snapshotFor(URLOf(j), TRUE)

\* The one job that holds settingsMu has read what the file still says, or nothing.
FileInv ==
    /\ {"mode", "dns"} \subseteq DOMAIN file
    /\ \A j \in Jobs : job[j].at = "save" => settingsMu = j /\ job[j].got \in {file, None}

\* A mode that is set, saved or being asked for is one of the two there are.
CaptureModes == {"proxy", "tun"}
Asked == {"state", "set", "load", "save", "offer"}
ModeInv ==
    /\ mode \in CaptureModes /\ file.mode \in CaptureModes
    /\ \A j \in Jobs \ Saves : job[j].at \in Asked => job[j].arg \in CaptureModes

PanelInv == JobInv /\ ListInv /\ FileInv /\ ModeInv
=============================================================================
