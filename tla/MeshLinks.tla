------------------------------- MODULE MeshLinks -------------------------------
(***************************************************************************)
(* The central side of the Bluetooth mesh (main.rs): the scan tasks, the   *)
(* links, and the main loop that harvests, installs, checks, uses and      *)
(* resets them.  The loop is one task, the primary and the background scan *)
(* are two more; they share the Bluetooth connections and the blacklist.   *)
(*                                                                         *)
(* The loop visits its stages in order; a stage is one action.  Timers and *)
(* elapsed times are choices: due or not.  This is the build for Linux and *)
(* macOS, where ble_peripheral.rs is a stub.                               *)
(***************************************************************************)
EXTENDS Integers, Sequences, SequencesExt, FiniteSets

CONSTANTS
    Bitchat,        \* devices in range that run bitchat
    Other,          \* devices that look like candidates and do not
    MaxLinks,       \* MESH_MAX_CENTRAL_LINKS
    None,           \* no device
    MaxFlaps,       \* bound: changes of what the radio lets through
    MaxRetries,     \* bound: connection retries the user asks for
    MaxInbox        \* bound: packets waiting in mesh_notify_rx

Device == Bitchat \cup Other

ASSUME DeviceAssumption ==
    IsFiniteSet(Bitchat) /\ IsFiniteSet(Other) /\ Bitchat \cap Other = {} /\ None \notin Device
ASSUME LinkBoundsAssumption ==
    /\ MaxLinks \in Nat \ {0}
    /\ MaxFlaps \in Nat /\ MaxRetries \in Nat /\ MaxInbox \in Nat

VARIABLES
    air,            \* air[d]: what d does: "talking", "silent" or "gone"
    flaps,          \* how often air has changed
    conn,           \* conn[d]: "none", "open", or "streaming": notifications forwarded
    quiet,          \* linked devices not heard for longer than is allowed
    blacklist,      \* temporary_peripheral_blacklist
    non_bitchat,    \* non_bitchat_peripheral_cache
    scan,           \* scan[k]: bt_handle and background_mesh_refresh_handle
    connected_line, \* is a "__CONNECTED__" line in ui_rx?  (Others change nothing.)
    stage,          \* where the main loop is
    mesh_links,     \* installed links, oldest first
    active,         \* peripheral and cmd_char: the link commands write to
    pending,        \* pending[k]: harvested devices not yet initialized
    post_connect_initialized,
    manager,        \* is there a noise_session_manager?
    retry_asked,    \* app.pending_connection_retry
    retries,        \* how often the user asked for one
    inbox,          \* mesh_notify_rx
    recently_left   \* recently_left_mesh_peers, by the device that sent Leave

radioVars == <<air, flaps>>
scanVars  == <<conn, blacklist, non_bitchat, scan, connected_line>>
linkVars  == <<mesh_links, active, quiet>>
setupVars == <<post_connect_initialized, manager>>
retryVars == <<retry_asked, retries>>
rxVars    == <<inbox, recently_left>>
vars == <<radioVars, scanVars, linkVars, setupVars, retryVars, rxVars, stage, pending>>

Scan == {"primary", "background"}
Idle == [state |-> "idle", skipped |-> {}, found |-> <<>>]
Started(skipped) == [state |-> "scanning", skipped |-> skipped, found |-> <<>>]
IsRunning(k) == scan[k].state = "scanning"
IsFinishedOk(k) == scan[k].state = "done"    \* mutant: failed tasks are not taken
IsFinished(k) == scan[k].state \in {"done", "failed"}

Connected == {d \in Device : conn[d] # "none"}
WithConn(devices, state) == [d \in Device |-> IF d \in devices THEN state ELSE conn[d]]

(* What is left of the list s when it keeps the entries at some positions,   *)
(* in their order.                                                           *)
InOrderOf(positions) ==
    CHOOSE at \in [1..Cardinality(positions) -> positions] :
        \A i, j \in DOMAIN at : i < j => at[i] < at[j]
EntriesAt(s, positions) ==
    LET at == InOrderOf(positions) IN [i \in 1..Cardinality(positions) |-> s[at[i]]]
Only(s, devices) == EntriesAt(s, {i \in 1..Len(s) : s[i] \in devices})

Linked == ToSet(mesh_links)

(* The copies in peripheral and cmd_char follow the first link.              *)
FirstOf(links) == IF links = <<>> THEN None ELSE Head(links)

(* last_rx_at goes with its link.                                            *)
QuietForever(links) == quiet         \* mutant: survives its link
StillQuiet(links) == quiet \cap ToSet(links)

Init ==
    /\ air \in [Device -> {"talking", "gone"}] /\ flaps = 0
    /\ conn = [d \in Device |-> "none"] /\ quiet = {}
    /\ blacklist = {} /\ non_bitchat = {}
    /\ scan = [primary |-> Started({}), background |-> Idle]
    /\ connected_line = FALSE
    /\ stage = "harvest"
    /\ mesh_links = <<>> /\ active = None
    /\ pending = [primary |-> <<>>, background |-> <<>>]
    /\ post_connect_initialized = FALSE /\ manager = FALSE
    /\ retry_asked = FALSE /\ retries = 0
    /\ inbox = <<>> /\ recently_left = {}

-----------------------------------------------------------------------------
(* The radio.                                                                *)

(* A device goes silent, leaves or comes back; leaving ends its connection  *)
(* and its notifications.                                                   *)
Flap(d) ==
    /\ flaps < MaxFlaps
    /\ flaps' = flaps + 1
    /\ \E to \in {"talking", "silent", "gone"} \ {air[d]} :
         /\ air' = [air EXCEPT ![d] = to]
         /\ conn' = IF to = "gone" THEN WithConn({d}, "none") ELSE conn
    /\ UNCHANGED <<blacklist, non_bitchat, scan, connected_line, linkVars, setupVars,
                   retryVars, rxVars, stage, pending>>

(* A linked device that does not talk, or that nothing is forwarded from,   *)
(* is at last past MESH_LINK_RX_GRACE or MESH_LINK_STALE_TIMEOUT.           *)
GrowQuiet(d) ==
    /\ d \in Linked \ quiet
    /\ air[d] # "talking" \/ conn[d] # "streaming"
    /\ quiet' = quiet \cup {d}
    /\ UNCHANGED <<radioVars, scanVars, mesh_links, active, setupVars, retryVars,
                   rxVars, stage, pending>>

(* A forwarder task passes on a notification.                               *)
Packets(d) == [from : {d}, type : {"Message", "Announce", "Leave"}]
Notify(d) ==
    /\ conn[d] = "streaming" /\ air[d] = "talking"
    /\ Len(inbox) < MaxInbox
    /\ \E packet \in Packets(d) : inbox' = Append(inbox, packet)
    /\ UNCHANGED <<radioVars, scanVars, linkVars, setupVars, retryVars, recently_left, stage, pending>>

(* An entry of the blacklist or of the cache of other devices expires.      *)
Expire(d) ==
    /\ d \in blacklist \cup non_bitchat
    /\ \/ blacklist' = blacklist \ {d} /\ UNCHANGED non_bitchat
       \/ non_bitchat' = non_bitchat \ {d} /\ UNCHANGED blacklist
    /\ UNCHANGED <<radioVars, conn, scan, connected_line, linkVars, setupVars, retryVars,
                   rxVars, stage, pending>>

-----------------------------------------------------------------------------
(* A scan task: setup_bluetooth_connections.                                 *)

(* What find_peripheral does not pass over.                                  *)
Considers(k, d) == d \notin scan[k].skipped /\ d \notin non_bitchat

(* What it may return.  It prefers some advertisements to others, and is     *)
(* called again after each device: that decides the order only.              *)
IsCandidate(k, d) == IsRunning(k) /\ Considers(k, d)

Skip(k, d) == [scan EXCEPT ![k].skipped = @ \cup {d}]

CandidateBlacklisted(k, d) ==
    /\ IsCandidate(k, d) /\ d \in blacklist
    /\ scan' = Skip(k, d)
    /\ conn' = WithConn({d}, "none")
    /\ UNCHANGED <<blacklist, non_bitchat, connected_line>>

CandidateRefuses(k, d) ==
    /\ IsCandidate(k, d) /\ d \notin blacklist
    /\ conn[d] = "none" /\ air[d] # "talking"
    /\ scan' = Skip(k, d)
    /\ blacklist' = blacklist \cup {d}
    /\ UNCHANGED <<conn, non_bitchat, connected_line>>

(* Connected, but without the bitchat characteristic: either the device has *)
(* others, and is remembered, or its services could not be discovered.      *)
CandidateIsOther(k, d) ==
    /\ IsCandidate(k, d) /\ d \notin blacklist /\ air[d] # "gone"
    /\ d \in Other \/ air[d] = "silent"
    /\ non_bitchat' = IF d \in Other THEN non_bitchat \cup {d} ELSE non_bitchat
    /\ scan' = Skip(k, d)
    /\ conn' = WithConn({d}, "none")
    /\ blacklist' = blacklist \cup {d}
    /\ UNCHANGED connected_line

(* The end of the task; a primary scan that found something says so.        *)
Ended(k, s) ==
    IF k = "primary" /\ s.found = <<>> THEN [s EXCEPT !.state = "failed"]
    ELSE [s EXCEPT !.state = "done"]
SaysConnected(k, s) == connected_line \/ (k = "primary" /\ s.state = "done")

(* The bitchat characteristic is there; the scan goes on until it holds     *)
(* MaxLinks devices.                                                        *)
CandidateIsBitchat(k, d) ==
    /\ IsCandidate(k, d) /\ d \notin blacklist
    /\ d \in Bitchat /\ air[d] # "gone"
    /\ LET more  == [Skip(k, d)[k] EXCEPT !.found = Append(@, d)]
           after == IF Len(more.found) >= MaxLinks THEN Ended(k, more) ELSE more
       IN  /\ scan' = [scan EXCEPT ![k] = after]
           /\ connected_line' = SaysConnected(k, after)
    /\ conn' = IF conn[d] = "none" THEN WithConn({d}, "open") ELSE conn
    /\ non_bitchat' = non_bitchat \ {d}
    /\ UNCHANGED blacklist

(* The timeout, or the grace time after the first device found.             *)
ScanEnds(k) ==
    /\ IsRunning(k)
    /\ LET after == Ended(k, scan[k])
       IN  scan' = [scan EXCEPT ![k] = after] /\ connected_line' = SaysConnected(k, after)
    /\ UNCHANGED <<conn, blacklist, non_bitchat>>

ScanTask(k) ==
    /\ \/ \E d \in Device : \/ CandidateBlacklisted(k, d) \/ CandidateRefuses(k, d)
                            \/ CandidateIsOther(k, d) \/ CandidateIsBitchat(k, d)
       \/ ScanEnds(k)
    /\ UNCHANGED <<radioVars, linkVars, setupVars, retryVars, rxVars, stage, pending>>

-----------------------------------------------------------------------------
(* The main loop, stage by stage.                                            *)

(* Finished scans are harvested.  Without links, and with nothing under     *)
(* way, the primary scan is started again when the retry interval is over.  *)
Harvest(due) ==
    /\ stage = "harvest" /\ stage' = "check"
    /\ LET harvested(k) == scan[k].state = "done" /\ scan[k].found # <<>>
           found == [primary |-> IF harvested("primary") /\ mesh_links = <<>>
                                 THEN scan["primary"].found ELSE pending["primary"],
                     background |-> IF scan["background"].state = "done"
                                    THEN scan["background"].found
                                    ELSE pending["background"]]
           left  == [k \in Scan |-> IF IsFinished(k) THEN Idle ELSE scan[k]]
       IN  /\ pending' = found
           /\ scan' = IF /\ due /\ mesh_links = <<>>
                         /\ \A k \in Scan : left[k] = Idle /\ found[k] = <<>>
                      THEN [left EXCEPT !["primary"] = Started({})]
                      ELSE left
    /\ UNCHANGED <<radioVars, conn, blacklist, non_bitchat, connected_line, linkVars,
                   setupVars, retryVars, rxVars>>

(* retain_connected_mesh_links: quiet links are disconnected and            *)
(* blacklisted, lost ones forgotten.  Then a background scan for more.      *)
Retained == {d \in Device : d \notin quiet /\ conn[d] # "none"}

MayScanBeside(links) ==
    /\ Len(links) < MaxLinks
    /\ \A k \in Scan : scan[k] = Idle /\ pending[k] = <<>>

Check(health_due, scan_due) ==
    /\ stage = "check" /\ stage' = "lines"
    /\ LET checks  == post_connect_initialized /\ health_due
           kept    == IF checks THEN Only(mesh_links, Retained) ELSE mesh_links
           dropped == IF checks THEN quiet ELSE {}
       IN  /\ mesh_links' = kept
           /\ active' = IF kept # mesh_links THEN FirstOf(kept) ELSE active
           /\ quiet' = StillQuiet(kept)
           /\ conn' = WithConn(dropped, "none")
           /\ blacklist' = blacklist \cup dropped
           /\ scan' = IF post_connect_initialized /\ scan_due /\ MayScanBeside(kept)
                      THEN [scan EXCEPT !["background"] = Started(ToSet(kept))]
                      ELSE scan
    /\ UNCHANGED <<radioVars, non_bitchat, connected_line, setupVars, retryVars,
                   rxVars, pending>>

NothingToInstall ==
    IF post_connect_initialized THEN \A k \in Scan : pending[k] = <<>>
    ELSE pending["primary"] = <<>>

(* The UI lines.  "__CONNECTED__" makes the loop wait for whatever primary  *)
(* scan there is, if it has neither links nor devices to install.           *)
ReadLines ==
    /\ stage = "lines"
    /\ stage' = IF /\ connected_line /\ mesh_links = <<>>
                   /\ pending["primary"] = <<>> /\ scan["primary"] # Idle
                THEN "await" ELSE IF NothingToInstall THEN "packets" ELSE "install"
    /\ connected_line' = FALSE
    /\ UNCHANGED <<radioVars, conn, blacklist, non_bitchat, scan, linkVars, setupVars,
                   retryVars, rxVars, pending>>

AwaitPrimary ==
    /\ stage = "await" /\ IsFinished("primary")
    /\ connected_line' = FALSE
    /\ pending' = [pending EXCEPT !["primary"] = scan["primary"].found]
    /\ stage' = IF scan["primary"].found = <<>> /\ NothingToInstall
                THEN "packets" ELSE "install"
    /\ scan' = [scan EXCEPT !["primary"] = Idle]
    /\ UNCHANGED <<radioVars, conn, blacklist, non_bitchat, linkVars, setupVars,
                   retryVars, rxVars>>

(* initialize_mesh_link works on a connection to a device that talks, may   *)
(* work on a silent one, and starts the forwarder.                          *)
Initialized(candidates, works) ==
    Only(candidates, {d \in Device : conn[d] # "none" /\ (air[d] = "talking" \/ d \in works)})

Silent == {d \in Device : air[d] = "silent"}
AbortNothing == scan                  \* mutant: the scan goes on
AbortPrimary == [scan EXCEPT !["primary"] = Idle]

InstallLinks(links, fresh) ==
    /\ mesh_links' = links
    /\ active' = FirstOf(links)
    /\ conn' = WithConn(ToSet(fresh), "streaming")
    /\ quiet' = quiet \ ToSet(fresh)
    /\ scan' = AbortPrimary

(* The first installation creates the session manager, unless no link could *)
(* be initialized.                                                          *)
FirstInstall ==
    /\ stage = "install" /\ ~post_connect_initialized /\ pending["primary"] # <<>>
    /\ post_connect_initialized' = TRUE
    /\ pending' = [pending EXCEPT !["primary"] = <<>>]
    /\ \E works \in SUBSET Silent :
         LET fresh == Initialized(pending["primary"], works)
         IN  \/ /\ fresh = <<>>
                /\ active' = None /\ stage' = "harvest"
                /\ UNCHANGED <<mesh_links, quiet, conn, scan, manager>>
             \/ /\ fresh # <<>>
                /\ InstallLinks(fresh, fresh)
                /\ manager' = TRUE
                /\ stage' = "packets"
    /\ UNCHANGED <<radioVars, blacklist, non_bitchat, connected_line, retryVars, rxVars>>

(* merge_mesh_links: a device is pushed once, and while there is room.       *)
NewOnes(links, fresh) ==
    EntriesAt(fresh, {i \in 1..Len(fresh) :
                         /\ fresh[i] \notin ToSet(links)
                         /\ \A j \in 1..i - 1 : fresh[j] # fresh[i]})
MergeAll(links, fresh) ==             \* mutant: the budget is not looked at
    links \o NewOnes(links, fresh)
Merge(links, fresh) ==
    LET new  == NewOnes(links, fresh)
        room == MaxLinks - Len(links)
    IN  links \o [i \in 1..(IF Len(new) < room THEN Len(new) ELSE room) |-> new[i]]

LaterInstall ==
    /\ stage = "install" /\ post_connect_initialized
    /\ \E k \in Scan : pending[k] # <<>>
    /\ pending' = [k \in Scan |-> <<>>]
    /\ stage' = "packets"
    /\ \E works \in SUBSET Silent :
         LET fresh == Initialized(pending["background"] \o pending["primary"], works)
         IN  IF fresh = <<>> THEN UNCHANGED <<linkVars, conn, scan>>
             ELSE InstallLinks(Merge(mesh_links, fresh), fresh)
    /\ UNCHANGED <<radioVars, blacklist, non_bitchat, connected_line, setupVars,
                   retryVars, rxVars>>

(* One notification.  A Message needs a link, any link, and unwraps the     *)
(* session manager; an Announce of a peer that left starts a background     *)
(* scan, whatever the primary scan does.                                    *)
HandlePacket(cooldown_over) ==
    /\ stage = "packets" /\ post_connect_initialized /\ inbox # <<>>
    /\ inbox' = Tail(inbox)
    /\ LET packet == Head(inbox)
           rejoins == packet.type = "Announce" /\ packet.from \in recently_left
       IN  /\ quiet' = quiet \ {packet.from}
           /\ recently_left' =
                CASE packet.type = "Leave" -> recently_left \cup {packet.from}
                  [] packet.type = "Announce" -> recently_left \ {packet.from}
                  [] OTHER -> recently_left
           /\ scan' = IF rejoins /\ cooldown_over /\ scan["background"] = Idle
                      THEN [scan EXCEPT !["background"] = Started(Linked)]
                      ELSE scan
           /\ stage' = IF packet.type = "Message" /\ mesh_links # <<>> /\ ~manager
                       THEN "panicked" ELSE "packets"
    /\ UNCHANGED <<radioVars, conn, blacklist, non_bitchat, connected_line, mesh_links,
                   active, setupVars, retryVars, pending>>

PacketsDone ==
    /\ stage = "packets" /\ stage' = "reset"
    /\ inbox = <<>> \/ ~post_connect_initialized
    /\ UNCHANGED <<radioVars, scanVars, linkVars, setupVars, retryVars, rxVars, pending>>

(* pending_connection_retry: the links are forgotten without disconnecting  *)
(* them, the scans aborted, a new primary scan started.                     *)
ResetConnections ==
    /\ stage = "reset" /\ stage' = "harvest"
    /\ retry_asked /\ retry_asked' = FALSE
    /\ mesh_links' = <<>> /\ active' = None /\ quiet' = StillQuiet(<<>>)
    /\ pending' = [k \in Scan |-> <<>>]
    /\ post_connect_initialized' = FALSE /\ manager' = FALSE
    /\ scan' = [primary |-> Started({}), background |-> Idle]
    /\ UNCHANGED <<radioVars, conn, blacklist, non_bitchat, connected_line, retries, rxVars>>

(* The periodic announce: links that fail to take it are removed, and then  *)
(* a retry resets the others too.  Not every error counts as a failure.     *)
(* (A pass that resets has no links left to announce on.)                   *)
WriteMayFail == {d \in Linked : conn[d] = "none" \/ air[d] # "talking"}

Announce(due) ==
    /\ stage = "reset" /\ ~retry_asked /\ stage' = "harvest"
    /\ \E failed \in SUBSET WriteMayFail :
         /\ due \/ failed = {}
         /\ mesh_links' = Only(mesh_links, Device \ failed)
         /\ quiet' = StillQuiet(mesh_links')
         /\ IF failed = {} THEN UNCHANGED <<active, retry_asked>>
            ELSE active' = FirstOf(mesh_links') /\ retry_asked' = TRUE
    /\ UNCHANGED <<radioVars, scanVars, setupVars, retries, rxVars, pending>>

(* /r, the retry button, or a failing send of the user's.                   *)
AskRetry ==
    /\ stage = "harvest" /\ retries < MaxRetries
    /\ retries' = retries + 1 /\ retry_asked' = TRUE
    /\ UNCHANGED <<radioVars, scanVars, linkVars, setupVars, rxVars, stage, pending>>

MainLoop ==
    \/ \E due \in BOOLEAN : Harvest(due) \/ HandlePacket(due) \/ Announce(due)
    \/ \E health_due, scan_due \in BOOLEAN : Check(health_due, scan_due)
    \/ ReadLines \/ AwaitPrimary \/ FirstInstall \/ LaterInstall
    \/ PacketsDone \/ ResetConnections

Next ==
    /\ stage # "panicked"
    /\ \/ MainLoop \/ AskRetry
       \/ \E k \in Scan : ScanTask(k)
       \/ \E d \in Device : Flap(d) \/ GrowQuiet(d) \/ Notify(d) \/ Expire(d)

Spec == Init /\ [][Next]_vars

(* The loop goes round; its timers run out; scans end, and find in time     *)
(* what keeps advertising; entries expire and quiet links age.              *)
FairSpec ==
    /\ Spec
    /\ WF_vars(MainLoop)
    /\ SF_vars(Harvest(TRUE))
    /\ SF_vars(Check(TRUE, TRUE))
    /\ \A k \in Scan : WF_vars(ScanTask(k))
    /\ \A k \in Scan : \A d \in Bitchat : SF_vars(ScanTask(k) /\ CandidateIsBitchat(k, d))
    /\ \A d \in Device : WF_vars(GrowQuiet(d)) /\ SF_vars(Expire(d))

-----------------------------------------------------------------------------
(* Properties.                                                               *)

ScanOK(s) ==
    /\ s.state \in {"idle", "scanning", "done", "failed"}
    /\ s.skipped \subseteq Device /\ s.found \in Seq(Bitchat)

(* Type invariant; a mark of silence belongs to an installed link, and only *)
(* devices that run bitchat are ever linked.                                *)
TypeOK ==
    /\ air \in [Device -> {"talking", "silent", "gone"}] /\ flaps \in 0..MaxFlaps
    /\ conn \in [Device -> {"none", "open", "streaming"}] /\ quiet \subseteq Linked
    /\ blacklist \subseteq Device /\ non_bitchat \subseteq Other
    /\ ScanOK(scan["primary"]) /\ ScanOK(scan["background"])
    /\ stage \in {"harvest", "check", "lines", "await", "install", "packets", "reset",
                  "panicked"}
    /\ mesh_links \in Seq(Bitchat) /\ active \in Bitchat \cup {None}
    /\ \A k \in Scan : pending[k] \in Seq(Bitchat)
    /\ {connected_line, post_connect_initialized, manager, retry_asked} \subseteq BOOLEAN
    /\ retries \in 0..MaxRetries
    /\ inbox \in Seq(UNION {Packets(d) : d \in Bitchat}) /\ recently_left \subseteq Bitchat

(* No primary scan runs, or waits to be harvested, beside an installed      *)
(* link, whichever scan found the link and whatever aborted or restarted    *)
(* scans meanwhile: a scan without exclusions would reconnect the links.    *)
(* The test for links where its result is harvested never fails for that.   *)
PrimaryOnlyWithoutLinks == mesh_links # <<>> => scan["primary"] = Idle

(* The links stay within MESH_MAX_CENTRAL_LINKS and are different devices,  *)
(* although both scans may have found the same devices at the same time.    *)
LinkBudget == Len(mesh_links) <= MaxLinks /\ Cardinality(Linked) = Len(mesh_links)

(* Once the radio has settled, with no half-open device about, a device     *)
(* that talks is linked for good, or the budget is full: no sequence of     *)
(* aborted scans, stale lines, blacklisting, resets and failed              *)
(* installations leaves the loop without a scan that would find it.         *)
TalkingIsLinked ==
    \A d \in Bitchat :
        <>[](air[d] = "talking" /\ Silent = {}) =>
            \/ <>(stage = "panicked")
            \/ <>[](Len(mesh_links) = MaxLinks \/ d \in Linked)
=============================================================================
