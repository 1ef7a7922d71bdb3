----------------------------- MODULE AccessDevices -----------------------------
(***************************************************************************)
(* The certificates of devices: requests of the backend (routers/access.py) *)
(* call, through a Unix socket, a helper on the host that signs, hands out   *)
(* and revokes them (deploy/mtls-helper/service.py) and makes nginx load the *)
(* revocation list.  The helper takes one request at a time and finishes     *)
(* those nobody waits for any more.                                         *)
(***************************************************************************)
EXTENDS Integers, Sequences

CONSTANTS
    Clients,       \* requests the backend serves at a time
    MaxSerial,     \* certificates the helper may sign
    Existing,      \* serials signed by hand before there was a helper
    MaxFaults

ASSUME AccessAssumption ==
    /\ MaxSerial \in Nat /\ MaxFaults \in Nat /\ "gone" \notin Clients
    /\ Existing \cap (1..MaxSerial) = {} /\ 0 \notin Existing

VARIABLES
    row,           \* access_devices by serial, the deleted ones included
    client,        \* the requests being served
    inbox, helper, \* requests in the socket, and the one being worked on
    signed,        \* serials the helper has signed
    revoked,       \* those with R in index.txt
    packages,      \* the .p12 files waiting for their download
    crl, loaded,   \* the list in crl.pem, and the one nginx works with
    faults

accessVars == <<row, client, inbox, helper, signed, revoked, packages, crl, loaded, faults>>

Serials == 1..MaxSerial \cup Existing
NoRow   == [status |-> "none", package |-> FALSE, deleted |-> FALSE]
Active(available) == [status |-> "active", package |-> available, deleted |-> FALSE]
NoRequest == [pc |-> "idle"]
Resting == [pc |-> "idle"]
Gone    == "gone"   \* the client of a request nobody waits for

AccessInit ==
    /\ row = [s \in Serials |-> NoRow]
    /\ client = [c \in Clients |-> NoRequest] /\ inbox = <<>> /\ helper = Resting
    /\ signed = {} /\ revoked = {} /\ packages = {} /\ crl = {} /\ loaded = {} /\ faults = 0

Fault == faults < MaxFaults /\ faults' = faults + 1

------------------------------------------------------- (* The backend *)
(* helper_call: the request goes into the socket and the client waits.      *)
Call(c, operation, call, s) ==
    /\ client' = [client EXCEPT ![c] = [pc |-> "waiting", operation |-> operation, serial |-> s]]
    /\ inbox' = Append(inbox, [call |-> call, serial |-> s, client |-> c])

(* create_device, revoke_device, delete_device, replace_certificate and      *)
(* download_certificate, from a row as it is read; register_existing.       *)
Request(c) ==
    /\ client[c].pc = "idle"
    /\ \/ Call(c, "create", "issue", 0)
       \/ \E s \in Existing : Call(c, "register", "register", s)
       \/ \E s \in Serials :
            /\ row[s].status # "none" /\ ~row[s].deleted
            /\ \/ \E o \in {"revoke", "delete", "replace"} : Call(c, o, "revoke", s)
               \/ row[s].package /\ Call(c, "download", "download", s)
    /\ UNCHANGED <<row, helper, signed, revoked, packages, crl, loaded, faults>>

(* After 120 seconds the client answers 502; the helper knows nothing of it. *)
Abandon(c, r) == IF r.client = c THEN [r EXCEPT !.client = Gone] ELSE r
TimeOut(c) ==
    /\ client[c].pc = "waiting" /\ Fault
    /\ client' = [client EXCEPT ![c] = NoRequest]
    /\ inbox' = [i \in DOMAIN inbox |-> Abandon(c, inbox[i])]
    /\ helper' = IF helper = Resting THEN Resting ELSE Abandon(c, helper)
    /\ UNCHANGED <<row, signed, revoked, packages, crl, loaded>>

(* What an answered request writes: a new row, the end of the package, or    *)
(* the row as revoked.                                                      *)
AnsweredRow(c) ==
    LET s == client[c].serial IN
    CASE client[c].operation \in {"create", "issued"} -> Active(TRUE)
      [] client[c].operation = "register" -> IF row[s] = NoRow THEN Active(FALSE) ELSE row[s]
      [] client[c].operation = "download" -> [row[s] EXCEPT !.package = FALSE]
      [] OTHER -> [row[s] EXCEPT !.status = "revoked", !.package = FALSE]

(* The answer and the commit; a deletion has a second commit, a replacement  *)
(* goes on with a new certificate.                                          *)
Save(c) ==
    LET s == client[c].serial IN
    /\ client[c].pc = "answered"
    /\ row' = [row EXCEPT ![s] = AnsweredRow(c)]
    /\ CASE client[c].operation = "replace" -> Call(c, "issued", "issue", 0)
         [] client[c].operation = "delete" ->
              client' = [client EXCEPT ![c].pc = "deleting"] /\ UNCHANGED inbox
         [] OTHER -> client' = [client EXCEPT ![c] = NoRequest] /\ UNCHANGED inbox
    /\ UNCHANGED <<helper, signed, revoked, packages, crl, loaded, faults>>

DeleteRow(c) ==
    /\ client[c].pc = "deleting" /\ client' = [client EXCEPT ![c] = NoRequest]
    /\ row' = [row EXCEPT ![client[c].serial].deleted = TRUE]
    /\ UNCHANGED <<inbox, helper, signed, revoked, packages, crl, loaded, faults>>

(* The commit fails or the backend dies with the answer.                    *)
SaveFails(c) ==
    /\ client[c].pc \in {"answered", "deleting"} /\ Fault
    /\ client' = [client EXCEPT ![c] = NoRequest]
    /\ UNCHANGED <<row, inbox, helper, signed, revoked, packages, crl, loaded>>

-------------------------------------------------------- (* The helper *)
(* The answer, if anybody still waits for it.                               *)
Answer(s) ==
    IF helper.client = Gone THEN UNCHANGED client
    ELSE client' = [client EXCEPT ![helper.client].pc = "answered", ![helper.client].serial = s]
Refuse ==
    /\ helper' = Resting
    /\ IF helper.client = Gone THEN UNCHANGED client
       ELSE client' = [client EXCEPT ![helper.client] = NoRequest]

HelperAt(l)  == helper.pc = l
HelperGo(l)  == helper' = [helper EXCEPT !.pc = l]

Take ==
    /\ HelperAt("idle") /\ inbox # <<>>
    /\ helper' = [pc |-> Head(inbox).call, serial |-> Head(inbox).serial,
                  client |-> Head(inbox).client, previous |-> {}]
    /\ inbox' = Tail(inbox)
    /\ UNCHANGED <<row, client, signed, revoked, packages, crl, loaded, faults>>

(* issue: openssl ca signs ...                                              *)
Sign ==
    /\ HelperAt("issue")
    /\ \E s \in 1..MaxSerial :
         /\ s \notin signed /\ \A t \in 1..(s - 1) : t \in signed
         /\ signed' = signed \cup {s}
         /\ helper' = [helper EXCEPT !.pc = "package", !.serial = s]
    /\ UNCHANGED <<row, client, inbox, revoked, packages, crl, loaded, faults>>
SignFails ==
    /\ HelperAt("issue") /\ Refuse
    /\ UNCHANGED <<row, inbox, signed, revoked, packages, crl, loaded, faults>>

(* ... then come the package, its password and its token.                   *)
Pack ==
    /\ HelperAt("package") /\ packages' = packages \cup {helper.serial}
    /\ Answer(helper.serial) /\ helper' = Resting
    /\ UNCHANGED <<row, inbox, signed, revoked, crl, loaded, faults>>

(* download: the package leaves the disk before it leaves the socket.       *)
Download ==
    /\ HelperAt("download")
    /\ IF helper.serial \in packages
       THEN Answer(helper.serial) /\ helper' = Resting ELSE Refuse
    /\ packages' = packages \ {helper.serial}
    /\ UNCHANGED <<row, inbox, signed, revoked, crl, loaded, faults>>

Register ==
    /\ HelperAt("register") /\ Answer(helper.serial) /\ helper' = Resting
    /\ UNCHANGED <<row, inbox, signed, revoked, packages, crl, loaded, faults>>

(* Mutant of Revoke: nothing is left to do for a serial revoked before.     *)
RevokeOnce ==
    /\ HelperAt("revoke") /\ revoked' = revoked \cup {helper.serial}
    /\ HelperGo(IF helper.serial \in revoked THEN "unpack" ELSE "list")
    /\ UNCHANGED <<row, client, inbox, signed, packages, crl, loaded, faults>>

(* revoke: R in index.txt, where it may be already, even when the command    *)
(* that writes it fails.                                                    *)
Revoke ==
    /\ HelperAt("revoke") /\ HelperGo("list") /\ revoked' = revoked \cup {helper.serial}
    /\ UNCHANGED <<row, client, inbox, signed, packages, crl, loaded, faults>>

(* The command fails before it has written anything.                        *)
RevokeFails ==
    /\ HelperAt("revoke") /\ helper.serial \notin revoked /\ Fault /\ Refuse
    /\ UNCHANGED <<row, inbox, signed, revoked, packages, crl, loaded>>

(* apply_crl: the whole index as a list over crl.pem, the old one kept ...   *)
WriteCrl ==
    /\ HelperAt("list") /\ crl' = revoked
    /\ helper' = [helper EXCEPT !.pc = "reload", !.previous = crl]
    /\ UNCHANGED <<row, client, inbox, signed, revoked, packages, loaded, faults>>

(* ... and loaded by nginx ...                                              *)
Reload ==
    /\ HelperAt("reload") /\ loaded' = crl /\ HelperGo("unpack")
    /\ UNCHANGED <<row, client, inbox, signed, revoked, packages, crl, faults>>

(* ... or put back, when the reload fails or is not answered in a minute.   *)
ReloadFails ==
    /\ HelperAt("reload") /\ Fault /\ loaded' \in {loaded, crl}
    /\ crl' = helper.previous /\ Refuse
    /\ UNCHANGED <<row, inbox, signed, revoked, packages>>

Unpack ==
    /\ HelperAt("unpack") /\ packages' = packages \ {helper.serial}
    /\ Answer(helper.serial) /\ helper' = Resting
    /\ UNCHANGED <<row, inbox, signed, revoked, crl, loaded, faults>>

(* cleanup_packages: a thread of its own, ten minutes after each issue.     *)
CleanUpPackage ==
    /\ \E s \in packages : packages' = packages \ {s}
    /\ UNCHANGED <<row, client, inbox, helper, signed, revoked, crl, loaded, faults>>

(* The helper dies: what it has been sent is answered by a closed socket.   *)
HelperRestarts ==
    /\ Fault /\ helper' = Resting /\ inbox' = <<>>
    /\ client' = [c \in Clients |-> IF client[c].pc = "waiting" THEN NoRequest ELSE client[c]]
    /\ UNCHANGED <<row, signed, revoked, packages, crl, loaded>>

(* nginx starts again, with the file as it is.                              *)
NginxRestarts ==
    /\ loaded # crl /\ loaded' = crl
    /\ UNCHANGED <<row, client, inbox, helper, signed, revoked, packages, crl, faults>>

ClientStep(c) == Request(c) \/ TimeOut(c) \/ Save(c) \/ DeleteRow(c) \/ SaveFails(c)
HelperStep ==
    \/ Take \/ Sign \/ SignFails \/ Pack \/ Download \/ Register
    \/ Revoke \/ RevokeFails \/ WriteCrl \/ Reload \/ ReloadFails \/ Unpack
AccessNext ==
    (\E c \in Clients : ClientStep(c)) \/ HelperStep
        \/ CleanUpPackage \/ HelperRestarts \/ NginxRestarts
AccessSpec == AccessInit /\ [][AccessNext]_accessVars

---------------------------------------------------------- (* Properties *)
Operations == {"create", "register", "revoke", "delete", "replace", "issued", "download"}
Calls      == {"issue", "register", "revoke", "download"}
ServedRequest ==
    [pc : {"waiting", "answered", "deleting"}, serial : Serials \cup {0}, operation : Operations]
SocketMessage == [call : Calls, serial : Serials \cup {0}, client : Clients \cup {Gone}]
HelperWork ==
    [pc : {"issue", "package", "download", "register", "revoke", "list", "reload", "unpack"},
     serial : Serials \cup {0}, client : Clients \cup {Gone}, previous : SUBSET Serials]
AccessTypeOK ==
    /\ row \in [Serials -> [status : {"none", "active", "revoked"},
                            package : BOOLEAN, deleted : BOOLEAN]]
    /\ client \in [Clients -> {NoRequest} \cup ServedRequest]
    /\ inbox \in Seq(SocketMessage)
    /\ helper \in {Resting} \cup HelperWork
    /\ signed \subseteq 1..MaxSerial /\ packages \subseteq signed
    /\ revoked \subseteq Serials /\ crl \subseteq Serials /\ loaded \subseteq Serials
    /\ faults \in Nat

(* A device the table shows as revoked or deleted stays outside: nginx works *)
(* with a list that has its certificate, the file it would load at a restart *)
(* has it too, whatever another revocation puts back, and no package of it   *)
(* can be downloaded.  Without faults, every certificate the helper has      *)
(* signed is in the table, or on its way there.                             *)
RevocationTakesHold ==
    /\ \A s \in Serials :
         row[s].status = "revoked" \/ row[s].deleted =>
             /\ row[s].status = "revoked" /\ s \in loaded \cap crl
             /\ s \notin packages /\ ~row[s].package
    /\ faults = 0 => \A s \in signed :
         \/ row[s] # NoRow
         \/ helper.pc = "package" /\ helper.serial = s
         \/ \E c \in Clients : client[c].pc = "answered" /\ client[c].serial = s
               /\ client[c].operation \in {"create", "issued"}
=============================================================================
