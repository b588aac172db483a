----------------------------- MODULE FolderPolicy -----------------------------
(***************************************************************************)
(* The Proof-of-Work policy of a folder and its seal, from the creation of *)
(* the folder through every start of the server.                           *)
(*                                                                         *)
(* The seal is an HMAC of the policy's numbers, printed with fixed digits, *)
(* under the master key that the file holds at that moment.  Every reader  *)
(* of a folder computes it anew, compares it with the stored one, and      *)
(* fills it in where a folder of an older version has none.  A start of    *)
(* the server does that for all folders before it serves anybody, if it    *)
(* finds the key.                                                          *)
(*                                                                         *)
(* The numbers of a policy are one number here, counted in the last digit  *)
(* its column keeps.                                                       *)
(***************************************************************************)
EXTENDS Naturals

CONSTANTS Keys,      \* contents of the master key file
          Folders,   \* identities of protected_folders rows
          Requests,  \* requests in progress at the same time
          Values,    \* positive numbers that a policy may ask for
          MaxFaults, \* ends of the process and replacements of the key file
          None

ASSUME ValuesHaveDigits ==
  Values \subseteq [digits : Nat, more : {"none", "printed down", "printed up"}]
ASSUME SomeFaults == MaxFaults \in Nat

Seal == [key : Keys, digits : Nat]

ASSUME NoneIsNoValue == None \notin Keys \cup Folders \cup Values \cup Seal

VARIABLES key,      \* what the master key file holds, or None: missing or unusable
          folders,  \* protected_folders
          default,  \* required_hashrate_ths of system_settings
          server,   \* the process and its check of the seals
          req,      \* progress of each request
          faults

policyVars == <<key, folders, default, server, req, faults>>

-----------------------------------------------------------------------------
(* A value with more digits than the column keeps is a tie here: any other  *)
(* rounds the same way twice.  The column rounds the decimal number, and a  *)
(* tie goes up.  Printf prints the binary number that stands for it, which  *)
(* may lie on either side.                                                  *)

Column(v) == IF v.more = "none" THEN v.digits ELSE v.digits + 1

Printed(v) == IF v.more = "printed up" THEN v.digits + 1 ELSE v.digits

Folder == [status : {"none", "active", "deleted"}, digits : Nat, seal : Seal \cup {None}]
Request == [pc : {"idle", "create", "reload", "verify", "fill", "accepted"},
            folder : Folders \cup {None}, value : Values \cup {None},
            digits : Nat, seal : Seal \cup {None}]
Server == [pc : {"down", "boot", "up"}, left : SUBSET Folders, verified : BOOLEAN]

NoFolder == [status |-> "none", digits |-> 0, seal |-> None]
OldFolder(n) == [status |-> "active", digits |-> n, seal |-> None]
Idle == [pc |-> "idle", folder |-> None, value |-> None, digits |-> 0, seal |-> None]
Down == [pc |-> "down", left |-> {}, verified |-> FALSE]

TypeOK ==
  /\ key \in Keys \cup {None}
  /\ folders \in [Folders -> Folder]
  /\ default \in Values
  /\ server \in Server
  /\ req \in [Requests -> Request]
  /\ faults \in 0 .. MaxFaults

\* The tables as the migrations leave them: the folders there are have a policy
\* that was computed in the database, and no seal
PolicyInit ==
  /\ key \in Keys \cup {None}
  /\ folders \in [Folders -> {NoFolder, OldFolder(1)}]
  /\ default \in Values
  /\ server = Down
  /\ req = [r \in Requests |-> Idle]
  /\ faults = 0

-----------------------------------------------------------------------------
Active(f) == folders[f].status = "active"
Sealed(f) == folders[f].seal # None
SealOf(n) == [key |-> key, digits |-> n]
Goto(r, record) == req' = [req EXCEPT ![r] = record]

\* Variant of Filled: the row is not looked at
FilledAnyway(row, seal) == [row EXCEPT !.seal = seal]

\* UPDATE of the seal where the folder is active and has none; the trigger
\* refuses a change of a seal that is there, and of the numbers
Filled(row, seal) ==
  IF row.status = "active" /\ row.seal = None THEN [row EXCEPT !.seal = seal] ELSE row

-----------------------------------------------------------------------------
(* The start of the server.                                                 *)

\* Variant of Candidates: deleted folders too
CandidatesWithDeleted == {f \in Folders : folders[f].status # "none"}

Candidates == {f \in Folders : Active(f)}

\* Without a key the check is postponed to whoever reads a folder
Start ==
  /\ server.pc = "down"
  /\ server' = IF key # None
               THEN [pc |-> "boot", left |-> Candidates, verified |-> TRUE]
               ELSE [pc |-> "up", left |-> {}, verified |-> FALSE]
  /\ UNCHANGED <<key, folders, default, req, faults>>

\* Variant of BootVerify: a folder whose seal cannot be computed is passed over
BootVerifySkipping(f) ==
  /\ server.pc = "boot" /\ f \in server.left
  /\ folders' = [folders EXCEPT ![f] =
                   IF key = None THEN @ ELSE Filled(@, SealOf(folders[f].digits))]
  /\ server' = IF key = None \/ folders[f].seal \in {None, SealOf(folders[f].digits)}
               THEN [server EXCEPT !.left = @ \ {f}] ELSE Down
  /\ UNCHANGED <<key, default, req, faults>>

\* One folder; an error ends the process.  A missing seal is filled in, and
\* whether the UPDATE matched a row is not asked
BootVerify(f) ==
  /\ server.pc = "boot" /\ f \in server.left
  /\ folders' = [folders EXCEPT ![f] =
                   IF key = None THEN @ ELSE Filled(@, SealOf(folders[f].digits))]
  /\ server' = IF key # None /\ folders[f].seal \in {None, SealOf(folders[f].digits)}
               THEN [server EXCEPT !.left = @ \ {f}] ELSE Down
  /\ UNCHANGED <<key, default, req, faults>>

BootDone ==
  /\ server.pc = "boot" /\ server.left = {}
  /\ server' = [server EXCEPT !.pc = "up"]
  /\ UNCHANGED <<key, folders, default, req, faults>>

\* The process ends, at any moment
Crash ==
  /\ server.pc # "down" /\ faults < MaxFaults
  /\ server' = Down
  /\ req' = [r \in Requests |-> Idle]
  /\ faults' = faults + 1
  /\ UNCHANGED <<key, folders, default>>

\* The operator replaces, removes or restores the key file
ReplaceKey(k) ==
  /\ k # key /\ faults < MaxFaults
  /\ key' = k
  /\ faults' = faults + 1
  /\ UNCHANGED <<folders, default, server, req>>

-----------------------------------------------------------------------------
(* Requests.                                                                *)

\* handleSettings of the access service
UpdateDefault(v) ==
  /\ server.pc = "up"
  /\ default' = v
  /\ UNCHANGED <<key, folders, server, req, faults>>

\* The policy asked for, or the default, is sealed under a new identity
CreateSeal(r, f, want) ==
  /\ server.pc = "up" /\ req[r].pc = "idle"
  /\ key # None
  /\ folders[f].status = "none" /\ \A q \in Requests : req[q].folder # f
  /\ LET v == IF want = None THEN default ELSE want
     IN Goto(r, [Idle EXCEPT !.pc = "create", !.folder = f, !.value = v,
                             !.seal = SealOf(Printed(v))])
  /\ UNCHANGED <<key, folders, default, server, faults>>

\* The row takes the numbers as its columns round them; a zero is refused
CreateInsert(r) ==
  /\ req[r].pc = "create"
  /\ Column(req[r].value) > 0
  /\ folders' = [folders EXCEPT ![req[r].folder] =
       [status |-> "active", digits |-> Column(req[r].value), seal |-> req[r].seal]]
  /\ Goto(r, [Idle EXCEPT !.pc = "reload", !.folder = req[r].folder])
  /\ UNCHANGED <<key, default, server, faults>>

\* Whoever reads a folder reads its policy and its seal in one row
VerifyRead(r, f) ==
  /\ server.pc = "up"
  /\ req[r].pc = "idle" \/ (req[r].pc = "reload" /\ req[r].folder = f)
  /\ Active(f)
  /\ Goto(r, [Idle EXCEPT !.pc = "verify", !.folder = f,
                          !.digits = folders[f].digits, !.seal = folders[f].seal])
  /\ UNCHANGED <<key, folders, default, server, faults>>

\* Variant of VerifyCompute: a seal is enough, whatever it says
VerifyPresence(r) ==
  /\ req[r].pc = "verify" /\ key # None
  /\ IF req[r].seal = None
     THEN Goto(r, [req[r] EXCEPT !.pc = "fill", !.seal = SealOf(req[r].digits)])
     ELSE Goto(r, [req[r] EXCEPT !.pc = "accepted"])
  /\ UNCHANGED <<key, folders, default, server, faults>>

\* ensureFolderPoWPolicySeal: the seal of what was read, under the key of now
VerifyCompute(r) ==
  /\ req[r].pc = "verify" /\ key # None
  /\ \/ /\ req[r].seal = None
        /\ Goto(r, [req[r] EXCEPT !.pc = "fill", !.seal = SealOf(req[r].digits)])
     \/ /\ req[r].seal = SealOf(req[r].digits)
        /\ Goto(r, [req[r] EXCEPT !.pc = "accepted"])
  /\ UNCHANGED <<key, folders, default, server, faults>>

\* The policy is accepted also if the UPDATE matches no row
VerifyFill(r) ==
  /\ req[r].pc = "fill"
  /\ folders' = [folders EXCEPT ![req[r].folder] = Filled(@, req[r].seal)]
  /\ Goto(r, [req[r] EXCEPT !.pc = "accepted"])
  /\ UNCHANGED <<key, default, server, faults>>

\* handleDeleteFolder reads no policy
DeleteFolder(f) ==
  /\ server.pc = "up" /\ Active(f)
  /\ folders' = [folders EXCEPT ![f].status = "deleted"]
  /\ UNCHANGED <<key, default, server, req, faults>>

\* The request ends: served, or refused by a missing key, a mismatch, a CHECK or
\* any other error
Finish(r) ==
  /\ req[r].pc # "idle"
  /\ Goto(r, Idle)
  /\ UNCHANGED <<key, folders, default, server, faults>>

-----------------------------------------------------------------------------
PolicyNext ==
  \/ Start \/ BootDone \/ Crash
  \/ \E k \in Keys \cup {None} : ReplaceKey(k)
  \/ \E v \in Values : UpdateDefault(v)
  \/ \E f \in Folders : BootVerify(f) \/ DeleteFolder(f)
  \/ \E r \in Requests :
       \/ CreateInsert(r) \/ VerifyCompute(r) \/ VerifyFill(r) \/ Finish(r)
       \/ \E f \in Folders :
            \/ VerifyRead(r, f)
            \/ \E want \in Values \cup {None} : CreateSeal(r, f, want)

PolicySpec == PolicyInit /\ [][PolicyNext]_policyVars

\* The containers are restarted whenever they end, and a start goes on by itself
FairPolicySpec ==
  /\ PolicySpec
  /\ WF_policyVars(Start) /\ WF_policyVars(BootDone)
  /\ \A f \in Folders : WF_policyVars(BootVerify(f))

-----------------------------------------------------------------------------
(* What holds however starts, key changes and requests overlap.             *)

\* "Folder Proof-of-Work policies are sealed so they cannot be silently weakened
\* after folder creation": the numbers of a folder never change, nor does a seal,
\* and a seal that is filled in later covers the numbers there are
SealIsFinal ==
  [][\A f \in Folders : folders[f].status # "none" =>
       /\ folders'[f].status # "none" /\ folders'[f].digits = folders[f].digits
       /\ Sealed(f) => folders'[f].seal = folders[f].seal
       /\ folders'[f].seal # folders[f].seal =>
            folders'[f].seal.digits = folders[f].digits]_policyVars

\* A server that started with a key has a seal on every active folder, the ones
\* of older versions included: no reader comes upon one it would have to trust
RunningServerSealedAll ==
  server.pc = "up" /\ server.verified => \A f \in Folders : Active(f) => Sealed(f)

\* A policy that a reader goes on with is the one the folder is sealed for, also
\* if another reader filled the seal first, with another key; only a deletion
\* leaves it without
AcceptedIsSealed ==
  \A r \in Requests : req[r].pc = "accepted" =>
    LET folder == folders[req[r].folder]
    IN /\ folder.digits = req[r].digits
       /\ folder.status = "active" => folder.seal # None /\ folder.seal.digits = req[r].digits

\* A folder that no reader accepts and no start of the server gets past: its key
\* is gone, or its numbers were sealed before the columns rounded them
Unverifiable(f) == Active(f) /\ Sealed(f) /\ folders[f].seal # SealOf(folders[f].digits)

\* The server comes up again unless such a folder is there, whatever was left
\* half done when it ended and whatever became of folders that are deleted
ServerComesUp ==
  server.pc = "down" ~> (server.pc = "up" \/ \E f \in Folders : Unverifiable(f))
===============================================================================
