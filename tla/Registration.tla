---------------------------- MODULE Registration ----------------------------
(* How accounts come to be: access requests and the invite codes they give,  *)
(* registration with a code or, when it is open, without, an admin's own     *)
(* creation of an actor, and the notes that may be saved meanwhile in the    *)
(* namespace a name is about to become. Moderation, hashes and the welcome   *)
(* templates after the commit change none of it.                             *)
EXTENDS Naturals, FiniteSets

CONSTANTS
    Name,               \* names of actors, namespaces of notes
    Invite, NoInvite,   \* invite codes: random, none is made twice
    AccessRequest,
    Registrant,         \* register and actorsCreate requests at work
    NoteWriter,         \* transactions that save a note
    InviteAdmin,        \* approve, reject and delete requests at work
    RegMixes            \* for each behaviour: who takes part, the names and codes there are, the codes
                        \* made at first, what is done

ASSUME RegAssumption ==
    /\ NoInvite \notin Invite /\ "" \notin Name
    /\ RegMixes \subseteq [registrants : SUBSET Registrant, writers : SUBSET NoteWriter,
                           admins : SUBSET InviteAdmin, names : SUBSET Name, codes : SUBSET Invite,
                           made : SUBSET Invite, does : SUBSET STRING]

VARIABLES
    regMix,
    open,           \* open_registration
    named,          \* the actors' names
    noted,          \* the namespaces with a note
    writing,        \* writing[w]: the namespaces of w's uncommitted notes
    invite,         \* the rows of invite_codes
    asks,           \* the status of each access request
    reg, adm,       \* the handlers
    accountsMade    \* what each account was made with
regVars == <<regMix, open, named, noted, writing, invite, asks, reg, adm, accountsMade>>

RegIdle == [phase |-> "idle"]
Fresh == [state |-> "live", usedBy |-> "", expired |-> FALSE]
NoRowYet == [Fresh EXCEPT !.state = "none"]
Live == {c \in Invite : invite[c].state = "live"}

RegInit ==
    /\ regMix \in RegMixes
    /\ open \in BOOLEAN
    /\ named = {} /\ noted = {} /\ writing = [w \in NoteWriter |-> {}]
    /\ invite = [c \in Invite |-> IF c \in regMix.made THEN Fresh ELSE NoRowYet]
    /\ asks = [q \in AccessRequest |-> "none"]
    /\ reg = [r \in Registrant |-> RegIdle] /\ adm = [d \in InviteAdmin |-> RegIdle]
    /\ accountsMade = {}

-----------------------------------------------------------------------------
InviteProblem(c) == invite[c].state # "live" \/ invite[c].usedBy # "" \/ invite[c].expired
(* Row locks of invite_codes, and the SHARE lock on documents.               *)
HoldsInvite(r, c) == reg[r].phase \in {"claim", "insert"} /\ reg[r].invite = c
InviteLocked(c) == \E r \in Registrant : HoldsInvite(r, c)
Claimed == \E r \in Registrant : reg[r].phase = "insert"
Writing == UNION {writing[w] : w \in NoteWriter}

RegIs(r, phase) == reg[r].phase = phase
RegGoes(r, next) == reg' = [reg EXCEPT ![r] = next]
OnlyReg == UNCHANGED <<regMix, open, named, noted, writing, invite, asks, adm, accountsMade>>

(* register, phase 1: with open registration a bad code is dropped, else it  *)
(* is refused, as is none at all. actorsCreate needs no code.                *)
RegisterStart(r, name, code, byAdmin) ==
    /\ RegIs(r, "idle")
    /\ LET good == code # NoInvite /\ ~byAdmin /\ ~InviteProblem(code)
       IN  /\ good \/ open \/ byAdmin
           /\ RegGoes(r, [phase |-> "name", name |-> name, open |-> open \/ byAdmin,
                          invite |-> IF good THEN code ELSE NoInvite])
    /\ OnlyReg
(* CheckNameAvailability, before the moderation and the hashes.              *)
CheckName(r) ==
    /\ RegIs(r, "name")
    /\ RegGoes(r, IF reg[r].name \in named \union noted THEN RegIdle ELSE [reg[r] EXCEPT !.phase = "begin"])
    /\ OnlyReg
(* Mutant: the code is not looked at again.                                  *)
LockOnly(r) ==
    /\ RegIs(r, "begin")
    /\ reg[r].invite # NoInvite => ~InviteLocked(reg[r].invite)
    /\ RegGoes(r, [reg[r] EXCEPT !.phase = "claim"])
    /\ OnlyReg
(* createAccount: the code is locked and looked at again.                    *)
LockInvite(r) ==
    /\ RegIs(r, "begin")
    /\ reg[r].invite # NoInvite => ~InviteLocked(reg[r].invite)
    /\ LET lost == reg[r].invite # NoInvite /\ InviteProblem(reg[r].invite)
       IN  RegGoes(r, IF lost /\ ~reg[r].open THEN RegIdle
                      ELSE [reg[r] EXCEPT !.phase = "claim", !.invite = IF lost THEN NoInvite ELSE @])
    /\ OnlyReg
(* ClaimNamespace: the SHARE lock waits for the writers at work and keeps    *)
(* others out until the commit.                                              *)
(* Mutant: the lock waits for nobody.                                      *)
NoWaiting == TRUE
NoWriters == Writing = {}
ClaimNamespace(r) ==
    /\ RegIs(r, "claim") /\ NoWriters
    /\ RegGoes(r, IF reg[r].name \in noted THEN RegIdle ELSE [reg[r] EXCEPT !.phase = "insert"])
    /\ OnlyReg
(* The inserts: a name taken meanwhile violates actors_name_key.             *)
InsertAccount(r) ==
    /\ RegIs(r, "insert")
    /\ RegGoes(r, RegIdle)
    /\ IF reg[r].name \in named THEN UNCHANGED <<named, invite, accountsMade>>
       ELSE /\ named' = named \union {reg[r].name}
            /\ accountsMade' = accountsMade \union {[name |-> reg[r].name, invite |-> reg[r].invite, open |-> reg[r].open]}
            /\ invite' = IF reg[r].invite = NoInvite THEN invite
                         ELSE [invite EXCEPT ![reg[r].invite].usedBy = reg[r].name]
    /\ UNCHANGED <<regMix, open, noted, writing, asks, adm>>
(* An error before the commit, the five seconds' lock_timeout too.           *)
RegisterFail(r) == ~RegIs(r, "idle") /\ RegGoes(r, RegIdle) /\ OnlyReg

(* A note's transaction: it holds ROW EXCLUSIVE on documents from its write. *)
BeginNote(w, ns) ==
    /\ writing[w] = {} /\ ~Claimed
    /\ writing' = [writing EXCEPT ![w] = {ns}]
    /\ UNCHANGED <<regMix, open, named, noted, invite, asks, reg, adm, accountsMade>>
NoteDone(w, committed) ==
    /\ writing[w] # {}
    /\ noted' = IF committed THEN noted \union writing[w] ELSE noted
    /\ writing' = [writing EXCEPT ![w] = {}]
    /\ UNCHANGED <<regMix, open, named, invite, asks, reg, adm, accountsMade>>

-----------------------------------------------------------------------------
OnlyAdm == UNCHANGED <<regMix, open, named, noted, writing, reg, accountsMade>>
AdmGoes(d, next) == adm' = [adm EXCEPT ![d] = next]
(* accessRequest: open, it is approved at once, with a code.                 *)
AskAccess(q, c) ==
    /\ asks[q] = "none"
    /\ asks' = [asks EXCEPT ![q] = IF open THEN "approved" ELSE "pending"]
    /\ IF open THEN invite[c].state = "none" /\ invite' = [invite EXCEPT ![c] = Fresh]
       ELSE UNCHANGED invite
    /\ UNCHANGED adm /\ OnlyAdm
(* pendingRequest, then the update, with the code when it approves.          *)
ReviewStart(d, q, verdict) ==
    /\ adm[d] = RegIdle /\ asks[q] = "pending"
    /\ AdmGoes(d, [phase |-> verdict, request |-> q])
    /\ UNCHANGED <<asks, invite>> /\ OnlyAdm
Approve(d, c) ==
    /\ adm[d].phase = "approved" /\ invite[c].state = "none"
    /\ invite' = [invite EXCEPT ![c] = Fresh]
    /\ asks' = [asks EXCEPT ![adm[d].request] = "approved"]
    /\ AdmGoes(d, RegIdle) /\ OnlyAdm
Reject(d) ==
    /\ adm[d].phase = "rejected"
    /\ asks' = [asks EXCEPT ![adm[d].request] = "rejected"]
    /\ AdmGoes(d, RegIdle) /\ UNCHANGED invite /\ OnlyAdm
(* inviteCodesDelete: an unused code, as far as it looked; the DELETE waits   *)
(* for the row.                                                              *)
DeleteStart(d, c) ==
    /\ adm[d] = RegIdle /\ c \in Live /\ invite[c].usedBy = ""
    /\ AdmGoes(d, [phase |-> "delete", invite |-> c])
    /\ UNCHANGED <<asks, invite>> /\ OnlyAdm
DeleteInvite(d) ==
    /\ adm[d].phase = "delete" /\ ~InviteLocked(adm[d].invite)
    /\ invite' = [invite EXCEPT ![adm[d].invite].state = "deleted"]
    /\ AdmGoes(d, RegIdle) /\ UNCHANGED asks /\ OnlyAdm
AdmFail(d) == adm[d] # RegIdle /\ AdmGoes(d, RegIdle) /\ UNCHANGED <<asks, invite>> /\ OnlyAdm
Generate(c) ==
    /\ invite[c].state = "none" /\ invite' = [invite EXCEPT ![c] = Fresh]
    /\ UNCHANGED <<asks, adm>> /\ OnlyAdm
ExpireInvite(c) ==
    /\ c \in Live /\ ~invite[c].expired /\ invite' = [invite EXCEPT ![c].expired = TRUE]
    /\ UNCHANGED <<asks, adm>> /\ OnlyAdm
SetOpen ==
    /\ open' = ~open
    /\ UNCHANGED <<regMix, named, noted, writing, invite, asks, reg, adm, accountsMade>>

Does(kind) == kind \in regMix.does
RegNext ==
    \/ \E r \in regMix.registrants :
         \/ \E name \in regMix.names, code \in regMix.codes \union {NoInvite} :
              \/ Does("register") /\ RegisterStart(r, name, code, FALSE)
              \/ Does("create") /\ RegisterStart(r, name, NoInvite, TRUE)
         \/ CheckName(r) \/ LockInvite(r) \/ ClaimNamespace(r) \/ InsertAccount(r) \/ RegisterFail(r)
    \/ \E w \in regMix.writers :
         (\E ns \in regMix.names : BeginNote(w, ns)) \/ (\E committed \in BOOLEAN : NoteDone(w, committed))
    \/ \E d \in regMix.admins, q \in AccessRequest, verdict \in {"approved", "rejected"} : ReviewStart(d, q, verdict)
    \/ \E d \in regMix.admins : Reject(d) \/ DeleteInvite(d) \/ AdmFail(d)
    \/ \E c \in regMix.codes :
         \/ \E d \in regMix.admins : Approve(d, c) \/ (Does("delete") /\ DeleteStart(d, c))
         \/ Does("generate") /\ Generate(c)
         \/ Does("expire") /\ ExpireInvite(c)
         \/ Does("ask") /\ \E q \in AccessRequest : AskAccess(q, c)
    \/ Does("open") /\ SetOpen
RegSpec == RegInit /\ [][RegNext]_regVars

-----------------------------------------------------------------------------
(* A code makes one account at most, and unless it was deleted meanwhile it   *)
(* is that account's; no account comes without one of a registration that     *)
(* began while it was closed.                                                *)
InvitesSpentOnce ==
    /\ \A x, y \in accountsMade : x.invite = y.invite /\ x.invite # NoInvite => x = y
    /\ \A x \in accountsMade : IF x.invite = NoInvite THEN x.open ELSE invite[x.invite].usedBy = x.name
(* No note is in a namespace, committed or about to be, when an actor comes   *)
(* to own it: what others wrote there would be its own.                      *)
NamespaceClaimed == [][named' # named => (named' \ named) \intersect (noted \union Writing) = {}]_regVars
=============================================================================
