------------------------------ MODULE ChatE2EE ------------------------------
(***************************************************************************)
(* Encrypted chat in one browser (chat_e2ee_hook.js): which key a message  *)
(* is encrypted with and who gets that key.                                *)
(*                                                                         *)
(* The page shows one conversation; its device list arrives with the       *)
(* patches of the LiveView, which has its own idea of the selected         *)
(* conversation.  A key is kept in memory only, under the conversation     *)
(* that was selected when it was made; the record of the active key is     *)
(* kept in IndexedDB.  Sending a message and preparing a key are functions *)
(* with several awaits, and a conversation may be switched, a device come  *)
(* or go, at each of them.  pc is the await a function is suspended at:    *)
(*   "trust"  ensureDevicesTrusted         "key"    loads of the key store *)
(*   "store"  storeActiveConversationKey   "pack"   encryption of the text *)
(*   "await"  prepareConversationKeyPromise "wrap"  wrapConversationKey    *)
(*   "push"   searchTokensForKey           "sent"   the server's answer    *)
(*   "ok", "error"  the answer is there                                    *)
(* A device stands for its user and its key pair, the list of devices for  *)
(* its own hash (devicesHash is injective).                                *)
(***************************************************************************)
EXTENDS Naturals, Sequences, FiniteSets

CONSTANTS
    Devices, Me,    \* devices of the users; this browser's
    Convs,          \* conversations of this user
    Registered,     \* conversation -> devices registered at first
    MaxDevices,     \* CHAT_E2EE_MAX_DEVICES
    MaxKeys,        \* keys made in the course of a behaviour
    MaxActs       \* what users do and what fails, together

\* What the constants are.
ASSUME ChatE2EEAssumption ==
    /\ Me \in Devices
    /\ Registered \in [Convs -> SUBSET Devices]
    /\ MaxKeys \in Nat /\ MaxDevices \in Nat /\ MaxActs \in Nat

Slots == {"send", "prep1", "prep2"}
Preps == Slots \ {"send"}
NoKey == 0

VARIABLES
    active,     \* server: conversation -> registered devices of its members
    selected,   \* server: the conversation selected in the LiveView
    rows,       \* server: <<conversation, key>> -> devices it is wrapped for
    messages,   \* server: encrypted messages accepted
    conv, devs, \* page: its conversation and device list
    device,     \* page: cachedDevice, this browser's device is loaded
    enabled,    \* localStorage: conversations with encryption turned on
    activeKey,  \* IndexedDB: conversation -> record of the active key
    cache,      \* rawConversationKeyCache: set of <<conversation, key>>
    unavailable,\* unavailableConversationKeys
    prepared,   \* preparedConversationKey
    promise,    \* prepareConversationKeyPromise: the slot it belongs to
    task,       \* slot -> suspended function
    wire,       \* messages pushed and not yet handled by the server
    fetch,      \* the request of rawConversationKey in flight
    made,       \* number of keys made, by this browser or by others
    acts

serverVars == <<active, selected, rows, messages>>
hookVars == <<conv, devs, device>>
keyVars == <<activeKey, cache, unavailable, prepared, promise, task, fetch>>
chatVars == <<serverVars, hookVars, enabled, keyVars, wire, made, acts>>

Idle == [pc |-> "idle"]
NoRecord == [k |-> NoKey]
NoFetch == [pc |-> "idle"]
Holders(c, k) == IF <<c, k>> \in DOMAIN rows THEN rows[<<c, k>>] ELSE {}

(* serverE2EEReady and e2eeCapable, then e2eeReady, over what the page     *)
(* shows: some device besides this one, this one advertised, not too many. *)
E2eeCapable ==
    /\ device /\ Me \in devs
    /\ Cardinality(devs) \in 2 .. MaxDevices
E2eeReady == E2eeCapable /\ conv \in enabled

Begin(s) ==
    task' = [task EXCEPT ![s] =
        [pc |-> "trust", devs |-> devs, typed |-> conv, conv |-> conv,
         k |-> NoKey, need |-> TRUE, adopted |-> FALSE, pkgs |-> {},
         waits |-> "none"]]

Step(s, r) == task' = [task EXCEPT ![s] = r]

(* A bound: every running function may make one more key.                  *)
KeysLeft == made + Cardinality({s \in Slots : task[s] # Idle}) < MaxKeys

(* The page --------------------------------------------------------------*)

(* A patch of the LiveView, and updated: a changed conversation drops what *)
(* was prepared.  A preparation in progress goes on.                       *)
Updated ==
    /\ <<conv, devs>> # <<selected, active[selected]>>
    /\ conv' = selected
    /\ devs' = active[selected]
    /\ IF conv' = conv THEN UNCHANGED <<prepared, promise>>
       ELSE prepared' = NoRecord /\ promise' = "none"
    /\ UNCHANGED <<serverVars, device, enabled, activeKey, cache, unavailable, task, fetch,
                   wire, made>>

LoadOrCreateDevice ==
    /\ ~device /\ device' = TRUE
    /\ UNCHANGED <<serverVars, conv, devs, enabled, keyVars, wire, made>>

(* ensureDeviceRegistered: the server adds this device to every            *)
(* conversation of its user.                                               *)
EnsureDeviceRegistered ==
    /\ device /\ \E c \in Convs : Me \notin active[c]
    /\ active' = [c \in Convs |-> active[c] \cup {Me}]
    /\ UNCHANGED <<selected, rows, messages, hookVars, enabled, keyVars, wire, made>>

(* handleToggle and setE2EEEnabled.                                        *)
HandleToggle ==
    /\ E2eeCapable
    /\ IF conv \in enabled
       THEN enabled' = enabled \ {conv} /\ prepared' = NoRecord
       ELSE enabled' = enabled \cup {conv} /\ UNCHANGED prepared
    /\ UNCHANGED <<serverVars, hookVars, activeKey, cache, unavailable, promise,
                   task, fetch, wire, made>>

(* prepareConversationKeyPackages, called on a toggle and on every update. *)
PrepareConversationKeyPackages(s) ==
    /\ E2eeReady /\ prepared = NoRecord /\ promise = "none"
    /\ s \in Preps /\ task[s] = Idle
    /\ s = "prep2" => task["prep1"] # Idle
    /\ KeysLeft
    /\ Begin(s)
    /\ promise' = s
    /\ UNCHANGED <<serverVars, hookVars, enabled, activeKey, cache, unavailable,
                   prepared, fetch, wire, made>>

(* handleSubmit in encrypted mode; when it is not ready, the handler does  *)
(* nothing and the form is sent as it is.                                  *)
HandleSubmit ==
    /\ E2eeReady /\ task["send"] = Idle /\ KeysLeft
    /\ Begin("send")
    /\ UNCHANGED <<serverVars, hookVars, enabled, activeKey, cache, unavailable,
                   prepared, promise, fetch, wire, made>>

SubmitInTheClear ==
    /\ ~E2eeReady
    /\ UNCHANGED <<serverVars, hookVars, enabled, keyVars, wire, made>>

(* The page is loaded again: what was in memory is gone.                   *)
Reload ==
    /\ conv' = selected /\ devs' = active[selected] /\ device' = FALSE
    /\ cache' = {} /\ unavailable' = {} /\ prepared' = NoRecord
    /\ promise' = "none" /\ fetch' = NoFetch
    /\ task' = [s \in Slots |-> Idle]
    /\ wire' = [i \in DOMAIN wire |-> [wire[i] EXCEPT !.live = FALSE]]
    /\ UNCHANGED <<serverVars, enabled, activeKey, made>>

(* Keys ------------------------------------------------------------------*)

(* ensureDevicesTrusted succeeds; conversationKeyForDevices notes the      *)
(* conversation shown now.                                                 *)
DevicesTrusted(s) ==
    /\ task[s].pc = "trust"
    /\ Step(s, [task[s] EXCEPT !.pc = "key", !.conv = conv])
    /\ UNCHANGED <<serverVars, hookVars, enabled, activeKey, cache, unavailable,
                   prepared, promise, fetch, wire, made>>

\* Mutant: the active key is used for whatever devices there are now.
Reusable_AnyDevices(t) ==
    /\ activeKey[t.conv] # NoRecord
    /\ <<t.conv, activeKey[t.conv].k>> \in cache

(* conversationKeyForDevices: the active key serves if it was made for     *)
(* just these devices and is still in memory.                              *)
Reusable(t) ==
    /\ activeKey[t.conv] # NoRecord
    /\ activeKey[t.conv].devs = t.devs
    /\ <<t.conv, activeKey[t.conv].k>> \in cache

ReuseKey(s) ==
    LET t == task[s]
        a == activeKey[t.conv]
    IN  /\ t.pc = "key" /\ Reusable(t)
        /\ Step(s, [t EXCEPT !.pc = "pack", !.k = a.k, !.need = ~a.sent,
                             !.adopted = a.adopted])
        /\ UNCHANGED <<serverVars, hookVars, enabled, activeKey, cache, unavailable,
                       prepared, promise, fetch, wire, made>>

(* storeRawConversationKey of a new key.                                   *)
MakeKey(s) ==
    LET t == task[s]
    IN  /\ t.pc = "key" /\ ~Reusable(t)
        /\ made' = made + 1
        /\ cache' = cache \cup {<<t.conv, made'>>}
        /\ Step(s, [t EXCEPT !.pc = "store", !.k = made'])
        /\ UNCHANGED <<serverVars, hookVars, enabled, activeKey, unavailable,
                       prepared, promise, fetch, wire>>

Record(k, D, sent, adopted) ==
    [k |-> k, devs |-> D, sent |-> sent, adopted |-> adopted]

StoreActiveConversationKey(s) ==
    LET t == task[s]
    IN  /\ t.pc = "store"
        /\ activeKey' = [activeKey EXCEPT ![t.conv] = Record(t.k, t.devs, FALSE, FALSE)]
        /\ Step(s, [t EXCEPT !.pc = "pack"])
        /\ UNCHANGED <<serverVars, hookVars, enabled, cache, unavailable, prepared,
                       promise, fetch, wire, made>>

(* Packages --------------------------------------------------------------*)

Others == <<serverVars, hookVars, enabled, activeKey, cache, unavailable, fetch, made>>

Package(t, P) == [k |-> t.k, devs |-> t.devs, pkgs |-> P]

(* What was prepared serves if it is for this key and these devices.       *)
Fits(p, t) == p # NoRecord /\ p.k = t.k /\ p.devs = t.devs

(* encryptMessage goes on with the packages prepared, or wraps its own.    *)
WithPackages(t, p) ==
    IF Fits(p, t) THEN [t EXCEPT !.pc = "push", !.pkgs = p.pkgs]
                  ELSE [t EXCEPT !.pc = "wrap"]

(* The finally of prepareConversationKeyPackages forgets the promise,      *)
(* whichever it is now; a message that waited for this one goes on.        *)
PreparationEnds(s, result) ==
    LET m == task["send"]
        waiting == m.pc = "await" /\ m.waits = s
    IN  /\ promise' = "none"
        /\ task' = [task EXCEPT ![s] = Idle,
                       !["send"] = IF waiting THEN WithPackages(m, result) ELSE m]

PackPrepared(s) ==
    LET t == task[s]
    IN  /\ s \in Preps /\ t.pc = "pack"
        /\ IF ~t.need
           THEN /\ prepared' = Package(t, {})
                /\ PreparationEnds(s, prepared')
           ELSE /\ UNCHANGED prepared
                /\ IF Fits(prepared, t) THEN PreparationEnds(s, prepared)
                   ELSE Step(s, [t EXCEPT !.pc = "wrap"]) /\ UNCHANGED promise
        /\ UNCHANGED <<Others, wire>>

PackMessage ==
    LET t == task["send"]
    IN  /\ t.pc = "pack"
        /\ Step("send", CASE ~t.need -> [t EXCEPT !.pc = "push"]
                          [] t.need /\ promise # "none" ->
                                 [t EXCEPT !.pc = "await", !.waits = promise]
                          [] OTHER -> WithPackages(t, prepared))
        /\ UNCHANGED <<Others, prepared, promise, wire>>

WrapConversationKey(s) ==
    LET t == task[s]
    IN  /\ t.pc = "wrap"
        /\ prepared' = Package(t, t.devs)
        /\ IF s = "send"
           THEN Step(s, [t EXCEPT !.pc = "push", !.pkgs = t.devs]) /\ UNCHANGED promise
           ELSE PreparationEnds(s, prepared')
        /\ UNCHANGED <<Others, wire>>

(* ensureDevicesTrusted throws.                                            *)
DevicesUntrusted(s) ==
    /\ task[s].pc = "trust"
    /\ IF s = "send" THEN Step(s, Idle) /\ UNCHANGED promise
       ELSE PreparationEnds(s, NoRecord)
    /\ UNCHANGED <<Others, prepared, wire>>

(* Sending ---------------------------------------------------------------*)

PushMessage ==
    LET t == task["send"]
    IN  /\ t.pc = "push"
        /\ wire' = Append(wire, [k |-> t.k, devs |-> t.devs, pkgs |-> t.pkgs,
                                 typed |-> t.typed, adopted |-> t.adopted, live |-> TRUE])
        /\ Step("send", [t EXCEPT !.pc = "sent"])
        /\ UNCHANGED <<Others, prepared, promise>>

(* ensure_conversation_encryption_key, upsert_conversation_key_recipients. *)
Acceptable(r) ==
    /\ <<selected, r.k>> \in DOMAIN rows \/ r.pkgs # {}
    /\ r.pkgs \subseteq active[selected]

Answered(r, pc) ==
    IF r.live THEN Step("send", [task["send"] EXCEPT !.pc = pc]) ELSE UNCHANGED task

(* create_client_encrypted_text_message, for the conversation selected on  *)
(* the server.  The answer does not arrive if the socket closes.           *)
ServerHandles(answers) ==
    LET r == Head(wire)
        ck == <<selected, r.k>>
    IN  /\ wire # <<>>
        /\ wire' = Tail(wire)
        /\ IF Acceptable(r)
           THEN /\ rows' = [x \in DOMAIN rows \cup {ck} |->
                              IF x = ck THEN Holders(selected, r.k) \cup r.pkgs ELSE rows[x]]
                /\ messages' = messages \cup
                     {[conv |-> selected, k |-> r.k, devs |-> r.devs, inline |-> r.pkgs,
                       adopted |-> r.adopted]}
                /\ Answered(r, IF answers THEN "ok" ELSE "sent")
           ELSE /\ UNCHANGED <<rows, messages>>
                /\ Answered(r, IF answers THEN "error" ELSE "sent")
        /\ UNCHANGED <<active, selected, hookVars, enabled, activeKey, cache, unavailable,
                       prepared, promise, fetch, made>>

(* The answer is applied: markPackagesSent, for the conversation shown now.*)
OnReply ==
    LET t == task["send"]
    IN  /\ t.pc \in {"ok", "error"}
        /\ activeKey' = IF t.pc = "ok" /\ t.need
                        THEN [activeKey EXCEPT ![conv] = Record(t.k, t.devs, TRUE, FALSE)]
                        ELSE activeKey
        /\ Step("send", Idle)
        /\ UNCHANGED <<serverVars, hookVars, enabled, cache, unavailable, prepared,
                       promise, fetch, wire, made>>

(* 15 seconds without an answer; one that comes later is ignored.          *)
SendTimeout ==
    /\ task["send"].pc \in {"sent", "ok", "error"}
    /\ Step("send", Idle)
    /\ wire' = [i \in DOMAIN wire |-> [wire[i] EXCEPT !.live = FALSE]]
    /\ UNCHANGED <<Others, prepared, promise>>

(* Reading ---------------------------------------------------------------*)

(* decryptMessageElement of a message shown whose key is not in memory:    *)
(* rawConversationKey takes it from the message itself, or asks for it.    *)
DecryptMessage(m) ==
    LET ck == <<m.conv, m.k>>
    IN  /\ m.conv = conv /\ ck \notin cache \cup unavailable
        /\ IF Me \in m.inline
           THEN cache' = cache \cup {ck} /\ UNCHANGED fetch
           ELSE /\ fetch = NoFetch
                /\ fetch' = [pc |-> "asked", ck |-> ck]
                /\ UNCHANGED cache
        /\ UNCHANGED <<serverVars, hookVars, enabled, activeKey, unavailable, prepared,
                       promise, task, wire, made>>

(* "chat_e2ee_key": the server answers for the selected conversation only. *)
KeyAnswered ==
    LET c == fetch.ck[1]
    IN  /\ fetch.pc = "asked"
        /\ IF c = selected /\ Me \in Holders(c, fetch.ck[2]) \cap active[c]
           THEN /\ cache' = cache \cup {fetch.ck}
                /\ fetch' = [fetch EXCEPT !.pc = "adopt"]
                /\ UNCHANGED unavailable
           ELSE /\ unavailable' = unavailable \cup {fetch.ck}
                /\ fetch' = NoFetch
                /\ UNCHANGED cache
        /\ UNCHANGED <<serverVars, hookVars, enabled, activeKey, prepared, promise, task,
                       wire, made>>

(* A key that was fetched becomes the active key of its conversation, for  *)
(* the devices listed now, as if it had been sent to them.                 *)
AdoptKey ==
    /\ fetch.pc = "adopt"
    /\ activeKey' = [activeKey EXCEPT ![fetch.ck[1]] = Record(fetch.ck[2], devs, TRUE, TRUE)]
    /\ fetch' = NoFetch
    /\ UNCHANGED <<serverVars, hookVars, enabled, cache, unavailable, prepared, promise,
                   task, wire, made>>

(* Others ----------------------------------------------------------------*)

(* The user selects a conversation.                                        *)
Select(c) ==
    /\ c # selected /\ selected' = c
    /\ UNCHANGED <<active, rows, messages, hookVars, enabled, keyVars, wire, made>>

(* A device is registered or revoked, or its user joins or leaves.         *)
ToggleDevice(c, d) ==
    /\ active' = [active EXCEPT ![c] = IF d \in @ THEN @ \ {d} ELSE @ \cup {d}]
    /\ UNCHANGED <<selected, rows, messages, hookVars, enabled, keyVars, wire, made>>

(* Another browser sends its first message with a new key, or its second.  *)
PeerSends(c, inline) ==
    LET D == active[c]
    IN  /\ KeysLeft /\ D \ {Me} # {}
        /\ made' = made + 1
        /\ rows' = [x \in DOMAIN rows \cup {<<c, made'>>} |->
                      IF x \in DOMAIN rows THEN rows[x] ELSE D]
        /\ messages' = messages \cup
             {[conv |-> c, k |-> made', devs |-> D, inline |-> IF inline THEN D ELSE {},
               adopted |-> TRUE]}
        /\ UNCHANGED <<active, selected, hookVars, enabled, keyVars, wire>>

(* Behaviours ------------------------------------------------------------*)

ChatInit ==
    /\ active = Registered
    /\ selected \in Convs
    /\ rows = <<>> /\ messages = {}
    /\ conv = selected /\ devs = active[selected] /\ device = FALSE
    /\ enabled = Convs
    /\ activeKey = [c \in Convs |-> NoRecord]
    /\ cache = {} /\ unavailable = {}
    /\ prepared = NoRecord /\ promise = "none"
    /\ task = [s \in Slots |-> Idle]
    /\ fetch = NoFetch /\ wire = <<>>
    /\ made = 0 /\ acts = 0

(* What users do and what fails.                                           *)
Event ==
    \/ HandleToggle \/ HandleSubmit \/ SubmitInTheClear \/ Reload
    \/ \E c \in Convs : Select(c) \/ \E d \in Devices : ToggleDevice(c, d)
    \/ \E c \in Convs, i \in BOOLEAN : PeerSends(c, i)
    \/ \E s \in Slots : DevicesUntrusted(s)
    \/ ServerHandles(FALSE)

(* What browser and server do by themselves.                               *)
Progress ==
    \/ Updated \/ LoadOrCreateDevice \/ EnsureDeviceRegistered
    \/ \E s \in Slots :
          \/ PrepareConversationKeyPackages(s) \/ DevicesTrusted(s)
          \/ ReuseKey(s) \/ MakeKey(s) \/ StoreActiveConversationKey(s)
          \/ PackPrepared(s) \/ WrapConversationKey(s)
    \/ PackMessage \/ PushMessage \/ ServerHandles(TRUE) \/ OnReply \/ SendTimeout
    \/ \E m \in messages : DecryptMessage(m)
    \/ KeyAnswered \/ AdoptKey

ChatNext ==
    \/ acts < MaxActs /\ acts' = acts + 1 /\ Event
    \/ acts' = acts /\ Progress

TaskStep(s) ==
    \/ DevicesTrusted(s) \/ ReuseKey(s) \/ MakeKey(s) \/ StoreActiveConversationKey(s)
    \/ PackPrepared(s) \/ WrapConversationKey(s)

SendStep == PackMessage \/ PushMessage \/ SendTimeout

(* Timers fire, promises settle.                                           *)
Fairness ==
    /\ \A s \in Slots : WF_chatVars(acts' = acts /\ TaskStep(s))
    /\ WF_chatVars(acts' = acts /\ SendStep)

ChatSpec == ChatInit /\ [][ChatNext]_chatVars
ChatFairSpec == ChatSpec /\ Fairness

(* Properties ------------------------------------------------------------*)

(* A message under a key this browser made can be read by every device it  *)
(* was encrypted for, however conversations and devices changed while it   *)
(* was being sent: wrapped keys sent once are not assumed for others.      *)
AudienceCanRead ==
    \A m \in messages : ~m.adopted => m.devs \subseteq Holders(m.conv, m.k)

(* ... and by no other device.                                             *)
OnlyAudienceCanRead ==
    \A m \in messages : ~m.adopted => Holders(m.conv, m.k) \subseteq m.devs

(* Every message taken from the user is sent, refused or given up, so that *)
(* the form can be used again.                                             *)
SendSettles == task["send"] # Idle ~> task["send"] = Idle
(* A message is for its audience: those who were there can read it, and    *)
(* nobody else can (packMessage, reuseKey).                                *)
AudienceReads == AudienceCanRead /\ OnlyAudienceCanRead
=============================================================================
