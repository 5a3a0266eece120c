---------------------------- MODULE Notification ----------------------------
(***************************************************************************)
(* backend/services/notification: for each event that names a user, what   *)
(* the template of the event asks for and the user's preferences allow is  *)
(* sent, channel by channel, and a delivery row written; meanwhile the     *)
(* user may change the preferences.                                        *)
(*                                                                         *)
(* order.created stands for every event that names its user; mint.executed *)
(* and burn.executed, which have templates too, name none.  Templates are  *)
(* rows: the seeded ones use the in-application channel and mail, and the  *)
(* one here all three.  Abstracted: texts, addresses, whether a row says   *)
(* sent or failed, reading a notification, and all users but one.          *)
(***************************************************************************)
EXTENDS ServiceBus, Sequences, SequencesExt

CONSTANTS
    Settings,    \* POST /notifications/preferences requests
    TemplateChannels,  \* the channels of the template, each once
    WebhookMaxRetries

Channels == {"inapp", "email", "webhook"}

ASSUME NotificationAssumption ==
    /\ TemplateChannels \in Seq(Channels) /\ IsInjective(TemplateChannels)
    /\ WebhookMaxRetries \in Nat \ {0}

VARIABLES
    prefs,       \* notification.preferences: the enabled channels
    setting,     \* request -> [stage, read, channel, on]
    notice,      \* durable -> [stage, left, tries]: a handler at work
    deliveries   \* id -> channel -> rows in notification.deliveries

noticeVars == <<prefs, setting, notice, deliveries>>

DefaultPrefs == {"inapp", "email"}

NamesUser == {"notif_order_created"}

NoNotice == [stage |-> "idle", left |-> {}, tries |-> 0]
NoSetting == [stage |-> "idle", read |-> {}, channel |-> "none", on |-> FALSE]

\* The channels left are taken in the order of the template.
IsNext(ch, left) ==
    \E i \in DOMAIN TemplateChannels :
       /\ TemplateChannels[i] = ch /\ ch \in left
       /\ \A j \in 1..i - 1 : TemplateChannels[j] \notin left

Handled(d) == notice' = [notice EXCEPT ![d] = NoNotice]

-----------------------------------------------------------------------------
\* An error of reading the preferences is ignored, and what is used then is empty.
handleEvent(d) ==
    /\ handling[d] # "none" /\ notice[d] = NoNotice
    /\ \/ /\ d \notin NamesUser /\ Acknowledged(d) /\ UNCHANGED notice
       \/ /\ d \in NamesUser /\ UNCHANGED busVars
          /\ \E enabled \in {prefs, {}} :
                /\ notice' = [notice EXCEPT ![d] =
                       [stage |-> "send", tries |-> 0, left |-> ToSet(TemplateChannels) \cap enabled]]
                /\ IF enabled = prefs THEN UNCHANGED faults ELSE Fault
    /\ UNCHANGED <<published, prefs, setting, deliveries>>

\* The row is written, whether the channel took the message or not; an error of the
\* insert is only logged.
createDelivery(d, ch) ==
    /\ \/ deliveries' = [deliveries EXCEPT ![handling[d]][ch] = @ + 1] /\ UNCHANGED faults
       \/ Fault /\ UNCHANGED deliveries
    /\ notice' = [notice EXCEPT ![d].left = @ \ {ch}, ![d].tries = 0]

sendOnce(d) ==
    /\ \E ch \in Channels \ {"webhook"} : IsNext(ch, notice[d].left) /\ createDelivery(d, ch)
    /\ UNCHANGED <<published, busVars, prefs, setting>>

\* A 2xx and a 4xx end it, anything else is tried again.
Send(d) ==
    /\ IsNext("webhook", notice[d].left)
    /\ \/ createDelivery(d, "webhook")
       \/ /\ notice[d].tries + 1 < WebhookMaxRetries
          /\ notice' = [notice EXCEPT ![d].tries = @ + 1]
          /\ UNCHANGED <<deliveries, faults>>
    /\ UNCHANGED <<published, busVars, prefs, setting>>

\* Slip, for the mutation runs: a failure on the way out is an error of the handler.
handledOrFailed(d) ==
    /\ notice[d].stage = "send" /\ notice[d].left = {}
    /\ Acknowledged(d) \/ (Nak(d) /\ UNCHANGED faults)
    /\ Handled(d)
    /\ UNCHANGED <<published, prefs, setting, deliveries>>

\* The handler never returns an error.
handled(d) ==
    /\ notice[d].stage = "send" /\ notice[d].left = {}
    /\ Acknowledged(d)
    /\ Handled(d)
    /\ UNCHANGED <<published, prefs, setting, deliveries>>

NotifierDies(d) ==
    /\ HandlerFails(d)
    /\ Handled(d)
    /\ UNCHANGED <<published, prefs, setting, deliveries>>

-----------------------------------------------------------------------------
\* POST /notifications/preferences with one field: an error of the read is ignored and
\* leaves a row that is all off.
setPreferences(r) ==
    /\ service = "notification" /\ setting[r].stage = "idle"
    /\ \E ch \in Channels, on \in BOOLEAN, read \in {prefs, {}} :
          /\ setting' = [setting EXCEPT ![r] =
                          [stage |-> "read", read |-> read, channel |-> ch, on |-> on]]
          /\ IF read = prefs THEN UNCHANGED faults ELSE Fault
    /\ UNCHANGED <<streamVars, prefs, notice, deliveries>>

\* The whole row is written from the copy, over what another request wrote meanwhile.
Upsert(r) ==
    /\ setting[r].stage = "read"
    /\ prefs' = IF setting[r].on THEN setting[r].read \cup {setting[r].channel}
                                 ELSE setting[r].read \ {setting[r].channel}
    /\ setting' = [setting EXCEPT ![r].stage = "done"]
    /\ UNCHANGED <<streamVars, faults, notice, deliveries>>

NoticeInit ==
    /\ prefs = DefaultPrefs
    /\ setting = [r \in Settings |-> NoSetting]
    /\ notice = [d \in DurablesOf["notification"] |-> NoNotice]
    /\ deliveries = [id \in Ids |-> [ch \in Channels |-> 0]]

NoticeNext ==
    \/ \E d \in Listening \cap DurablesOf["notification"] :
          handleEvent(d) \/ sendOnce(d) \/ Send(d) \/ handled(d) \/ NotifierDies(d)
    \/ \E r \in Settings : setPreferences(r) \/ Upsert(r)

\* The service alone with the stream.
noticeBusVars == <<service, streamVars, faults, noticeVars>>

NoticeBusNext == (NoticeNext \/ (Stream /\ UNCHANGED noticeVars)) /\ UNCHANGED service

NoticeSpec ==
    StreamInit /\ service = "notification" /\ NoticeInit /\ [][NoticeBusNext]_noticeBusVars

-----------------------------------------------------------------------------
(* Properties *)

NoticeTypeOK ==
    /\ prefs \subseteq Channels
    /\ setting \in
          [Settings -> [stage : {"read", "done"}, read : SUBSET Channels, channel : Channels,
                        on : BOOLEAN] \cup {NoSetting}]
    /\ notice \in
          [DurablesOf["notification"] ->
              [stage : {"send"}, left : SUBSET Channels, tries : 0..WebhookMaxRetries - 1]
              \cup {NoNotice}]
    /\ deliveries \in [Ids -> [Channels -> Nat]]

\* A request switched the channel on, or off.
Asked(ch, on) == \E r \in Settings : setting[r].channel = ch /\ setting[r].on = on

\* Preferences that differ from the default only where a request made them, or a
\* failure switched them off.
AreAsked(enabled) ==
    /\ \A ch \in enabled \ DefaultPrefs : Asked(ch, TRUE)
    /\ \A ch \in DefaultPrefs \ enabled : Asked(ch, FALSE) \/ faults > 0

WantedAllAlong(ch) == ch \in ToSet(TemplateChannels) \cap DefaultPrefs /\ ~Asked(ch, FALSE)

\* However events, failures and changes of preferences interleave: a channel is on or
\* off only because it started so or a request said so, or off for a failure, whatever
\* copy it was written from; an acknowledged event has its row on every channel that was wanted all along;
\* it is delivered again only for a failure that brought it back, and on no channel
\* that nobody ever switched on.
NoticesFollowPreferences ==
    /\ AreAsked(prefs)
    /\ faults = 0 =>
          \A d \in NamesUser, id \in Ids, ch \in Channels :
             id \in acked[d] /\ WantedAllAlong(ch) => deliveries[id][ch] > 0
    /\ \A id \in Ids, ch \in Channels :
          /\ deliveries[id][ch] <= 1 + faults
          /\ deliveries[id][ch] > 0 =>
                /\ \E d \in NamesUser : attempts[d][id] > 0
                /\ ch \in DefaultPrefs \/ Asked(ch, TRUE)
=============================================================================
