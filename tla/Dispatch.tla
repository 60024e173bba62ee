------------------------------ MODULE Dispatch -------------------------------
(***************************************************************************)
(* handler_event (distribution.c): which handlers a message calls, and     *)
(* what is answered.  A name is a value; what matters of the text is which *)
(* names of the tables occur in it, alone or inside a longer word.  What   *)
(* the handlers do to the node is ClientNode's; here a handler is its name *)
(* and what it returns.                                                    *)
(***************************************************************************)
EXTENDS Naturals, Sequences, SequencesExt

Null == "NULL"

Entry(type, handler) == [type |-> type, handler |-> handler]

elink_features == <<
    Entry("keyngack", "recv_keyngack"), Entry("dh", "recv_dh"), Entry("dev_reg", Null),
    Entry("keepalive", Null), Entry("ack", "recv_ack"), Entry("get_status", Null),
    Entry("status", Null), Entry("dev_report", Null), Entry("wan_report", Null),
    Entry("deassociation", Null), Entry("getrssiinfo", Null), Entry("rssiinfo", Null)>>

(* All the handlers of this table are called recv_ and the entry's name. *)
StatusNames == <<
    "wifi", "wifiswitch", "ledswitch", "wifitimer", "bandsupport", "cpurate", "memoryuserate",
    "uploadspeed", "downloadspeed", "wlanstats", "channel", "onlineTime", "terminalNum",
    "load", "real_devinfo", "elinkstat", "neighborinfo", "networktype", "workmode">>

elink_features_get_status == [i \in DOMAIN StatusNames |-> Entry(StatusNames[i], StatusNames[i])]

elink_features_cfg == <<
    Entry("radio", Null), Entry("wifiswitch", Null), Entry("wpsswitch", Null),
    Entry("upgrade", Null), Entry("upgrade_client", Null), Entry("reboot", "recv_reboot"),
    Entry("reset", "recv_reset"), Entry("save", "recv_save"), Entry("ctrlcommand", Null),
    Entry("roaming_set", Null), Entry("roaming_report", Null)>>

(* What a handler of a get_status request returns. *)
Answer(handler) == IF handler = "wifiswitch" THEN "nihao" ELSE Null

(* strstr: the names found in a word. *)
Within(word) ==
    {word} \union CASE word = "upgrade_client" -> {"upgrade"}
                    [] word \in {"wifiswitch", "wifitimer"} -> {"wifi"}
                    [] word \in {"uploadspeed", "downloadspeed"} -> {"load"}
                    [] OTHER -> {}

Outcome(called, crash, reply) == [called |-> called, crash |-> crash, reply |-> reply]

NoReply == <<Null>>

-----------------------------------------------------------------------------
Hit_Substring(name, entry) == entry.type \in Within(name)

Hit(name, entry) == entry.type = name

Search(called, reply, over) == [called |-> called, reply |-> reply, over |-> over]

(* One turn of the while loop over the table, which ends with the first    *)
(* handler that returns NULL; what the others return is put together.      *)
Tried(acc, name, entry) ==
    LET said == Answer(entry.handler)
    IN  IF acc.over \/ ~Hit(name, entry) THEN acc
        ELSE Search(Append(acc.called, entry.handler),
                    IF said = Null THEN acc.reply ELSE Append(acc.reply, said), said = Null)

(* One name of the request: the whole table is looked through. *)
Asked(acc, name) ==
    FoldLeft(LAMBDA found, entry : Tried(found, name, entry),
             Search(acc.called, acc.reply, FALSE), elink_features_get_status)

(* One status message answers, also if nothing was known or all failed. *)
GetStatus(names) ==
    LET all == FoldLeft(Asked, Search(<<>>, <<>>, FALSE), names)
    IN  Outcome(all.called, FALSE, all.reply)

(* The first entry whose name is anywhere in the text; its handler is      *)
(* called without asking whether there is one.                             *)
Cfg(words) ==
    LET i == SelectInSeq(elink_features_cfg,
                         LAMBDA e : \E w \in words : e.type \in Within(w))
    IN  IF i = 0 THEN Outcome(<<>>, FALSE, NoReply)
        ELSE IF elink_features_cfg[i].handler = Null THEN Outcome(<<>>, TRUE, NoReply)
        ELSE Outcome(<<elink_features_cfg[i].handler>>, FALSE, NoReply)

ByType(type) ==
    LET i == SelectInSeq(elink_features, LAMBDA e : e.type = type)
    IN  IF i = 0 \/ elink_features[i].handler = Null THEN Outcome(<<>>, FALSE, NoReply)
        ELSE Outcome(<<elink_features[i].handler>>, FALSE, NoReply)

(* names: what a get_status asks for; words: the names that occur in the   *)
(* text as they are.                                                       *)
handler_event(type, names, words) ==
    CASE type = "get_status" -> GetStatus(names)
      [] type = "cfg" -> Cfg(words)
      [] OTHER -> ByType(type)
=============================================================================
