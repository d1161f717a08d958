---------------------------- MODULE MCSettingsPage -----------------------------
(* Values for model checking SettingsPage: a notifier whose From is not the  *)
(* confirmed one beside room for another, or a usable one beside a row that  *)
(* cannot be shown.                                                          *)
EXTENDS SettingsPage, TLC

CONSTANTS n1, n2, x1, x2, l1, w1

MCNotifier == {n1, n2}
MCSetting(ebooks, second, sender) ==
  [general |-> w1, narratorr |-> l1, ebooks |-> ebooks, sender |-> sender,
   notifiers |-> n1 :> x1 @@ n2 :> second]
MCStart == {MCSetting(FALSE, "unreadable", [id |-> Nothing, mailbox |-> Nothing]),
            MCSetting(TRUE, Nothing, [id |-> n1, mailbox |-> x2])}
MCTyped == {"unparseable"}
===============================================================================
