--------------------------------- MODULE Tls ---------------------------------
(***************************************************************************)
(* The TLS 1.3 client that DNS over TLS uses (src/src/net/tls.c): records   *)
(* to content, handshake bytes to messages, the order of the handshake, the *)
(* keys of the two directions, and what is queued to be sent.              *)
(*                                                                         *)
(* Keys are numbered: 0 none yet, 1 the handshake's, 2 and on the           *)
(* application's, one more with every KeyUpdate.  A handshake message       *)
(* arrives in two halves, which a peer may put into records as it likes.    *)
(* The peer is another implementation: it follows the protocol until it    *)
(* sends something odd.                                                    *)
(***************************************************************************)
EXTENDS Integers, Sequences

CONSTANTS OUT_LIMIT,            \* records that may wait to be sent
          APP_LIMIT,            \* ELPIS_TLS_MAX_APPBUF, in records
          MaxOut, MaxSeq, MaxUpdates    \* bounds: sent in all, read under one key, KeyUpdates

VARIABLES t,                    \* elpis_tls_t
          p,                    \* the peer
          odd                   \* the peer has sent something odd
vars == <<t, p, odd>>

Working(c) == c.state \in {"handshake", "open"}
Live(c) == Len(c.out) - c.taken

\* elpis_tls_init() and start(): the ClientHello, in the clear.
Init ==
    /\ t = [state |-> "handshake", hs |-> "SH", err |-> "OK", rd |-> 0, rseq |-> 0, wr |-> 0,
            wseq |-> 0, buf |-> << >>, tr |-> <<"CH">>, req |-> FALSE, closing |-> FALSE,
            app |-> 0, out |-> <<[ct |-> "CH", ep |-> 0, seq |-> 0, tr |-> << >>]>>, taken |-> 0]
    /\ p = [tr |-> <<"CH">>, cur |-> "none", curtr |-> << >>, wr |-> 0, seq |-> 0, updates |-> 0, closed |-> FALSE]
    /\ odd = FALSE
-----------------------------------------------------------------------------
(* Writing                                                                 *)

\* put_record(): sealed once there are keys; no room fails the connection.
Full(c) == Live(c) >= OUT_LIMIT
Put(c, ct, tr) ==
    [c EXCEPT !.out = Append(@, [ct |-> ct, ep |-> c.wr, seq |-> c.wseq, tr |-> tr]),
              !.wseq = IF c.wr = 0 THEN 0 ELSE @ + 1]

\* fail(): why, an alert if there is room and one is due, and no key is kept.
Ended(c, why) == [c EXCEPT !.state = "failed", !.err = why, !.rd = 0, !.wr = 0]
FailQuietly(c, why) == IF Working(c) THEN Ended(c, why) ELSE c
Fail(c, why) ==
    IF ~Working(c) THEN c
    ELSE Ended(IF Full(c) THEN c ELSE Put(c, "ALERT", << >>), why)

\* put_plain().
PutClear(c, ct) ==
    [c EXCEPT !.out = Append(@, [ct |-> ct, ep |-> 0, seq |-> 0, tr |-> << >>])]

\* put_record() in the midst of the handshake, and fail_buf().
PutOrFail(c, ct, tr) == IF ~Working(c) THEN c
                        ELSE IF Full(c) THEN Fail(c, "TOOBIG") ELSE Put(c, ct, tr)

\* set_keys() for one direction: the count of records starts again.
ReadKey(c) == [c EXCEPT !.rd = @ + 1, !.rseq = 0]
WriteKey(c) == [c EXCEPT !.wr = @ + 1, !.wseq = 0]
-----------------------------------------------------------------------------
(* The handshake                                                           *)

Hashed(c, m) == [c EXCEPT !.tr = Append(@, m)]

OnServerHello(c, m) ==
    IF ~m.ok THEN Fail(c, "PARAM")
    ELSE [WriteKey(ReadKey(Hashed(c, "SH"))) EXCEPT !.hs = "EE"]

\* on_finished(): checked against what was hashed; then our flight under the
\* handshake key, an empty Certificate if one was asked for, and the new keys.
OnFinished(c, m) ==
    IF m.tr # c.tr THEN Fail(c, "FINISHED")
    ELSE LET a == IF Full(c) THEN Fail(c, "TOOBIG") ELSE PutClear(Hashed(c, "FIN"), "CCS")
             b == IF c.req THEN PutOrFail(Hashed(a, "CCERT"), "CCERT", << >>) ELSE a
             d == PutOrFail(b, "FIN", b.tr)
         IN  IF ~Working(d) THEN d
             ELSE [WriteKey(ReadKey(d)) EXCEPT !.hs = "DONE", !.state = "open"]

\* on_key_update(): the peer's next key, and ours too when it asks.
OnKeyUpdate(c, m) ==
    IF ~m.ok THEN Fail(c, "PARAM")
    ELSE LET a == ReadKey(c)
             b == PutOrFail(a, "KU", << >>)
         IN  IF m.m = "KU" \/ c.closing THEN a ELSE IF Working(b) THEN WriteKey(b) ELSE b

\* The messages that only have to have the right shape: EncryptedExtensions,
\* CertificateRequest, Certificate, CertificateVerify.
Step(c, m, next) ==
    IF ~m.ok THEN Fail(c, "DECODE")
    ELSE [Hashed(c, m.m) EXCEPT !.hs = next, !.req = @ \/ m.m = "CR"]

OnMessage(c, m) ==
    CASE c.hs = "SH" /\ m.m = "SH" -> OnServerHello(c, m)
      [] c.hs = "EE" /\ m.m = "EE" -> Step(c, m, "CERT_CR")
      [] c.hs = "CERT_CR" /\ m.m = "CR" -> Step(c, m, "CERT")
      [] c.hs \in {"CERT_CR", "CERT"} /\ m.m = "CERT" -> Step(c, m, "CV")
      [] c.hs = "CV" /\ m.m = "CV" -> Step(c, m, "FIN")
      [] c.hs = "FIN" /\ m.m = "FIN" -> OnFinished(c, m)
      [] c.hs = "DONE" /\ m.m = "TICKET" -> c
      [] c.hs = "DONE" /\ m.m \in {"KU", "KUR"} -> OnKeyUpdate(c, m)
      [] OTHER -> Fail(c, "UNEXPECTED")

\* Mutant: what is left of a message stays where the keys change.
Messages_Left(c) ==
    LET rest[k \in 0 .. 3] ==
            IF k = 0 THEN c
            ELSE LET d == rest[k - 1]
                 IN  IF ~Working(d) \/ Len(d.buf) < 2 THEN d
                     ELSE OnMessage([d EXCEPT !.buf = Tail(Tail(@))], d.buf[1])
    IN  rest[3]

\* The loop of on_handshake(): every whole message; nothing may be left over where
\* the handshake changes the keys.
RECURSIVE Messages(_)
Messages(c) ==
    IF ~Working(c) \/ Len(c.buf) < 2 THEN c
    ELSE LET u == OnMessage([c EXCEPT !.buf = Tail(Tail(@))], c.buf[1])
         IN  IF c.hs \in {"SH", "FIN"} /\ u.hs # c.hs /\ u.buf # << >> THEN Fail(u, "UNEXPECTED")
             ELSE Messages(u)

OnHandshake(c, halves) ==
    IF halves = << >> THEN Fail(c, "DECODE") ELSE Messages([c EXCEPT !.buf = @ \o halves])

OnAlert(c, kind) ==
    CASE kind = "bad" -> Fail(c, "DECODE")
      [] kind = "canceled" -> c
      [] kind = "close" /\ c.hs = "DONE" -> [c EXCEPT !.state = "closed"]
      [] OTHER -> FailQuietly(c, "ALERT")

\* Mutant: application data is taken as it comes.
OnContent_Any(c, ct, x) ==
    CASE ct = "HS" -> OnHandshake(c, x)
      [] ct = "ALERT" -> OnAlert(c, x)
      [] OTHER -> IF c.app >= APP_LIMIT THEN Fail(c, "TOOBIG") ELSE [c EXCEPT !.app = @ + 1]

OnContent(c, ct, x) ==
    IF ct # "HS" /\ c.buf # << >> THEN Fail(c, "UNEXPECTED")
    ELSE CASE ct = "HS" -> OnHandshake(c, x)
           [] ct = "ALERT" -> OnAlert(c, x)
           [] ct = "APP" -> IF c.hs # "DONE" THEN Fail(c, "UNEXPECTED")
                            ELSE IF c.app >= APP_LIMIT THEN Fail(c, "TOOBIG")
                            ELSE [c EXCEPT !.app = @ + 1]
           [] OTHER -> Fail(c, "UNEXPECTED")

\* on_record(): a sealed record looks like application data from outside.
OnRecord(c, r) ==
    LET outer == IF r.ep = 0 THEN r.ct ELSE "APP"
        ok == IF outer = "CCS" THEN c.hs # "DONE" /\ r.x = "one"
              ELSE outer = (IF c.rd = 0 THEN "HS" ELSE "APP")
    IN  IF outer = "ALERT" /\ c.hs # "DONE" THEN OnAlert(c, r.x)
        ELSE IF ~ok THEN Fail(c, "UNEXPECTED")
        ELSE IF outer = "CCS" THEN c
        ELSE IF c.rd = 0 THEN OnContent(c, "HS", r.x)
        ELSE IF r.ep # c.rd \/ r.seq # c.rseq THEN Fail(c, "DECRYPT")
        ELSE OnContent([c EXCEPT !.rseq = @ + 1], r.ct, r.x)

\* elpis_tls_feed() once a record is whole.
Fed(r) == t' = IF Working(t) THEN OnRecord(t, r) ELSE t
-----------------------------------------------------------------------------
(* The caller                                                              *)

\* elpis_tls_write().
Write ==
    /\ t.state = "open" /\ ~t.closing /\ ~Full(t) /\ Len(t.out) < MaxOut
    /\ t' = Put(t, "APP", << >>) /\ UNCHANGED <<p, odd>>
\* elpis_tls_out() and elpis_tls_out_done().
OutDone == Live(t) > 0 /\ t' = [t EXCEPT !.taken = Len(t.out)] /\ UNCHANGED <<p, odd>>
\* elpis_tls_read().
Read == t.app > 0 /\ t' = [t EXCEPT !.app = 0] /\ UNCHANGED <<p, odd>>
\* elpis_tls_close(): also after the peer has closed.
Close ==
    /\ ~t.closing /\ t.wr > 0 /\ t.hs = "DONE"
    /\ t' = [(IF Full(t) THEN t ELSE Put(t, "CLOSE", << >>)) EXCEPT !.closing = TRUE]
    /\ UNCHANGED <<p, odd>>
-----------------------------------------------------------------------------
(* The peer                                                                *)

Msg(m, ok, tr) == [m |-> m, ok |-> ok, tr |-> tr]
Last(s) == s[Len(s)]
After(s) ==                             \* what a server sends next
    CASE Last(s) = "CH" -> {"SH"} [] Last(s) = "SH" -> {"EE"} [] Last(s) = "EE" -> {"CR", "CERT"}
      [] Last(s) = "CR" -> {"CERT"} [] Last(s) = "CERT" -> {"CV"} [] Last(s) = "CV" -> {"FIN"}
      [] OTHER -> {"TICKET", "KU", "KUR"}
Finished == Last(p.tr) = "FIN"
Changes(m) == m \in {"SH", "FIN", "KU", "KUR"}  \* the record ends where the keys change

Record(ct, x) == [ct |-> ct, ep |-> p.wr, seq |-> p.seq, x |-> x]
Clear(ct, x) == [ct |-> ct, ep |-> 0, seq |-> 0, x |-> x]
Sent == [p EXCEPT !.seq = IF p.wr = 0 THEN 0 ELSE @ + 1]

\* A record with the rest of a message begun before, and none, half or all of the
\* next one.
PeerSend ==
    \E m \in After(p.tr), k \in 0 .. 2 :
        LET head == IF p.cur = "none" THEN << >> ELSE <<Msg(p.cur, TRUE, p.curtr)>>
            next == Msg(m, TRUE, p.tr)
            ends == CASE k = 0 -> p.cur [] k = 1 -> "none" [] k = 2 -> m
        IN  /\ ~p.closed /\ Len(head) + k > 0
            /\ Changes(p.cur) => k = 0
            /\ Finished /\ k > 0 => p.seq < MaxSeq
            /\ k > 0 /\ Changes(m) /\ Finished => p.updates < MaxUpdates
            /\ Fed(Record("HS", head \o [i \in 1 .. k |-> next]))
            /\ p' = [p EXCEPT !.cur = IF k = 1 THEN m ELSE "none",
                              !.curtr = IF k = 1 THEN p.tr ELSE << >>,
                              !.tr = IF k = 0 \/ Finished THEN @ ELSE Append(@, m),
                              !.updates = @ + (IF k > 0 /\ m \in {"KU", "KUR"} THEN 1 ELSE 0),
                              !.wr = @ + (IF Changes(ends) THEN 1 ELSE 0),
                              !.seq = IF Changes(ends) \/ p.wr = 0 THEN 0 ELSE @ + 1]
            /\ UNCHANGED odd

\* Between messages: the record for middleboxes, data, and the end.
PeerCcs == p.cur = "none" /\ p.wr = 1 /\ ~p.closed /\ Fed(Clear("CCS", "one")) /\ UNCHANGED <<p, odd>>
PeerData ==
    /\ p.cur = "none" /\ p.wr > 1 /\ ~p.closed /\ t.app < APP_LIMIT /\ p.seq < MaxSeq
    /\ Fed(Record("APP", "data")) /\ p' = Sent /\ UNCHANGED odd
PeerClose ==
    /\ p.cur = "none" /\ p.wr > 1 /\ ~p.closed
    /\ Fed(Record("ALERT", "close")) /\ p' = [Sent EXCEPT !.closed = TRUE] /\ UNCHANGED odd

\* Something odd, once: what the protocol has no place for.
OddMessages ==
    {Msg(m, ok, << >>) : ok \in BOOLEAN, m \in {"SH", "EE", "CR", "CERT", "CV", "FIN", "KUR"}}
OddRecords ==
    {Clear("CCS", "bad"), Clear("CCS", "one"), Clear("APP", "data"),
     Record("APP", "data"), [Record("APP", "data") EXCEPT !.ep = @ + 1]}
    \union {Clear("ALERT", x) : x \in {"canceled", "close", "fatal", "bad"}}
    \union {Record("ALERT", x) : x \in {"canceled", "close", "fatal", "bad"}}
OddHandshakes ==
    {Record("HS", << >>)} \union {Record("HS", <<m, m>>) : m \in OddMessages}
    \union {Record("HS", <<m, m, Msg("EE", TRUE, << >>)>>) : m \in OddMessages}
    \union {Clear("HS", <<m, m>>) : m \in OddMessages}
Strays(r) == Fed(r) /\ p' = IF r.ep = p.wr THEN Sent ELSE p
PeerOdd ==
    /\ ~odd /\ ~p.closed /\ odd' = TRUE
    /\ (\E r \in OddRecords : Strays(r)) \/ \E r \in OddHandshakes : Strays(r)

Next == PeerSend \/ PeerCcs \/ PeerData \/ PeerClose \/ PeerOdd
        \/ Write \/ OutDone \/ Read \/ Close
Spec == Init /\ [][Next]_vars
-----------------------------------------------------------------------------
(* Properties                                                              *)

\* A peer that follows the protocol, however it splits and joins its messages,
\* never sees the client fail, unless the caller leaves what is queued where it is.
HonestServed == t.state = "failed" => odd \/ t.err = "TOOBIG"

\* The two ends hold the same keys: whenever the peer has sent what it began, the
\* client reads with the key, and the count of records, that the peer writes with.
KeysAgree ==
    Working(t) /\ ~odd /\ p.cur = "none" => t.rd = p.wr /\ (t.rd > 0 => t.rseq = p.seq)

\* What is queued can be read at the other end, in order: after the ClientHello
\* everything but the record for middleboxes is sealed, the count of records starts
\* at 0 with every key and goes up by one, so that no key seals two records with
\* one nonce, and the key changes right after the Finished or a KeyUpdate.
Decipherable ==
    LET sealed == SelectSeq(t.out, LAMBDA r : r.ep > 0)
    IN  /\ \A i \in 2 .. Len(t.out) : t.out[i].ep = 0 =>
              t.out[i].ct = "CCS" \/ (t.out[i].ct = "ALERT" /\ sealed = << >>)
        /\ sealed # << >> => sealed[1].ep = 1 /\ sealed[1].seq = 0
        /\ \A i \in 1 .. Len(sealed) - 1 :
              IF sealed[i].ct \in {"FIN", "KU"}
              THEN sealed[i + 1].ep = sealed[i].ep + 1 /\ sealed[i + 1].seq = 0
              ELSE sealed[i + 1].ep = sealed[i].ep /\ sealed[i + 1].seq = sealed[i].seq + 1

\* The connection is open, and data is handed over, only after the whole handshake,
\* in order, was hashed and the peer's Finished agreed with it.
OpenIsProven ==
    t.state = "open" \/ t.app > 0 \/ (\E i \in DOMAIN t.out : t.out[i].ct = "APP") =>
        t.tr \in {<<"CH", "SH", "EE", "CERT", "CV", "FIN">>,
                  <<"CH", "SH", "EE", "CR", "CERT", "CV", "FIN", "CCERT">>}

\* No part of a message read in the clear, or under the keys of the handshake, is
\* joined to one read under the keys that follow.
NothingStraddles ==
    Working(t) /\ Working(t') /\ t.rd < 2 /\ t'.rd # t.rd => t'.buf = << >>

\* After a failure there are no keys and nothing more is queued.
FailedIsSilent ==
    t.state = "failed" => t'.state = "failed" /\ t'.out = t.out /\ t.rd = 0 /\ t.wr = 0
=============================================================================
