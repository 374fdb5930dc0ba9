----------------------------- MODULE LoginMessages -----------------------------
(***************************************************************************)
(* The bytes of a login: the PRELOGIN message (src/src/prelogin-payload.ts),*)
(* LOGIN7 (login7-payload.ts) as connection.ts fills it in, the messages   *)
(* of NTLM (ntlm.ts, ntlm-payload.ts, sspi-token-parser.ts) and the tokens *)
(* that only a login's response has (loginack, fedauth-info and            *)
(* feature-ext-ack parsers).                                               *)
(*                                                                         *)
(* A login is a record: how it authenticates, the texts of the options,    *)
(* and what the server answers to PRELOGIN.  A text that is not given is   *)
(* empty.  Domains are letters, in upper case as the constructor makes     *)
(* them.  The server (external) takes the messages apart by their offsets. *)
(***************************************************************************)
EXTENDS Bytes

-----------------------------------------------------------------------------
(* PRELOGIN *)

TOKEN == [VERSION |-> 0, ENCRYPTION |-> 1, INSTOPT |-> 2, THREADID |-> 3, MARS |-> 4,
          FEDAUTHREQUIRED |-> 6, TERMINATOR |-> 255]
ENCRYPT == [OFF |-> 0, ON |-> 1, NOT_SUP |-> 2, REQ |-> 3]

Option(token, data) == [token |-> token, data |-> data]

\* version: major, minor, build
PreloginOptions(encrypt, version) ==
    << Option(TOKEN.VERSION, <<version[1], version[2]>> \o BE(version[3], 2) \o BE(0, 2)),
       Option(TOKEN.ENCRYPTION, <<IF encrypt THEN ENCRYPT.ON ELSE ENCRYPT.NOT_SUP>>),
       Option(TOKEN.INSTOPT, <<0>>), Option(TOKEN.THREADID, BE(0, 4)),
       Option(TOKEN.MARS, <<0>>), Option(TOKEN.FEDAUTHREQUIRED, <<1>>) >>

SizeBefore(options, j) ==
    FoldLeft(LAMBDA n, option : n + Len(option.data), 0, SubSeq(options, 1, j - 1))

\* An index that says where the data of each option is, and then the data
createOptions(options) ==
    FlattenSeq([j \in 1..Len(options) |->
        <<options[j].token>> \o BE(5 * Len(options) + 1 + SizeBefore(options, j), 2)
                             \o BE(Len(options[j].data), 2)])
    \o <<TOKEN.TERMINATOR>> \o FlattenSeq([j \in 1..Len(options) |-> options[j].data])

\* The data of the last option of each kind, as long as the kind is; a thread may be empty.
extractOptions(b) ==
    LET BE2(p) == Unsigned(<<b[p + 2], b[p + 1]>>)
        count  == CHOOSE n \in 0..(Len(b) \div 5) :
                    b[5 * n + 1] = TOKEN.TERMINATOR /\ \A m \in 0..(n - 1) : b[5 * m + 1] # TOKEN.TERMINATOR
        given(token) == {n \in 0..(count - 1) : /\ b[5 * n + 1] = token
                                                /\ token = TOKEN.THREADID => BE2(5 * n + 3) > 0}
        data(token, size) ==
            IF given(token) = {} THEN Null
            ELSE LET last == CHOOSE n \in given(token) : \A m \in given(token) : m <= n
                     from == BE2(5 * last + 1)
                 IN  SubSeq(b, from + 1, from + size)
    IN  [version |-> data(TOKEN.VERSION, 6), encryption |-> data(TOKEN.ENCRYPTION, 1),
         instance |-> data(TOKEN.INSTOPT, 1), threadId |-> data(TOKEN.THREADID, 4),
         mars |-> data(TOKEN.MARS, 1), fedAuthRequired |-> data(TOKEN.FEDAUTHREQUIRED, 1)]

-----------------------------------------------------------------------------
(* NTLM.  md4 and the HMAC are external: any function of the bytes will do.  *)

Digest(bytes) ==
    CHOOSE digest \in {[i \in 1..16 |-> ((i + 2) * h) % 251] :
                       h \in {FoldLeft(LAMBDA n, byte : (31 * n + byte + 1) % 65521, 7, bytes)}} : TRUE
md4(bytes) == Digest(bytes)
hmacMD5(data, key) == Digest(key \o data)

Upper(text) == [i \in 1..Len(text) |-> IF text[i] \in 97..122 THEN text[i] - 32 ELSE text[i]]

Magic == <<78, 84, 76, 77, 83, 83, 80, 0>>          \* "NTLMSSP"
type1flags == <<7, 146, 8, 162>>                    \* without a workstation
SecurityField(n, offset) == LE(n, 2) \o LE(n, 2) \o LE(offset, 4)

createNTLMRequest(domain) ==
    Magic \o LE(1, 4) \o type1flags \o SecurityField(Len(domain), 40) \o SecurityField(0, 40)
    \o <<5, 0>> \o LE(2195, 2) \o <<0, 0, 0, 15>> \o Upper(domain)

\* The offsets of the domain and of the target are not looked at.
parseChallenge(b) ==
    LET domainLen == Signed(SubSeq(b, 13, 14))
        targetLen == Signed(SubSeq(b, 41, 42))
    IN  [nonce  |-> SubSeq(b, 25, 32),
         domain |-> FromUcs2(SubSeq(b, 57, 56 + domainLen)),
         target |-> SubSeq(b, 57 + domainLen, 56 + domainLen + targetLen)]

ntHash(password) == md4(Ucs2(password))
ntv2Hash(domain, user, password) ==
    hmacMD5(Ucs2(Upper(user) \o Upper(domain)), ntHash(password))
lmv2Response(hash, serverNonce, clientNonce) ==
    hmacMD5(serverNonce \o clientNonce, hash) \o clientNonce
Blob(timestamp, clientNonce, target) ==
    LE(257, 4) \o LE(0, 4) \o timestamp \o clientNonce \o LE(0, 4) \o target \o LE(0, 4)
ntlmv2Response(hash, serverNonce, timestamp, clientNonce, target) ==
    hmacMD5(serverNonce \o Blob(timestamp, clientNonce, target), hash)

\* Random numbers and the clock
ClientNonce == <<11, 12, 13, 14, 15, 16, 17, 18>>
Timestamp8  == <<21, 22, 23, 24, 25, 26, 27, 28>>

createResponse(login, challenge) ==
    LET unIdx == 64 + 2 * Len(login.domain)
        l2Idx == unIdx + 2 * Len(login.userName)
        hash  == ntv2Hash(login.domain, login.userName, login.password)
    IN  Magic \o LE(3, 4) \o SecurityField(24, l2Idx) \o SecurityField(16, l2Idx + 24)
        \o SecurityField(2 * Len(login.domain), 64) \o SecurityField(2 * Len(login.userName), unIdx)
        \o SecurityField(0, 64) \o SecurityField(0, 64) \o LE(33281, 2) \o LE(8, 2)
        \o Ucs2(login.domain) \o Ucs2(login.userName)
        \o lmv2Response(hash, challenge.nonce, ClientNonce)
        \o ntlmv2Response(hash, challenge.nonce, Timestamp8, ClientNonce, challenge.target)
        \o Blob(Timestamp8, ClientNonce, challenge.target)

-----------------------------------------------------------------------------
(* LOGIN7 *)

versions == [v7_1 |-> 1895825409, v7_2 |-> 1913192450, v7_3_A |-> 1930035203,
             v7_3_B |-> 1930100739, v7_4 |-> 1946157060, v8_0 |-> 134217728]

FEATURE_ID == [FEDAUTH |-> 2, UTF8_SUPPORT |-> 10, TERMINATOR |-> 255]
FedAuthTypes == {"password", "integrated", "token"}     \* ADAL, ADAL, SECURITYTOKEN

\* The flags that are set, of those there are
FLAGS_1 == [BCP_DUMPLOAD_OFF |-> 16, USE_DB_OFF |-> 32, INIT_DB_FATAL |-> 64, SET_LANG_WARN_ON |-> 128]
FLAGS_2 == [INTEGRATED_SECURITY_ON |-> 128]
TYPE_FLAGS == [READ_ONLY_INTENT |-> 32]
FLAGS_3 == [UNKNOWN_COLLATION_HANDLING |-> 8, EXTENSION_USED |-> 16]
FEDAUTH_OPTIONS == [LIBRARY_SECURITYTOKEN |-> 1, LIBRARY_ADAL |-> 2, ADAL_WORKFLOW_USER_PASS |-> 1,
                    ADAL_WORKFLOW_INTEGRATED |-> 2]

buildOptionFlags1(login) ==
    FLAGS_1.BCP_DUMPLOAD_OFF + FLAGS_1.USE_DB_OFF + FLAGS_1.SET_LANG_WARN_ON
    + (IF login.fallbackToDefaultDb THEN 0 ELSE FLAGS_1.INIT_DB_FATAL)
buildOptionFlags2(sspi) == IF sspi # <<>> THEN FLAGS_2.INTEGRATED_SECURITY_ON ELSE 0
buildTypeFlags(login) == IF login.readOnlyIntent THEN TYPE_FLAGS.READ_ONLY_INTENT ELSE 0
buildOptionFlags3 == FLAGS_3.UNKNOWN_COLLATION_HANDLING + FLAGS_3.EXTENSION_USED

\* A feature: what it is, the length of its data, and the data
Feature(id, data) == <<id>> \o LE(Len(data), 4) \o data
buildFeatureExt(login, fedAuthRequired) ==
    LET first(library) == <<2 * library + (IF fedAuthRequired THEN 1 ELSE 0)>>
        adal(workflow) ==
            Feature(FEATURE_ID.FEDAUTH, Append(first(FEDAUTH_OPTIONS.LIBRARY_ADAL), workflow))
    IN  (CASE login.authentication = "password"   -> adal(FEDAUTH_OPTIONS.ADAL_WORKFLOW_USER_PASS)
           [] login.authentication = "integrated" -> adal(FEDAUTH_OPTIONS.ADAL_WORKFLOW_INTEGRATED)
           [] login.authentication = "token" ->
                Feature(FEATURE_ID.FEDAUTH, first(FEDAUTH_OPTIONS.LIBRARY_SECURITYTOKEN)
                                            \o LE(2 * Len(login.token), 4) \o Ucs2(login.token))
           [] login.authentication \notin FedAuthTypes -> <<>>)
        \o (IF login.tdsVersion >= versions.v7_4 THEN Feature(FEATURE_ID.UTF8_SUPPORT, <<1>>) ELSE <<>>)
        \o <<FEATURE_ID.TERMINATOR>>

\* The halves of a byte are swapped and it is XORed with 0xA5.
Xor(a, b) == FoldLeft(LAMBDA n, i : n + 2^i * (((a \div 2^i) + (b \div 2^i)) % 2), 0,
                      <<0, 1, 2, 3, 4, 5, 6, 7>>)
scramblePassword(b) == [i \in 1..Len(b) |-> Xor(16 * (b[i] % 16) + (b[i] \div 16), 165)]

FixedLength == 94
Chars(text) == [count |-> Len(text), data |-> Ucs2(text)]
\* The extension is behind the offset to it, and `before` are the texts in front.
Extension(before, extensions) ==
    [count |-> 4, data |-> LE(FixedLength + SizeBefore(before, Len(before) + 1) + 4, 4) \o extensions]

Login7Texts(login, isStandard, extensions) ==
    LET before == << [Chars(login.hostname) EXCEPT !.count = IF login.hostname = <<>> THEN FixedLength ELSE @],
                     Chars(IF isStandard THEN login.userName ELSE <<>>),
                     [Chars(IF isStandard THEN login.password ELSE <<>>) EXCEPT !.data = scramblePassword(@)],
                     Chars(login.appName), Chars(login.serverName) >>
    IN  before \o << Extension(before, extensions), Chars(login.libraryName), Chars(login.language),
                     Chars(login.database) >>

Index(texts, i) == LE(FixedLength + SizeBefore(texts, i), 2) \o LE(texts[i].count, 2)
ClientId == <<1, 2, 3, 4, 5, 6>>

\* What is in front of the index; the version of the program and the connection are 0.
Header(login, length, sspi) ==
    LE(length, 4) \o LE(login.tdsVersion, 4) \o LE(login.packetSize, 4)
    \o LE(0, 4) \o LE(login.pid, 4) \o LE(0, 4)
    \o <<buildOptionFlags1(login), buildOptionFlags2(sspi), buildTypeFlags(login), buildOptionFlags3>>
    \o LE(login.timeZone, 4) \o LE(1033, 4)

\* The files to attach and the new password, which no option sets, are empty.
toBuffer(login, sspi, texts) ==
    LET end  == FixedLength + SizeBefore(texts, Len(texts) + 1)
        data == FlattenSeq([i \in 1..Len(texts) |-> texts[i].data]) \o sspi
    IN  Header(login, FixedLength + Len(data), sspi)
        \o FlattenSeq([i \in 1..Len(texts) |-> Index(texts, i)]) \o ClientId
        \o LE(end, 2) \o LE(IF Len(sspi) > MAX THEN MAX ELSE Len(sspi), 2)
        \o LE(end, 2) \o LE(0, 2) \o LE(end, 2) \o LE(0, 2)
        \o LE(IF Len(sspi) > MAX THEN Len(sspi) ELSE 0, 4)
        \o data

Login7Payload(login, fedAuthRequired) ==
    LET texts == Login7Texts(login, login.authentication = "default",
                             buildFeatureExt(login, fedAuthRequired))
        sspi  == IF login.authentication = "ntlm" THEN createNTLMRequest(login.domain) ELSE <<>>
    IN  CHOOSE message \in {toBuffer(login, sspi, given) : given \in {texts}} : TRUE

FedAuthTokenMessage(token) ==
    LE(2 * Len(token) + 4, 4) \o LE(2 * Len(token), 4) \o Ucs2(token)

-----------------------------------------------------------------------------
(* The tokens of a login's response *)

interfaceTypes == {0, 1}
ReadUInt32BE(b, p) == Read(b, p, 4, LAMBDA bytes : Unsigned(Reverse(bytes)))

\* A version or an interface that is not known is undefined.
ReadLoginAck(b, p) ==
    Then(ReadUsVarByte(b, p), LAMBDA content, end :
    Then(ReadUInt8(b, p + 2), LAMBDA interface, q :
    Then(ReadUInt32BE(b, q), LAMBDA tdsVersion, r :
    Then(ReadBVarChar(b, r), LAMBDA progName, s :
    Then(ReadBytes(b, s, 4), LAMBDA progVersion, t :
        Result(<<IF interface \in interfaceTypes THEN <<interface>> ELSE Null,
                 IF \E v \in DOMAIN versions : versions[v] = tdsVersion THEN <<tdsVersion>> ELSE Null,
                 progName, progVersion>>, t))))))

FEDAUTHINFOID == [STSURL |-> 1, SPN |-> 2]
readFedAuthInfo(data) ==
    LET count == Unsigned(SubSeq(data, 1, 4))
        number(i, k) == Unsigned(SubSeq(data, 4 + 9 * (i - 1) + k, 7 + 9 * (i - 1) + k))
        ofKind(id) == {i \in 1..count : data[4 + 9 * (i - 1) + 1] = id}
        text(id) ==
            IF ofKind(id) = {} THEN Null
            ELSE LET last == CHOOSE i \in ofKind(id) : \A j \in ofKind(id) : j <= i
                 IN  FromUcs2(SubSeq(data, number(last, 6) + 1, number(last, 6) + number(last, 2)))
    IN  <<text(FEDAUTHINFOID.SPN), text(FEDAUTHINFOID.STSURL)>>
ReadFedAuthInfo(b, p) ==
    Then(ReadUInt32LE(b, p), LAMBDA n, q :
        Then(ReadBytes(b, q, n), LAMBDA data, r : Result(readFedAuthInfo(data), r)))

\* Features up to the terminator, at most so many
MaxFeatures == 4
IsTerminated(features) ==
    features # <<>> /\ Last(features).id = FEATURE_ID.TERMINATOR
ReadFeature(b, p) ==
    Then(ReadUInt8(b, p), LAMBDA id, q :
        IF id = FEATURE_ID.TERMINATOR THEN Result([id |-> id, data |-> <<>>], q)
        ELSE Then(ReadUInt32LE(b, q), LAMBDA n, r :
             Then(ReadBytes(b, r, n), LAMBDA data, s : Result([id |-> id, data |-> data], s))))
ReadFeatureExtAck(b, p) ==
    LET all == FoldLeft(LAMBDA read, i :
                    Then(read, LAMBDA features, q :
                        IF IsTerminated(features) THEN read
                        ELSE Then(ReadFeature(b, q), LAMBDA feature, r :
                                Result(Append(features, feature), r))),
                 Result(<<>>, p), [i \in 1..(MaxFeatures + 1) |-> i])
        dataOf(features, id) ==
            FoldLeft(LAMBDA data, f : IF f.id = id THEN f.data ELSE data, Null, features)
    IN  Then(all, LAMBDA features, q :
            LET utf8Support == dataOf(features, FEATURE_ID.UTF8_SUPPORT)
            IN  Result(<<dataOf(features, FEATURE_ID.FEDAUTH),
                         IF utf8Support = Null THEN Null
                         ELSE <<IF utf8Support # <<>> /\ utf8Support[1] # 0 THEN 1 ELSE 0>> >>, q))

ReadSSPI(b, p) ==
    Then(ReadUsVarByte(b, p), LAMBDA data, q :
        LET challenge == parseChallenge(data)
        IN  Result(<<challenge.nonce, challenge.domain, challenge.target>>, q))

-----------------------------------------------------------------------------
(* The server (external): what the messages say, taken apart by offsets      *)

Sub(b, from, n) == SubSeq(b, from + 1, from + n)
NumberAt(b, p, n) == Unsigned(Sub(b, p, n))

\* The server's options come in another order than their data, with a thread that is
\* empty, and the last one only if the login says so.
ServerPrelogin(login) ==
    LET option(token, from, n) == <<token>> \o BE(from, 2) \o BE(n, 2)
        fedAuth == login.serverFedAuth # <<>>
        n       == IF fedAuth THEN 31 ELSE 26
    IN  option(TOKEN.ENCRYPTION, n + 6, 1) \o option(TOKEN.VERSION, n, 6)
        \o option(TOKEN.THREADID, n + 9, 0) \o option(TOKEN.INSTOPT, n + 7, 1)
        \o option(TOKEN.MARS, n + 8, 1)
        \o (IF fedAuth THEN option(TOKEN.FEDAUTHREQUIRED, n + 9, 1) ELSE <<>>)
        \o <<TOKEN.TERMINATOR>>
        \o <<15, 0>> \o BE(2000, 2) \o BE(0, 2) \o <<ENCRYPT.NOT_SUP>> \o <<0>> \o <<0>> \o login.serverFedAuth

PreloginSays(login, b) ==
    extractOptions(b) =
        [version |-> <<login.version[1], login.version[2]>> \o BE(login.version[3], 2) \o <<0, 0>>,
         encryption |-> IF login.encrypt THEN <<1>> ELSE <<2>>, instance |-> <<0>>,
         threadId |-> <<0, 0, 0, 0>>, mars |-> <<0>>, fedAuthRequired |-> <<1>>]

\* The i-th text of LOGIN7; the features, behind an offset to them
Login7Bytes(b, i, width) == Sub(b, NumberAt(b, 32 + 4 * i, 2), width * NumberAt(b, 34 + 4 * i, 2))
Login7Text(b, i) == FromUcs2(Login7Bytes(b, i, 2))
Unscrambled(b) == [i \in 1..Len(b) |-> LET x == Xor(b[i], 165) IN 16 * (x % 16) + (x \div 16)]
RECURSIVE Features(_, _)
Features(b, p) ==
    IF b[p + 1] = 255 THEN <<>>
    ELSE <<[id |-> b[p + 1], data |-> Sub(b, p + 5, NumberAt(b, p + 1, 4))]>>
            \o Features(b, p + 5 + NumberAt(b, p + 1, 4))

RequestedFeatures(login) ==
    LET echo == IF login.serverFedAuth = <<1>> THEN 1 ELSE 0
    IN  (CASE login.authentication = "password"   -> <<[id |-> 2, data |-> <<4 + echo, 1>>]>>
           [] login.authentication = "integrated" -> <<[id |-> 2, data |-> <<4 + echo, 2>>]>>
           [] login.authentication = "token" ->
                <<[id |-> 2, data |-> <<2 + echo>> \o LE(2 * Len(login.token), 4) \o Ucs2(login.token)]>>
           [] OTHER -> <<>>)
        \o (IF login.tdsVersion = versions.v7_4 THEN <<[id |-> 10, data |-> <<1>>]>> ELSE <<>>)

\* The domain of an NTLM negotiation
NegotiatedDomain(b) == Sub(b, NumberAt(b, 20, 4), NumberAt(b, 16, 2))

Login7Says(login, b) ==
    LET standard == login.authentication = "default"
        sspi     == Sub(b, NumberAt(b, 78, 2), NumberAt(b, 80, 2))
        given(text) == IF standard THEN text ELSE <<>>
    IN  /\ NumberAt(b, 0, 4) = Len(b)
        /\ NumberAt(b, 4, 4) = login.tdsVersion /\ NumberAt(b, 8, 4) = login.packetSize
        /\ NumberAt(b, 16, 4) = login.pid
        /\ (b[25] \div 64) % 2 = (IF login.fallbackToDefaultDb THEN 0 ELSE 1)
        /\ (b[26] \div 128) % 2 = (IF login.authentication = "ntlm" THEN 1 ELSE 0)
        /\ (b[27] \div 32) % 2 = (IF login.readOnlyIntent THEN 1 ELSE 0)
        /\ Login7Text(b, 1) = login.hostname
        /\ Login7Text(b, 2) = given(login.userName)
        /\ FromUcs2(Unscrambled(Login7Bytes(b, 3, 2))) = given(login.password)
        /\ Login7Text(b, 4) = login.appName /\ Login7Text(b, 5) = login.serverName
        /\ Features(b, NumberAt(Login7Bytes(b, 6, 1), 0, 4)) = RequestedFeatures(login)
        /\ Login7Text(b, 7) = login.libraryName /\ Login7Text(b, 8) = login.language
        /\ Login7Text(b, 9) = login.database
        /\ login.authentication = "ntlm" =>
              SubSeq(sspi, 1, 12) = Magic \o LE(1, 4) /\ NegotiatedDomain(sspi) = Upper(login.domain)
        /\ login.authentication # "ntlm" => sspi = <<>>
        /\ NumberAt(b, 78, 2) + Len(sspi) = Len(b)

\* The blob is what follows the response, which the field ends before.
NTLMSays(login, challenge, b) ==
    LET field(p) == Sub(b, NumberAt(b, p + 4, 4), NumberAt(b, p, 2))
        hash     == hmacMD5(Ucs2(Upper(login.userName) \o Upper(login.domain)), md4(Ucs2(login.password)))
        nonce    == Sub(challenge, 24, 8)
        target   == SubSeq(challenge, 57 + NumberAt(challenge, 12, 2), Len(challenge))
        blob     == SubSeq(b, NumberAt(b, 24, 4) + 17, Len(b))
    IN  /\ SubSeq(b, 1, 12) = Magic \o LE(3, 4)
        /\ FromUcs2(field(28)) = login.domain /\ FromUcs2(field(36)) = login.userName
        /\ SubSeq(field(12), 1, 16) = hmacMD5(nonce \o SubSeq(field(12), 17, 24), hash)
        /\ SubSeq(blob, 1, 8) = <<1, 1, 0, 0, 0, 0, 0, 0>>
        /\ Sub(blob, 28, Len(target)) = target /\ Len(blob) = Len(target) + 32
        /\ field(20) = hmacMD5(nonce \o blob, hash)

FedAuthTokenSays(login, b) ==
    /\ NumberAt(b, 0, 4) = Len(b) - 4 /\ NumberAt(b, 4, 4) = Len(b) - 8
    /\ FromUcs2(SubSeq(b, 9, Len(b))) = login.token

=============================================================================
