------------------------------ MODULE Helpers -------------------------------
(***************************************************************************)
(* The helpers that compute and keep no state: one-time codes              *)
(* (core/otp.py), the encryption of SMTP passwords (core/crypto.py) under  *)
(* the key that the settings of a process accepted (core/config.py), and   *)
(* the slugs that /newproject suggests.                                    *)
(*                                                                         *)
(* Each behaviour is one call.  A text is a sequence of characters, of     *)
(* which only the kinds that a helper tells apart are kept; lengths that   *)
(* nothing but the size of the instance depends on are constants.          *)
(***************************************************************************)
EXTENDS Integers, Sequences, SequencesExt, FiniteSetsExt

CONSTANTS Base,         \* digits that a code is made of: 10
          OtpLengths,   \* lengths that /setotp accepts
          MaxName,      \* bound on the length of a project's name
          SlugCut,      \* length at which a suggestion is cut: 60
          IvBytes,      \* _IV_BYTES
          TagBytes,     \* length of the authentication tag
          Key,          \* the bytes that ENCRYPTION_KEY stands for
          KeyChars,     \* numbers of characters that ENCRYPTION_KEY may be set to
          MaxPassword   \* bound on the length of a password

ASSUME SizesAssumption ==
  /\ {Base, MaxName, SlugCut, IvBytes, TagBytes, MaxPassword} \subseteq Nat \ {0}
  /\ SlugCut <= 100
  /\ OtpLengths \subseteq 4..10
  /\ KeyChars \subseteq Nat

VARIABLE call    \* the function, what it was given and what it returned

None == "none"

Init == call = [fn |-> None]

\* str.strip of a character.
Strip(text, c) ==
  LET kept == {i \in DOMAIN text : text[i] # c}
  IN  IF kept = {} THEN <<>> ELSE SubSeq(text, Min(kept), Max(kept))

-----------------------------------------------------------------------------
(* One-time codes: a digit is a number below Base.                         *)

Digit == 0..(Base - 1)
Space == -1

\* 10 ** w, for the lengths that generate_otp accepts.
Power[w \in 0..10] == IF w = 0 THEN 1 ELSE Base * Power[w - 1]

\* str(value)
Decimal(value) ==
  LET width == Min({w \in 1..10 : value < Power[w]})
  IN  [i \in 1..width |-> (value \div Power[width - i]) % Base]

\* Mutant: str(value) as it is.
GenerateOtp_Unpadded(length, value) == Decimal(value)

\* generate_otp for a length it accepts; value is what secrets.randbelow drew.
GenerateOtp(length, value) ==
  LET digits == Decimal(value)
  IN  [i \in 1..(length - Len(digits)) |-> 0] \o digits

\* OtpVerifyRequest.validate_code: the stripped code, or that it was refused.
ValidateCode(text) ==
  LET code == Strip(text, Space)
  IN  IF /\ \A i \in DOMAIN code : code[i] \in Digit
         /\ Len(code) \in 4..10
      THEN code ELSE <<>>

\* A code is generated, mailed, and typed with a space before or after it.
TypeBack ==
  \E length \in OtpLengths, before, after \in {<<>>, <<Space>>} :
    \E value \in 0..(Power[length] - 1) :
      LET code == GenerateOtp(length, value)
      IN  call' = [fn |-> "otp", length |-> length, value |-> value, code |-> code,
                   typed |-> ValidateCode(before \o code \o after)]

-----------------------------------------------------------------------------
(* Suggested slugs: a name has letters and characters that are none.       *)

Letter == "a"
Other  == "."
Hyphen == "-"

\* What a slug becomes by the next character: a run of others is one hyphen.
Extended(slug, c) ==
  IF c = Letter THEN Append(slug, Letter)
  ELSE IF slug # <<>> /\ Last(slug) = Hyphen THEN slug
  ELSE Append(slug, Hyphen)

\* re.sub over the name.
Hyphenated(name) ==
  LET slug[n \in 0..Len(name)] == IF n = 0 THEN <<>> ELSE Extended(slug[n - 1], name[n])
  IN  slug[Len(name)]

\* "project"
Fallback == [i \in 1..7 |-> Letter]

\* Mutant: hyphens at the ends stay.
Slugify_Unstripped(name) ==
  LET slug == Hyphenated(name)
      cut  == SubSeq(slug, 1, Min({SlugCut, Len(slug)}))
  IN  IF cut = <<>> THEN Fallback ELSE cut

\* _slugify
Slugify(name) ==
  LET slug == Strip(Hyphenated(name), Hyphen)
      cut  == SubSeq(slug, 1, Min({SlugCut, Len(slug)}))
  IN  IF cut = <<>> THEN Fallback ELSE cut

\* _SLUG_RE, for got_slug.
SlugAccepted(slug) ==
  /\ Len(slug) \in 3..100
  /\ \A i \in DOMAIN slug : slug[i] \in {Letter, Hyphen}
  /\ slug[1] = Letter /\ Last(slug) = Letter

Suggest ==
  \E name \in SeqOf({Letter, Other}, MaxName) :
    /\ Len(name) >= 2
    /\ call' = [fn |-> "slug", slug |-> Slugify(name), accepted |-> SlugAccepted(Slugify(name))]

-----------------------------------------------------------------------------
(* Settings: the key of a process.                                         *)

\* ENCRYPTION_KEY as text.
Setting == [key : Key, chars : KeyChars, hex : BOOLEAN]

\* Mutant: a longer key passes.
KeyAccepted_Longer(s) == s.chars >= 64 /\ s.hex /\ s.chars % 2 = 0

\* validate_encryption_key
KeyAccepted(s) == s.chars = 64 /\ s.hex /\ s.chars % 2 = 0

\* AESGCM takes keys of 16, 24 and 32 bytes, two hex characters each.
AesTakes(s) == s.chars \div 2 \in {16, 24, 32}

-----------------------------------------------------------------------------
(* Encrypted passwords: bytes of the cipher are terms, so that what was     *)
(* made with another key, IV or plaintext differs.                         *)

Password == SeqOf({"a", "b"}, MaxPassword) \ {<<>>}

\* AESGCM.encrypt: the ciphertext and the tag.
Sealed(key, iv, password) ==
  [i \in DOMAIN password |-> <<"byte", key, iv, i, password[i]>>]
    \o [i \in 1..TagBytes |-> <<"tag", key, iv, password, i>>]

Iv == [i \in 1..IvBytes |-> <<"iv", i>>]

\* encrypt: the bytes of which each is two hex characters, none if it raises.
Encrypt(s, password) == IF AesTakes(s) THEN Iv \o Sealed(s.key, Iv, password) ELSE <<>>

\* Mutant: the IV is taken one byte too long.
IvOf_Long(raw) == SubSeq(raw, 1, IvBytes + 1)

IvOf(raw) == SubSeq(raw, 1, IvBytes)

Raises(error) == [error |-> error, text |-> <<>>]

\* decrypt of a text with `chars` hex characters, which are `raw` if they are hex
\* and come in pairs.
Decrypt(s, raw, chars, hex) ==
  IF chars < 2 * IvBytes + 2 THEN Raises("too short")
  ELSE IF ~hex \/ chars % 2 = 1 THEN Raises("non-hex")
  ELSE IF ~AesTakes(s) THEN Raises("key size")
  ELSE LET sealed == SubSeq(raw, Len(IvOf(raw)) + 1, Len(raw))
           fits   == {p \in Password : Sealed(s.key, IvOf(raw), p) = sealed}
       IN  IF fits = {} THEN Raises("InvalidTag")
           ELSE [error |-> None, text |-> CHOOSE p \in fits : TRUE]

\* A text is stored by one process and read by another, whole, with characters
\* missing at its end, with a byte that was changed, or with one that is not hex.
\* A process does not start with a key that the settings refuse.
Reread ==
  \E written, read \in {s \in Setting : KeyAccepted(s)}, p \in Password, hex \in BOOLEAN :
    LET raw == Encrypt(written, p)
    IN  \E missing \in 0..(2 * Len(raw)), changed \in 0..Len(raw) :
          LET chars == 2 * Len(raw) - missing
              left  == SubSeq(raw, 1, chars \div 2)
              text  == [i \in DOMAIN left |-> IF i = changed THEN <<"junk">> ELSE left[i]]
          IN  call' = [fn |-> "decrypt", password |-> p,
                       intact |-> /\ hex /\ missing = 0 /\ changed = 0
                                  /\ written.key = read.key,
                       result |-> Decrypt(read, text, chars, hex)]

-----------------------------------------------------------------------------
Next == call.fn = None /\ (TypeBack \/ Suggest \/ Reread)

Spec == Init /\ [][Next]_call

(* Properties.                                                             *)

\* The number that a code is written for.
Number(code) ==
  LET read[n \in 0..Len(code)] == IF n = 0 THEN 0 ELSE read[n - 1] * Base + code[n]
  IN  read[Len(code)]

\* Every code that a project can be set to send passes the check of the verify
\* endpoint (routes/otp.py:93-101) as it was generated, and no two draws of
\* randbelow give the same code: the draw can be read off the code, leading zeros
\* included.
CodesTypeBack ==
  call.fn = "otp" =>
    /\ Len(call.code) = call.length
    /\ call.typed = call.code
    /\ Number(call.code) = call.value

\* The wizard refuses a slug that it suggested itself (new_project.py:47-52 and
\* 106-113) in two cases only: the name gives less than three characters, or a
\* long name is cut behind a hyphen.
SuggestionFits ==
  call.fn = "slug" =>
    \/ call.accepted
    \/ Len(call.slug) < 3
    \/ Len(call.slug) = SlugCut /\ Last(call.slug) = Hyphen

\* The worker reads the password that the bot stored, or an error and never
\* another password, with the kinds of damage that Reread does to the text: it
\* takes the same ENCRYPTION_KEY in both processes and a text that is still whole
\* (email.py:126-131 logs every error of decrypt), and no key that the settings
\* let a process start with (config.py:61-76) is at fault.
PasswordOrError ==
  call.fn = "decrypt" =>
    IF call.intact THEN call.result = [error |-> None, text |-> call.password]
    ELSE call.result.error \notin {None, "key size"}

=============================================================================
