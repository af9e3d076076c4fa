------------------------------ MODULE MCServices -------------------------------
(***************************************************************************)
(* Two things Microsoft may publish.  The first spreads the files of       *)
(* update 11 over two blobs with one of update 12 between them, has a      *)
(* category, a blob that does not parse, a second update of the same UUID, *)
(* a digest that does not decode, a content under two names, an excluded   *)
(* file, and names of several languages and editions; the second is what   *)
(* a later revision may look like, with two files of one name.             *)
(***************************************************************************)
EXTENDS Services

B64(alg, of) == Digest("base64", alg, of)
Junk == Digest("junk", "", 0)
Name(base, lang, edition, ext) == [base |-> base, kind |-> "", lang |-> lang, sep |-> "_", edition |-> edition, ext |-> ext]

MCSizeOf == <<10, 20, 20, 30>>
Published(name, c) == [name |-> name, size |-> MCSizeOf[c], digest |-> B64("sha1", c), sha256 |-> B64("sha256", c), content |-> c]

Pro == Name("image", "en-us", "professional", "esd")
ProN == Name("image", "en-us", "professionaln", "esd")
German == [Name("lang", "de-de", "", "cab") EXCEPT !.sep = "-"]
Copy == Name("lang", "de-de", "", "cab")
Neutral == Name("base", "neutral", "", "cab")
Setup == Name("setup", "", "", "cab")
Delta == [Name("delta", "en-us", "", "cab") EXCEPT !.kind = "diff"]
Express == Name("image", "en-us", "", "psf")

Unreadable(f) == [f EXCEPT !.digest = Junk, !.sha256 = NoDigest]
Sha1Only(f) == [f EXCEPT !.sha256 = NoDigest]

Update(id, leaf, state, uuid, revision, version, suffix) ==
  [id |-> id, leaf |-> leaf, state |-> state, uuid |-> uuid, revision |-> 1, blobRevision |-> revision, version |-> version,
   product |-> [suffix |-> suffix]]
Blob(id, state, title, files) == [id |-> id, state |-> state, title |-> title, files |-> files]
Place(f) == [url |-> TRUE, digest |-> f.digest, name |-> f.name, content |-> f.content]

Files1 == <<Published(Pro, 1), Published(ProN, 2), Sha1Only(Published(Setup, 3)), Published(Copy, 3), Unreadable(Published(German, 2)),
            Published(Delta, 4), Published(Express, 4)>>
Sync1 == [new |-> <<Update(20, "false", "ok", "u0", 1, 26100, "amd64"), Update(11, "true", "ok", "u1", 2, 26100, "amd64"),
                    Update(12, "true", "ok", "", 0, 22631, ""), Update(13, "true", "ok", "u1", 1, 26100, "amd64"),
                    Update(14, "true", "bad", "u3", 1, 26100, "amd64")>>,
          ext |-> <<Blob(11, "ok", "", SubSeq(Files1, 1, 2)), Blob(12, "ok", "cumulative", <<Published(Neutral, 1)>>),
                    Blob(11, "bad", "broken", <<Published(Neutral, 2)>>), Blob(11, "ok", "feature", SubSeq(Files1, 3, 7)),
                    Blob(13, "ok", "older", <<Published(Pro, 4)>>)>>]
Places1 == <<[Place(Files1[1]) EXCEPT !.url = FALSE]>> \o [k \in DOMAIN Files1 |-> Place(Files1[k])] \o <<Place(Files1[1])>>

Files2 == <<Published(Pro, 4), Sha1Only(Published(ProN, 2)), Unreadable(Published(German, 3)), Published(Neutral, 1),
            Sha1Only(Published(Pro, 2))>>
Sync2 == [new |-> <<Update(31, "true", "ok", "u1", 3, 26100, "amd64")>>,
          ext |-> <<Blob(31, "ok", "later", Files2)>>]
MCOffers == <<[sync |-> Sync1, locations |-> [u1 |-> Places1]],
              [sync |-> Sync2, locations |-> [u1 |-> [k \in DOMAIN Files2 |-> Place(Files2[k])]]]>>

MCDevices == {[arch |-> "amd64", ring |-> "Retail", sku |-> 48, build |-> 0, checkBuild |-> 0],
              [arch |-> "amd64", ring |-> "Canary", sku |-> 7, build |-> 0, checkBuild |-> 22000],
              [arch |-> "arm64", ring |-> "Beta", sku |-> 48, build |-> 26100, checkBuild |-> 0]}
Options(urls, lang, edition, ext) == [urls |-> urls, lang |-> lang, edition |-> edition, ext |-> ext]
MCFileOptions == {Options(FALSE, "", "", ""), Options(FALSE, "en-us", "", ""), Options(FALSE, "", "professional", "esd"),
                  Options(TRUE, "", "", ""), Options(TRUE, "de-de", "", ""), Options(TRUE, "", "enterprise", "")}
MCDownloadOptions == {Options(FALSE, "en-us", "professional", "")}

Esd(name, arch, token, major, c) == [name |-> name, edition |-> "Professional", arch |-> arch, lang |-> "en-us", token |-> token,
                                     major |-> major, size |-> MCSizeOf[c], content |-> c]
MCEsdImages == <<Esd(Name("x64", "en-us", "", "esd"), "ARM64", "x64", 26100, 1), Esd(Name("a64", "en-us", "", "esd"), "ARM64", "ARM64", 26100, 2),
                 Esd(Name("old", "en-us", "", "esd"), "ARM64", "", 22631, 3)>>
MCEsdQueries == {[build |-> 26100, edition |-> "Professional", lang |-> ""]}

Own(name, size, sha1, sha256) == [name |-> name, size |-> size, sha1 |-> sha1, sha256 |-> sha256, url |-> FALSE, content |-> 0]
MCOwnRecords == {<<Own(Pro, 10, B64("sha1", 2), B64("sha256", 1)), Own(ProN, 20, B64("sha1", 2), NoDigest),
                   Own(ProN, 0, NoDigest, Junk), Own(Neutral, 10, NoDigest, NoDigest)>>}

--------------------------------------------------------------------------------
Request(by, name, edition, arch, lang, into, size) ==
  [by |-> by, name |-> name, edition |-> edition, arch |-> arch, lang |-> lang, dir |-> into, size |-> size]
MCRequests == {Request("name", "arm", 0, "", "en", TRUE, 0), Request("name", "multi", 0, "ARM64", "english", FALSE, 0),
               Request("id", "", 1, "x64", "english", TRUE, 0), Request("link", "", 0, "", "", TRUE, 20)}
MCPages == <<[arch |-> "x64", products |-> <<[edition |-> 1, labels |-> {"multi"}, arch |-> "x64"]>>],
             [arch |-> "ARM64", products |-> <<[edition |-> 2, labels |-> {"multi", "arm"}, arch |-> "ARM64"]>>]>>
Sku(id, exact, part) == [id |-> id, exact |-> exact, part |-> part]
MCSkuLists == {<<Sku(1, {}, {"english", "en"}), Sku(2, {"english"}, {"english", "en"})>>, <<Sku(3, {"german"}, {"german"})>>}
Link(file, token, expires, c) == [file |-> file, token |-> token, expires |-> expires, content |-> c]
MCLinks == {Link("win.iso", "", 1, 2), Link("win.iso", "", 0, 4), Link("arm.iso", "ARM64", 1, 3)}
================================================================================
