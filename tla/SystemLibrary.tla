--------------------------- MODULE SystemLibrary ---------------------------
(***************************************************************************)
(* The functions of the runtime that open, read and throw, as programs     *)
(* over the resources they own (module Ownership runs them): fs.cpp,       *)
(* process.cpp, os.cpp, path.cpp, url.cpp, request.cpp, random.cpp and the *)
(* number conversions of str.cpp.  A resource has the name of the C        *)
(* variable that holds it.  Steps that own nothing are left out, and what  *)
(* the two platforms do differently is under IF win.                       *)
(***************************************************************************)
EXTENDS Sequences

(* The steps. *)
Do(op, xs, ys, to) == [op |-> op, xs |-> xs, ys |-> ys, to |-> to]
Take(xs) == Do("take", xs, {}, "")                 \* alloc, str_cstr, str_alloc
Grow(xs) == Do("grow", xs, {}, "")                 \* re_alloc
Drop(xs) == Do("drop", xs, {}, "")                 \* free, fclose, close
DropNullable(xs) == Do("dropNullable", xs, {}, "")
Move(xs, ys) == Do("move", xs, ys, "")             \* xs become part of ys
Check(to) == Do("check", {}, {}, to)               \* or error_assign; goto to
Open(xs, to) == Do("check", xs, {}, to)
Fail(to) == Do("fail", {}, {}, to)                 \* the same where it has failed
Raise == Do("raise", {}, {}, "")                   \* error_assign; longjmp
Miss(call) == Do("miss", {}, {call}, "")           \* call has failed, untested
Crash(call) == Do("crash", {}, {call}, "")         \* the NULL of call is used
Rethrow == Do("rethrow", {}, {}, "")               \* if (id != -1) longjmp
Call(xs, ys) == Do("call", xs, ys, "")             \* a function that may throw
Maybe(to) == Do("maybe", {}, {}, to)
Label(to) == Do("label", {}, {}, to)
Goto(to) == Do("goto", {}, {}, to)
Unless(xs, to) == Do("unless", xs, {}, to)         \* goes to to when a pointer is NULL
IfFailed(to) == Do("ifFailed", {}, {}, to)
IfFine(to) == Do("ifFine", {}, {}, to)
Feed(to) == Do("feed", {}, {}, to)                 \* one more piece, to at the end
FeedBy(call, to) == Do("feed", {}, {call}, to)     \* the same, or when call fails
Write(to) == Do("write", {}, {}, to)
Frame(to) == Do("frame", {}, {}, to)               \* setjmp of a buffer of its own
Reframe(to) == Do("reframe", {}, {}, to)
Unframe == Do("unframe", {}, {}, "")
Give(xs) == Do("give", xs, {}, "")                 \* return
GiveNullable(xs) == Do("give", {}, xs, "")
GiveBoth(xs, nullable) == Do("give", xs, nullable, "")

\* call may fail, and the function goes on to next as if it had not
Ignore(call, next) == <<Maybe(next), Miss(call), Label(next)>>
Trust(call, next) == <<Maybe(next), Crash(call), Label(next)>>

\* A function that owns one of the sets in starts when it is entered.
Entered(starts, steps) == [starts |-> starts, steps |-> steps]

(***************************************************************************)
(* fs.cpp                                                                  *)
(***************************************************************************)

\* C strings of the arguments, one call, a goto to the only label
OneCallBehind(before, args, cs, result) ==
  Entered({args}, <<Take(cs)>> \o before
                    \o <<Open(result, "cleanup"), Label("cleanup"),
                         Drop(cs), Drop(args), Rethrow, Give(result)>>)
OneCall(args, cs, result) == OneCallBehind(<<>>, args, cs, result)
\* GetFileAttributes answers all bits when it fails: a directory
Kind(win) == IF win THEN Ignore("GetFileAttributes", "kind") ELSE <<>>
\* a call with nothing to throw: the answer is no when it fails
Asks(call) ==
  Entered({{"s"}}, <<Take({"c"})>> \o Ignore(call, "asked")
                     \o <<Drop({"c"}), Drop({"s"}), Give({})>>)

\* the goto of a failed fwrite to the wrong label
Stores_PastClose ==
  Entered({{"s", "b"}},
    <<Take({"c"}), Open({"f"}, "cleanup1"), Maybe("cleanup2"), Check("cleanup1"),
      Label("cleanup2"), Drop({"f"}),
      Label("cleanup1"), Drop({"c"}), Drop({"s"}), Drop({"b"}), Rethrow, Give({})>>)
\* fwrite may leave all of it to fclose
Stores ==
  Entered({{"s", "b"}},
    <<Take({"c"}), Open({"f"}, "cleanup1"), Maybe("cleanup2"), Check("cleanup2"),
      Label("cleanup2")>> \o Ignore("fclose", "closed") \o <<Drop({"f"}),
      Label("cleanup1"), Drop({"c"}), Drop({"s"}), Drop({"b"}), Rethrow, Give({})>>)

fs_appendFileSync(win) == Stores
fs_writeFileSync(win) == Stores
fs_chmodSync(win) == OneCall({"s"}, {"c"}, {})
fs_mkdirSync(win) == OneCall({"s"}, {"c"}, {})
fs_rmSync(win) == OneCall({"s"}, {"c"}, {})
fs_rmdirSync(win) == OneCall({"s"}, {"c"}, {})
fs_unlinkSync(win) == OneCallBehind(Kind(win), {"s"}, {"c"}, {})
fs_statSync(win) == OneCall({"s"}, {"c"}, {"r"})
fs_linkSync(win) == OneCallBehind(Kind(win), {"s1", "s2"}, {"c1", "c2"}, {})
fs_renameSync(win) == OneCall({"n1", "n2"}, {"c1", "c2"}, {})
fs_existsSync(win) == Asks("access")
fs_isDirectorySync(win) == Asks("stat")
fs_isFileSync(win) == Asks("stat")
fs_isAbsoluteSync(win) == Entered({{"s"}}, <<Drop({"s"}), Give({})>>)

fs_chownSync(win) ==
  Entered({{"s"}},
    (IF win THEN <<>> ELSE <<Take({"c"}), Check("failed"), Label("failed"), Drop({"c"})>>)
      \o <<Drop({"s"}), Rethrow, Give({})>>)

\* On Windows the return behind an invalid handle does not release s.
fs_isSymbolicLinkSync(win) ==
  IF ~win THEN Asks("lstat")
  ELSE Entered({{"s"}},
         <<Take({"c"}), Maybe("opened"), Miss("CreateFile"), Drop({"c"}), Give({}),
           Label("opened"), Take({"h"})>> \o Ignore("DeviceIoControl", "asked")
           \o <<Drop({"h"}), Drop({"c"}), Drop({"s"}), Give({})>>)

CopiesDirectory(leave) ==
  Entered({{"n1", "n2"}},
    <<Frame("cleanup1"),
      Maybe("absent"), Call({}, {}), Label("absent"),          \* rmdir or rm of n2
      Grow({"n1"}), Grow({"n2"}), Call({}, {"files"}),         \* fs_scandirSync
      Reframe("cleanup2"), Call({}, {}),                       \* fs_mkdirSync
      Label("next"), Feed("cleanup2"), Take({"file"}),
      Call({"file"}, {}), Goto("next"),        \* fs_copyDirectorySync, fs_copyFileSync
      Label("cleanup2"), Drop({"files"}),
      Label("cleanup1")>> \o leave \o <<Drop({"n2"}), Drop({"n1"}), Rethrow, Give({})>>)
fs_copyDirectorySync(win) == CopiesDirectory(<<Unframe>>)

fs_copyFileSync(win) ==
  Entered({{"n1", "n2"}},
    <<Take({"c1", "c2"})>>
      \o (IF win THEN <<Check("cleanup1")>>                    \* CopyFile
          ELSE <<Open({"fd1"}, "cleanup1"), Check("cleanup2"), Check("cleanup2"),
                 Open({"fd2"}, "cleanup2"),
                 Check("cleanup3"), Check("cleanup3"),         \* fstat, the same file
                 Maybe("empty"), Check("cleanup3"), Label("empty"), \* ftruncate
                 Check("cleanup3"),                            \* fchmod
                 Label("read"), Feed("cleanup3"), Check("cleanup3"), Check("cleanup3"),
                 Goto("read"),
                 Label("cleanup3")>> \o Ignore("close", "closed")
                 \o <<Drop({"fd2"}), Label("cleanup2"), Drop({"fd1"})>>)
      \o <<Label("cleanup1"), Drop({"c2"}), Drop({"c1"}), Drop({"n2"}), Drop({"n1"}),
           Rethrow, Give({})>>)

\* fread into d until it gives nothing, at the end of f or when it fails
ReadAll == <<Label("read"), FeedBy("fread", "end"), Maybe("end"), Grow({"d"}), Goto("read"),
             Label("end"), Drop({"f"})>>

\* one clean-up label for both ways in
fs_readFileSync_OneLabel(win) ==
  Entered({{"s"}},
    <<Take({"c"}), Open({"f"}, "end")>> \o ReadAll
      \o <<Drop({"c"}), Drop({"s"}), Rethrow, GiveNullable({"d"})>>)
fs_readFileSync(win) ==
  Entered({{"s"}},
    <<Take({"c"}), Open({"f"}, "cleanup")>> \o ReadAll
      \o <<Label("cleanup"), Drop({"c"}), Drop({"s"}), Rethrow, GiveNullable({"d"})>>)

Resolves(win, closed) ==
  Entered({{"s"}},
    <<Take({"c"})>>
      \o (IF win THEN <<Open({"h"}, "cleanup1"), Check("cleanup2"), Take({"r"}),
                        Check("cleanup3")>> \o Ignore("GetFinalPathNameByHandle", "long")
                       \o <<Maybe("cleanup3"), Take({"d"}),
                        Label("cleanup3"), Drop({"r"}), Label("cleanup2"), Drop({"h"})>> \o closed
          ELSE <<Maybe("resolved"), Take({"d"}), Label("resolved")>>)
      \o <<Unless({"d"}, "missing"), Goto("cleanup1"), Label("missing"), Fail("cleanup1"),
           Label("cleanup1"), Drop({"c"}), Drop({"s"}), Rethrow, Give({"d"})>>)
\* On Windows a path longer than MAX_PATH is not written to r (0 is tested only).
fs_realpathSync_NoTest(win) == Resolves(win, <<>>)
fs_realpathSync(win) == Resolves(win, <<IfFailed("cleanup1")>>)

\* On Windows the names read so far are lost when FindNextFile fails.
fs_scandirSync(win) ==
  Entered({{"s"}},
    <<Take({"c"}), Check("cleanup1")>> \o Kind(win)             \* not there
      \o <<Check("cleanup1")>>                                  \* no directory
      \o (IF win THEN <<Take({"b"}), Drop({"b"}), Maybe("cleanup1"), Open({"h"}, "cleanup1"),
                        Label("read"), Feed("cleanup2"), Grow({"r"}), Check("cleanup2"),
                        Goto("read"),
                        Label("cleanup2"), Drop({"h"})>>
          ELSE <<Open({"f"}, "cleanup1"), Label("read"), FeedBy("readdir", "end"),
                 Grow({"r"}), Goto("read"), Label("end"), Drop({"f"})>>)
      \o <<Label("cleanup1"), Drop({"c"}), Drop({"s"}), Rethrow, GiveNullable({"r"})>>)

(***************************************************************************)
(* process.cpp, os.cpp, random.cpp                                         *)
(***************************************************************************)

\* A call that throws before anything is owned, and a string
Retrieves == Entered({{}}, <<Maybe("ok"), Raise, Label("ok"), Take({"r"}), Give({"r"})>>)
Fresh == Entered({{}}, <<Take({"d"}), Give({"d"})>>)

process_args(win) == Fresh
process_env(win) == Fresh
process_cwd(win) == Retrieves
process_home(win) ==
  IF win THEN Retrieves
  ELSE Entered({{}}, Trust("getpwuid", "known") \o <<Take({"d"}), Give({"d"})>>)
os_arch(win) == IF win THEN Fresh ELSE Retrieves
os_name(win) == IF win THEN Fresh ELSE Retrieves

\* The d of the message hides the d of the output, which nobody releases.  The
\* -1 of a pclose that fails is an exit code of 0 when divided by 256.
process_runSync(win) ==
  Entered({{"s"}},
    <<Take({"c"}), Maybe("started"), Drop({"c"}), Drop({"s"}), Raise,
      Label("started"), Take({"f"})>> \o ReadAll
      \o <<Maybe("ok"), Drop({"c"}), Drop({"s"}), Raise, Label("ok")>>
      \o (IF win THEN <<>> ELSE Ignore("pclose", "closed"))
      \o <<Drop({"c"}), Drop({"s"}), GiveNullable({"d"})>>)

Draws == Entered({{}}, <<Maybe("ok"), Raise, Label("ok"), Give({})>>)
random_randomFloat(win) == Draws
random_randomInt(win) == Draws
random_randomStr(win) ==
  Entered({{}, {"a"}},
    <<Grow({"a"}), Take({"d"}), Maybe("ok"), Drop({"d"}), Drop({"a"}), Raise,
      Label("ok"), Take({"r"}), Drop({"d"}), Drop({"a"}), Give({"r"})>>)

(***************************************************************************)
(* path.cpp                                                                *)
(***************************************************************************)

path_basename(win) ==
  Entered({{"s"}},
    <<Maybe("long"), Give({"s"}),
      Label("long"), Maybe("name"), Drop({"s"}), Take({"r"}), Give({"r"}),
      Label("name"), Take({"d"}), Drop({"s"}), Give({"d"})>>)

path_dirname(win) ==
  Entered({{"s"}},
    <<Maybe("long"), Drop({"s"}), Take({"r"}), Give({"r"}),
      Label("long"), Maybe("parent"), Grow({"s"}), Give({"s"}),
      Label("parent"), Take({"d"}), Drop({"s"}), Give({"d"})>>)

path_tmpdir(win) ==
  Entered({{}},
    IF win THEN <<Maybe("length"), Raise, Label("length"), Take({"d"}),
                  Maybe("path"), Drop({"d"}), Raise,
                  Label("path"), Grow({"d"}), Give({"d"})>>
    ELSE <<Take({"d"}), Grow({"d"}), Give({"d"})>>)

\* NULL when f made none of the names
path_mktemp(win) ==
  Entered({{}},
    <<Call({}, {"d"}), Grow({"d"})>>
      \o (IF win THEN <<Label("try"), Maybe("random"), Drop({"d"}), Raise,
                        Label("random"), Maybe("next"), Give({"d"}),
                        Label("next"), Feed("last"), Goto("try"),
                        Label("last"), Drop({"d"}), Give({})>>
          ELSE <<Maybe("made"), Drop({"d"}), Give({}), Label("made"), Give({"d"})>>))

Temporary ==
  Entered({{}},
    <<Call({}, {}), Maybe("made"), Raise,
      Label("made"), Take({"d"}), Take({"r"}), Drop({"d"}), Give({"r"})>>)
path_tempDirectory(win) == Temporary
path_tempFile(win) == Temporary
path_tempDirectoryFunctor(win) == Entered({{}}, <<Give({})>>)
\* On Windows nobody closes the handle of the new file.
path_tempFileFunctor(win) ==
  Entered({{}},
    <<Maybe("failed"), Take({"fd"})>>
      \o (IF win THEN <<>> ELSE <<Drop({"fd"})>>) \o <<Label("failed"), Give({})>>)

(***************************************************************************)
(* url.cpp, request.cpp                                                    *)
(***************************************************************************)

url_parse(win) ==
  LET Fails(next, xs) == <<Maybe(next), Drop(xs), Raise, Label(next)>>
  IN Entered({{"s"}},
       Fails("some", {"s"}) \o Fails("letters", {"s"}) \o Fails("colon", {"s"})
         \o <<Take({"protocol"}), Maybe("more"), Drop({"s"}),
              Move({"protocol"}, {"url"}), Give({"url"}), Label("more")>>
         \o Fails("noauth", {"protocol", "s"}) \o Fails("port", {"protocol", "s"})
         \o <<Take({"hostname"})>> \o Fails("named", {"hostname", "protocol", "s"})
         \o <<Grow({"hostname"}), Take({"port"}), Take({"host"}), Take({"origin"})>>
         \o Fails("hosted", {"origin", "host", "port", "hostname", "protocol", "s"})
         \o <<Take({"pathname"}), Take({"search"}), Take({"path"}), Take({"hash"}), Drop({"s"}),
              Move({"origin", "protocol", "host", "hostname", "port", "path", "pathname",
                    "search", "hash"}, {"url"}), Give({"url"})>>)

\* At least one of the two lines is there unless the caller names both.
request_stringifyHeaders(win) ==
  Entered({{}},
    <<Label("header"), Feed("end"), Take({"name"}), Drop({"name"}), Grow({"d"}), Goto("header"),
      Label("end"), Maybe("hosted"), Take({"h"}), Grow({"d"}), Drop({"h"}), Label("hosted"),
      Maybe("sized"), Grow({"d"}), Label("sized"), GiveNullable({"d"})>>)

\* A url_parse that throws leaves the other arguments behind, and a request
\* that fails over TLS its socket.
request_open(win) ==
  LET Owned == {"method", "headers", "data"}
  IN Entered({Owned \cup {"u"}},
       <<Call({"u"}, {"url"}),
         Check("cleanup1"), Check("cleanup1"), Check("cleanup1")>> \* protocol, port
         \o (IF win THEN <<Maybe("started"), Check("cleanup1"), Label("started")>>  \* WSAStartup
             ELSE <<>>)
         \o <<Take({"hostname"}), Open({"addr"}, "cleanup2"),
         Take({"req"}), Open({"fd"}, "cleanup3"), Check("cleanup4"),
         Maybe("plain"), Open({"ctx"}, "cleanup4")>>
         \o Trust("SSL_new", "new") \o <<Take({"ssl"})>>
         \o Ignore("SSL_set_fd", "set") \o Ignore("SSL_set_tlsext_host_name", "named")
         \o <<Check("cleanup5"), Label("plain"),
         Take({"req_headers", "req_method", "req_path"}), Take({"request"}),
         Write("cleanup6"),
         Label("cleanup6"), Drop({"request", "req_path", "req_method", "req_headers"}),
         Label("cleanup5"), IfFine("cleanup4"), Unless({"ssl"}, "cleanup4"),
         Drop({"ssl"}), Drop({"ctx"}), Goto("cleanup3"),
         Label("cleanup4"), IfFine("cleanup3"), Drop({"fd"}),
         Label("cleanup3"), IfFine("resolved"), Drop({"req"}), Label("resolved"), Drop({"addr"}),
         Label("cleanup2"), Drop({"hostname"}),
         Label("cleanup1"), Drop({"url"}), Drop(Owned), Rethrow,
         GiveBoth({"req", "fd"}, {"ctx", "ssl"})>>)

Reads(closed) ==
  LET Fails(next) == <<Maybe(next), Drop({"data"}), Raise, Label(next)>>
  IN Entered({{}},
       <<Label("recv"), Maybe("received"), DropNullable({"data"}), Raise,
         Label("received"), FeedBy("SSL_read", "closed"), Grow({"data"}), Goto("recv"),
         Label("closed")>> \o closed \o Fails("version") \o Fails("status")
         \o <<Take({"status"}), Drop({"status"}),
              Maybe("bodyless"), Take({"name"}), Take({"value"}),  \* each header alike
              Grow({"headers"}), Move({"name", "value"}, {"headers"}),
              Label("bodyless"), Maybe("body"), Drop({"data"}), Label("body"),
              Take({"response"}), GiveBoth({"response"}, {"headers", "data"})>>)
request_read_Waits(win) == Reads(<<Goto("recv")>>)
request_read(win) == Reads(<<Unless({"data"}, "recv")>>)

\* Given the socket of a plain request or all of a TLS one: the latter keeps its fd.
request_close(win) ==
  Entered({{"fd"}, {"fd", "ctx", "ssl"}},
    <<Unless({"ssl"}, "plain"), Drop({"ctx"}), Drop({"ssl"}), Give({}),
      Label("plain"), Drop({"fd"}), Give({})>>)

(***************************************************************************)
(* The conversions of str.cpp                                              *)
(***************************************************************************)

Converts ==
  LET Fails(next) == <<Maybe(next), Drop({"c", "self"}), Raise, Label(next)>>
  IN <<Take({"c"})>> \o Fails("range") \o Fails("syntax") \o <<Drop({"c"}), Drop({"self"}), Give({})>>
ToReal == Entered({{"self"}}, Converts)
ToInteger == Entered({{"self"}}, <<Maybe("radix"), Drop({"self"}), Raise, Label("radix")>> \o Converts)

str_toFloat(win) == ToReal
str_toF32(win) == ToReal
str_toF64(win) == ToReal
str_toInt(win) == ToInteger
str_toI8(win) == ToInteger
str_toI16(win) == ToInteger
str_toI32(win) == ToInteger
str_toI64(win) == ToInteger
str_toU8(win) == ToInteger
str_toU16(win) == ToInteger
str_toU32(win) == ToInteger
str_toU64(win) == ToInteger

-----------------------------------------------------------------------------
Programs(win) ==
  [ fs_appendFileSync |-> fs_appendFileSync(win),
    fs_writeFileSync |-> fs_writeFileSync(win),
    fs_chmodSync |-> fs_chmodSync(win),
    fs_mkdirSync |-> fs_mkdirSync(win),
    fs_rmSync |-> fs_rmSync(win),
    fs_rmdirSync |-> fs_rmdirSync(win),
    fs_unlinkSync |-> fs_unlinkSync(win),
    fs_statSync |-> fs_statSync(win),
    fs_linkSync |-> fs_linkSync(win),
    fs_renameSync |-> fs_renameSync(win),
    fs_existsSync |-> fs_existsSync(win),
    fs_isDirectorySync |-> fs_isDirectorySync(win),
    fs_isFileSync |-> fs_isFileSync(win),
    fs_isAbsoluteSync |-> fs_isAbsoluteSync(win),
    fs_chownSync |-> fs_chownSync(win),
    fs_isSymbolicLinkSync |-> fs_isSymbolicLinkSync(win),
    fs_copyDirectorySync |-> fs_copyDirectorySync(win),
    fs_copyFileSync |-> fs_copyFileSync(win),
    fs_readFileSync |-> fs_readFileSync(win),
    fs_realpathSync |-> fs_realpathSync(win),
    fs_scandirSync |-> fs_scandirSync(win),
    process_args |-> process_args(win),
    process_env |-> process_env(win),
    process_cwd |-> process_cwd(win),
    process_home |-> process_home(win),
    os_arch |-> os_arch(win),
    os_name |-> os_name(win),
    process_runSync |-> process_runSync(win),
    random_randomFloat |-> random_randomFloat(win),
    random_randomInt |-> random_randomInt(win),
    random_randomStr |-> random_randomStr(win),
    path_basename |-> path_basename(win),
    path_dirname |-> path_dirname(win),
    path_tmpdir |-> path_tmpdir(win),
    path_mktemp |-> path_mktemp(win),
    path_tempDirectory |-> path_tempDirectory(win),
    path_tempFile |-> path_tempFile(win),
    path_tempDirectoryFunctor |-> path_tempDirectoryFunctor(win),
    path_tempFileFunctor |-> path_tempFileFunctor(win),
    url_parse |-> url_parse(win),
    request_stringifyHeaders |-> request_stringifyHeaders(win),
    request_open |-> request_open(win),
    request_read |-> request_read(win),
    request_close |-> request_close(win),
    str_toFloat |-> str_toFloat(win),
    str_toF32 |-> str_toF32(win),
    str_toF64 |-> str_toF64(win),
    str_toInt |-> str_toInt(win),
    str_toI8 |-> str_toI8(win),
    str_toI16 |-> str_toI16(win),
    str_toI32 |-> str_toI32(win),
    str_toI64 |-> str_toI64(win),
    str_toU8 |-> str_toU8(win),
    str_toU16 |-> str_toU16(win),
    str_toU32 |-> str_toU32(win),
    str_toU64 |-> str_toU64(win) ]

Program == [win \in BOOLEAN |-> Programs(win)]
Functions == DOMAIN Programs(TRUE)
Networked == {"request_open", "request_read"}

(* What is left behind, and when: each of them is a flaw of the code. *)
KnownLeaks ==
  { [fn |-> "fs_isSymbolicLinkSync", win |-> TRUE, exit |-> "returned", what |-> {"s"}],
    [fn |-> "fs_scandirSync", win |-> TRUE, exit |-> "thrown", what |-> {"r"}],
    [fn |-> "path_tempFileFunctor", win |-> TRUE, exit |-> "returned", what |-> {"fd"}] }
  \cup UNION { { [fn |-> "process_runSync", win |-> w, exit |-> "thrown", what |-> {"d"}],
               [fn |-> "request_open", win |-> w, exit |-> "thrown", what |-> {"method", "headers", "data"}],
               [fn |-> "request_open", win |-> w, exit |-> "thrown", what |-> {"fd"}],
               [fn |-> "request_close", win |-> w, exit |-> "returned", what |-> {"fd"}] } :
             w \in BOOLEAN }

(* The calls of the system whose failure the caller does not see: the code *)
(* takes it for an answer, for the end of the input or for a success, or   *)
(* uses the NULL it gets.  Each of them is a flaw of the code as well.      *)
Silent(names, wins, exit, calls) ==
  [fn : names, win : wins, exit : {exit}, call : calls]

KnownSilent ==
  UNION { Silent({"fs_appendFileSync", "fs_writeFileSync"}, BOOLEAN, "returned", {"fclose"}),
          Silent({"fs_copyFileSync"}, {FALSE}, "returned", {"close"}),
          Silent({"fs_readFileSync", "process_runSync"}, BOOLEAN, "returned", {"fread"}),
          Silent({"fs_scandirSync"}, {FALSE}, "returned", {"readdir"}),
          Silent({"fs_scandirSync", "fs_linkSync", "fs_unlinkSync"}, {TRUE}, "returned",
                 {"GetFileAttributes"}),
          Silent({"fs_existsSync"}, BOOLEAN, "returned", {"access"}),
          Silent({"fs_isDirectorySync", "fs_isFileSync"}, BOOLEAN, "returned", {"stat"}),
          Silent({"fs_isSymbolicLinkSync"}, {FALSE}, "returned", {"lstat"}),
          Silent({"fs_isSymbolicLinkSync"}, {TRUE}, "returned",
                 {"CreateFile", "DeviceIoControl"}),
          Silent({"fs_realpathSync"}, {TRUE}, "returned", {"GetFinalPathNameByHandle"}),
          Silent({"process_runSync"}, {FALSE}, "returned", {"pclose"}),
          Silent({"process_home"}, {FALSE}, "crashed", {"getpwuid"}),
          Silent({"request_open"}, BOOLEAN, "returned",
                 {"SSL_set_fd", "SSL_set_tlsext_host_name"}),
          Silent({"request_open"}, BOOLEAN, "crashed", {"SSL_new"}),
          Silent({"request_read"}, BOOLEAN, "returned", {"SSL_read"}) }
=============================================================================
