---- MODULE RuntimeApi ----
(* The runtime library a compiled program draws on: one entry for each C     *)
(* function the compiler can print. Of its declaration an entry keeps the    *)
(* parameters; of its body the names it uses (runtime functions it calls,    *)
(* C symbols, generated functions of builtin objects); of the table the      *)
(* fields dependencies, entityDependencies and throws of CodegenAPIItem.     *)
(* Codegen prints the functions a program mentions and, for each, what its   *)
(* dependencies list, never what its body uses: the two are kept apart here. *)
(* What the bodies do is modelled in SystemLibrary and Ownership, Strings    *)
(* and Urls, and ThreadPool.                                                 *)
EXTENDS TLC, Sequences

Item(params, uses, deps, entities, throws) ==
  [params |-> params, uses |-> uses, deps |-> deps, entities |-> entities, throws |-> throws]

\* A function without errors and without generated code in its body
Fn(params, uses, deps) == Item(params, uses, deps, {}, FALSE)

\* A function that may fail takes the error state and the place of the call first, builds an Error,
\* hands it to error_assign and leaves by longjmp
ErrorParams == <<"err_state_t *", "int", "int">>
ErrorParts == {"TYPE_error_Error", "error_Error_alloc", "error_Error_free"}
Throws(params, uses, deps, entities) ==
  Item(ErrorParams \o params,
       uses \cup ErrorParts \cup {"NULL", "err_state_t", "error_assign", "longjmp", "struct str"} \cup entities,
       deps \cup {"error_assign", "libSetJmp", "libStddef", "typeErrState", "typeStr"},
       entities \cup ErrorParts, TRUE)

From_alloc ==
  [alloc |-> Fn(<<"size_t">>, {"NULL", "err_state", "error_alloc", "malloc", "size_t"}, {"error_alloc", "libStddef",
      "libStdlib", "varErrState"}),
   any_copy |-> Fn(<<"const struct any">>, {"NULL", "struct any"}, {"libStddef", "typeAny"}),
   any_free |-> Fn(<<"struct any">>, {"NULL", "struct any"}, {"libStddef", "typeAny"}),
   any_realloc |-> Fn(<<"struct any", "struct any">>, {"NULL", "struct any"}, {"libStddef", "typeAny"}),
   any_str |-> Fn(<<"struct any">>, {"NULL", "str_alloc", "struct any", "struct str"}, {"libStddef", "str_alloc",
      "typeAny", "typeStr"}),
   bool_str |-> Fn(<<"bool">>, {"bool", "str_alloc", "struct str"}, {"libStdbool", "str_alloc", "typeStr"}),
   buffer_copy |-> Fn(<<"const struct buffer">>, {"alloc", "memcpy", "struct buffer"}, {"alloc", "libString",
      "typeBuffer"}),
   buffer_eq |-> Fn(<<"struct buffer", "struct buffer">>, {"bool", "free", "memcmp", "struct buffer"}, {"libStdbool",
      "libStdlib", "libString", "typeBuffer"}),
   buffer_free |-> Fn(<<"struct buffer">>, {"free", "struct buffer"}, {"libStdlib", "typeBuffer"}),
   buffer_ne |-> Fn(<<"struct buffer", "struct buffer">>, {"bool", "free", "memcmp", "struct buffer"}, {"libStdbool",
      "libStdlib", "libString", "typeBuffer"}),
   buffer_realloc |-> Fn(<<"struct buffer", "struct buffer">>, {"free", "struct buffer"}, {"libStdlib",
      "typeBuffer"})]

From_buffer_str ==
  [buffer_str |-> Fn(<<"struct buffer">>, {"alloc", "free", "memcpy", "size_t", "sprintf", "struct buffer",
      "struct str"}, {"alloc", "libStddef", "libStdio", "libStdlib", "libString", "typeBuffer", "typeStr"}),
   buffer_to_str |-> Fn(<<"struct buffer">>, {"struct buffer", "struct str"}, {"typeBuffer", "typeStr"}),
   byte_str |-> Fn(<<"unsigned char">>, {"sprintf", "str_alloc", "struct str"}, {"libStdio", "str_alloc", "typeStr"}),
   char_byte |-> Fn(<<"char">>, {}, {}),
   char_isDigit |-> Fn(<<"char">>, {"bool", "isdigit"}, {"libCtype", "libStdbool"}),
   char_isLetter |-> Fn(<<"char">>, {"bool", "isalpha"}, {"libCtype", "libStdbool"}),
   char_isLetterOrDigit |-> Fn(<<"char">>, {"bool", "isalnum"}, {"libCtype", "libStdbool"}),
   char_isLower |-> Fn(<<"char">>, {"bool", "islower"}, {"libCtype", "libStdbool"}),
   char_isUpper |-> Fn(<<"char">>, {"bool", "isupper"}, {"libCtype", "libStdbool"}),
   char_isWhitespace |-> Fn(<<"char">>, {"bool", "isspace"}, {"libCtype", "libStdbool"}),
   char_lower |-> Fn(<<"char">>, {"tolower"}, {"libCtype"})]

From_char_repeat ==
  [char_repeat |-> Fn(<<"char", "int32_t">>, {"alloc", "int32_t", "size_t", "str_alloc", "struct str"}, {"alloc",
      "libStddef", "libStdint", "str_alloc", "typeStr"}),
   char_str |-> Fn(<<"char">>, {"str_alloc", "struct str"}, {"str_alloc", "typeStr"}),
   char_upper |-> Fn(<<"char">>, {"toupper"}, {"libCtype"}),
   cstr_concat_str |-> Fn(<<"const char *", "struct str">>, {"alloc", "free", "memcpy", "size_t", "strlen",
      "struct str"}, {"alloc", "libStddef", "libStdlib", "libString", "typeStr"}),
   cstr_eq_cstr |-> Fn(<<"const char *", "const char *">>, {"bool", "memcmp", "size_t", "strlen"}, {"libStdbool",
      "libStddef", "libString"}),
   cstr_eq_str |-> Fn(<<"const char *", "struct str">>, {"bool", "free", "memcmp", "strlen", "struct str"},
      {"libStdbool", "libStdlib", "libString", "typeStr"}),
   cstr_ne_cstr |-> Fn(<<"const char *", "const char *">>, {"bool", "memcmp", "size_t", "strlen"}, {"libStdbool",
      "libStddef", "libString"}),
   cstr_ne_str |-> Fn(<<"const char *", "struct str">>, {"bool", "free", "memcmp", "strlen", "struct str"},
      {"libStdbool", "libStdlib", "libString", "typeStr"}),
   date_now |-> Fn(<<>>, {"CLOCK_REALTIME", "FILETIME", "GetSystemTimePreciseAsFileTime", "THE_OS_WINDOWS",
      "clock_gettime", "struct timespec", "uint64_t"}, {"definitions", "libStdint", "libTime", "libWindows"}),
   enum_str |-> Fn(<<"int">>, {"sprintf", "str_alloc", "struct str"}, {"libStdio", "str_alloc", "typeStr"})]

From_error_alloc ==
  [error_alloc |-> Fn(<<"err_state_t *", "size_t">>, {"EXIT_FAILURE", "NULL", "THE_EOL", "err_stack_t", "err_state_t",
      "exit", "fprintf", "size_t", "snprintf", "sprintf", "stderr"}, {"definitions", "libStddef", "libStdio",
      "libStdlib", "typeErrStack", "typeErrState"}),
   error_assign |-> Fn(<<"err_state_t *", "int", "void *", "void (*f) (void *)", "int", "int">>, {"err_state_t",
      "error_stack_pos", "error_stack_str"}, {"error_stack_pos", "error_stack_str", "typeErrState"}),
   error_buf_decrease |-> Fn(<<"err_state_t *">>, {"err_buf_t", "err_state_t", "free"}, {"libStdlib", "typeErrBuf",
      "typeErrState"}),
   error_buf_increase |-> Fn(<<"err_state_t *">>, {"NULL", "alloc", "err_buf_t", "err_state_t"}, {"alloc",
      "libStddef", "typeErrBuf", "typeErrState"}),
   error_stack_pop |-> Fn(<<"err_state_t *">>, {"err_stack_t", "err_state_t", "free"}, {"libStdlib", "typeErrStack",
      "typeErrState"}),
   error_stack_pos |-> Fn(<<"err_state_t *", "int", "int">>, {"err_state_t"}, {"typeErrState"}),
   error_stack_push |-> Fn(<<"err_state_t *", "const char *", "const char *", "int", "int">>, {"NULL", "alloc",
      "err_stack_t", "err_state_t", "error_stack_pos"}, {"alloc", "error_stack_pos", "libStddef", "typeErrStack",
      "typeErrState"})]

From_error_stack_str ==
  [error_stack_str |-> Item(<<"err_state_t *">>, {"NULL", "THE_EOL", "err_stack_t", "err_state_t", "error_Error",
      "memcpy", "re_alloc", "size_t", "snprintf", "sprintf", "struct str"}, {"definitions", "libStddef", "libStdio",
      "libString", "re_alloc", "typeErrStack", "typeErrState", "typeStr"}, {"error_Error"}, FALSE),
   error_unset |-> Fn(<<"err_state_t *">>, {"NULL", "err_state_t"}, {"libStddef", "typeErrState"}),
   f32_str |-> Fn(<<"float">>, {"sprintf", "str_alloc", "struct str"}, {"libStdio", "str_alloc", "typeStr"}),
   f64_str |-> Fn(<<"double">>, {"sprintf", "str_alloc", "struct str"}, {"libStdio", "str_alloc", "typeStr"}),
   float_str |-> Fn(<<"double">>, {"sprintf", "str_alloc", "struct str"}, {"libStdio", "str_alloc", "typeStr"}),
   fs_appendFileSync |-> Throws(<<"struct str", "struct buffer">>, {"FILE", "alloc", "buffer_free", "fclose", "fopen",
      "free", "fwrite", "size_t", "snprintf", "sprintf", "str_cstr", "str_free", "struct buffer"}, {"alloc",
      "buffer_free", "libStdio", "libStdlib", "str_cstr", "str_free", "typeBuffer"}, {})]

From_fs_chmodSync ==
  [fs_chmodSync |-> Throws(<<"struct str", "int32_t">>, {"PRId32", "THE_OS_WINDOWS", "_chmod", "alloc", "bool",
      "chmod", "free", "int32_t", "size_t", "snprintf", "sprintf", "str_cstr", "str_free"}, {"alloc", "definitions",
      "libInttypes", "libStdbool", "libStdint", "libStdio", "libStdlib", "libSysStat", "libWinIo", "str_cstr",
      "str_free"}, {}),
   fs_chownSync |-> Throws(<<"struct str", "int32_t", "int32_t">>, {"PRId32", "THE_OS_WINDOWS", "alloc", "chown",
      "free", "int32_t", "size_t", "snprintf", "sprintf", "str_cstr", "str_free"}, {"alloc", "definitions",
      "libInttypes", "libStdint", "libStdio", "libStdlib", "libUnistd", "str_cstr", "str_free"}, {}),
   fs_copyDirectorySync |-> Item(<<"err_state_t *", "int", "int", "struct str", "struct str">>, {"THE_PATH_SEP",
      "array_str", "array_str_free", "err_state_t", "error_buf_decrease", "error_buf_increase", "fs_copyFileSync",
      "fs_existsSync", "fs_isDirectorySync", "fs_mkdirSync", "fs_rmSync", "fs_rmdirSync", "fs_scandirSync", "longjmp",
      "re_alloc", "setjmp", "size_t", "str_concat_str", "str_copy", "str_free", "struct str"}, {"definitions",
      "error_buf_decrease", "error_buf_increase", "fs_copyFileSync", "fs_existsSync", "fs_isDirectorySync",
      "fs_mkdirSync", "fs_rmSync", "fs_rmdirSync", "fs_scandirSync", "libSetJmp", "libStddef", "re_alloc",
      "str_concat_str", "str_copy", "str_free", "typeErrState", "typeStr"}, {"array_str", "array_str_free"}, TRUE)]

From_fs_copyFileSync ==
  [fs_copyFileSync |-> Throws(<<"struct str", "struct str">>, {"CopyFile", "O_CREAT", "O_RDONLY", "O_WRONLY",
      "S_IFMT", "S_IFREG", "THE_OS_WINDOWS", "alloc", "close", "fchmod", "free", "fstat", "ftruncate", "open", "read",
      "size_t", "snprintf", "sprintf", "ssize_t", "stat", "str_cstr", "str_free", "struct stat", "write"}, {"alloc",
      "definitions", "libFcntl", "libStdio", "libStdlib", "libSysStat", "libSysTypes", "libUnistd", "libWindows",
      "str_cstr", "str_free"}, {}),
   fs_existsSync |-> Fn(<<"struct str">>, {"THE_OS_WINDOWS", "_access", "access", "bool", "free", "str_cstr",
      "str_free", "struct str"}, {"definitions", "libStdbool", "libStdlib", "libUnistd", "libWinIo", "str_cstr",
      "str_free", "typeStr"})]

From_fs_isAbsoluteSync ==
  [fs_isAbsoluteSync |-> Fn(<<"struct str">>, {"bool", "isalpha", "str_free", "struct str"}, {"libCtype",
      "libStdbool", "str_free", "typeStr"}),
   fs_isDirectorySync |-> Fn(<<"struct str">>, {"S_IFDIR", "S_IFMT", "THE_OS_WINDOWS", "_S_IFDIR", "_S_IFMT", "_stat",
      "bool", "false", "free", "stat", "str_cstr", "str_free", "struct _stat", "struct stat", "struct str"},
      {"definitions", "libStdbool", "libStdlib", "libSysStat", "str_cstr", "str_free", "typeStr"}),
   fs_isFileSync |-> Fn(<<"struct str">>, {"S_IFMT", "S_IFREG", "THE_OS_WINDOWS", "_S_IFMT", "_S_IFREG", "_stat",
      "bool", "false", "free", "stat", "str_cstr", "str_free", "struct _stat", "struct stat", "struct str"},
      {"definitions", "libStdbool", "libStdlib", "libSysStat", "str_cstr", "str_free", "typeStr"}),
   fs_isSymbolicLinkSync |-> Fn(<<"struct str">>, {"CloseHandle", "CreateFile", "DWORD", "DeviceIoControl",
      "FILE_FLAG_BACKUP_SEMANTICS", "FILE_FLAG_OPEN_REPARSE_POINT", "FILE_SHARE_READ", "FSCTL_GET_REPARSE_POINT",
      "HANDLE", "INVALID_HANDLE_VALUE", "IO_REPARSE_TAG_APPEXECLINK", "IO_REPARSE_TAG_MOUNT_POINT",
      "IO_REPARSE_TAG_SYMLINK", "MAXIMUM_REPARSE_DATA_BUFFER_SIZE", "NULL", "OPEN_EXISTING", "S_IFLNK", "S_IFMT",
      "THE_OS_WINDOWS", "bool", "false", "free", "lstat", "size_t", "stat", "str_cstr", "str_free", "strlen",
      "struct stat", "struct str", "struct win_reparse_data_buffer", "true"}, {"definitions", "libStdbool",
      "libStddef", "libStdlib", "libString", "libSysStat", "libWindows", "str_cstr", "str_free", "typeStr",
      "typeWinReparseDataBuffer"})]

From_fs_linkSync ==
  [fs_linkSync |-> Throws(<<"struct str", "struct str">>, {"CreateSymbolicLink", "DWORD", "FILE_ATTRIBUTE_DIRECTORY",
      "GetFileAttributes", "SYMBOLIC_LINK_FLAG_DIRECTORY", "THE_OS_WINDOWS", "alloc", "bool", "free", "size_t",
      "snprintf", "sprintf", "str_cstr", "str_free", "symlink"}, {"alloc", "definitions", "libStdbool", "libStdio",
      "libStdlib", "libUnistd", "libWindows", "str_cstr", "str_free"}, {}),
   fs_mkdirSync |-> Throws(<<"struct str">>, {"CreateDirectory", "THE_OS_WINDOWS", "alloc", "bool", "free", "mkdir",
      "size_t", "snprintf", "sprintf", "str_cstr", "str_free"}, {"alloc", "definitions", "libStdbool", "libStdio",
      "libStdlib", "libSysStat", "libWindows", "str_cstr", "str_free"}, {}),
   fs_readFileSync |-> Throws(<<"struct str">>, {"FILE", "alloc", "fclose", "fopen", "fread", "free", "memcpy",
      "re_alloc", "size_t", "snprintf", "sprintf", "str_cstr", "str_free", "struct buffer"}, {"alloc", "libStdio",
      "libStdlib", "libString", "re_alloc", "str_cstr", "str_free", "typeBuffer"}, {})]

From_fs_realpathSync ==
  [fs_realpathSync |-> Throws(<<"struct str">>, {"CloseHandle", "CreateFile", "FILE_ATTRIBUTE_NORMAL",
      "FILE_FLAG_BACKUP_SEMANTICS", "GetFinalPathNameByHandle", "HANDLE", "INVALID_HANDLE_VALUE", "MAX_PATH",
      "OPEN_EXISTING", "THE_OS_WINDOWS", "VOLUME_NAME_DOS", "alloc", "free", "memcmp", "memcpy", "realpath", "size_t",
      "snprintf", "sprintf", "str_cstr", "str_free", "strlen"}, {"alloc", "definitions", "libStdio", "libStdlib",
      "libString", "libWindows", "str_cstr", "str_free"}, {}),
   fs_renameSync |-> Throws(<<"struct str", "struct str">>, {"alloc", "free", "rename", "size_t", "snprintf",
      "sprintf", "str_cstr", "str_free"}, {"alloc", "libStdio", "libStdlib", "str_cstr", "str_free"}, {}),
   fs_rmSync |-> Throws(<<"struct str">>, {"alloc", "free", "remove", "size_t", "snprintf", "sprintf", "str_cstr",
      "str_free"}, {"alloc", "libStdio", "libStdlib", "str_cstr", "str_free"}, {})]

From_fs_rmdirSync ==
  [fs_rmdirSync |-> Throws(<<"struct str">>, {"RemoveDirectory", "THE_OS_WINDOWS", "alloc", "bool", "free", "rmdir",
      "size_t", "snprintf", "sprintf", "str_cstr", "str_free"}, {"alloc", "definitions", "libStdbool", "libStdio",
      "libStdlib", "libUnistd", "libWindows", "str_cstr", "str_free"}, {}),
   fs_scandirSync |-> Throws(<<"struct str">>, {"DIR", "ERROR_FILE_NOT_FOUND", "ERROR_NO_MORE_FILES",
      "FILE_ATTRIBUTE_DIRECTORY", "FindClose", "FindFirstFile", "FindNextFile", "GetFileAttributes", "GetLastError",
      "HANDLE", "INVALID_FILE_ATTRIBUTES", "INVALID_HANDLE_VALUE", "S_IFDIR", "S_IFMT", "THE_OS_WINDOWS",
      "WIN32_FIND_DATA", "alloc", "bool", "closedir", "free", "memcmp", "opendir", "re_alloc", "readdir", "size_t",
      "snprintf", "sprintf", "stat", "str_alloc", "str_cstr", "str_free", "strcmp", "struct dirent", "struct stat",
      "true"}, {"alloc", "definitions", "libDirent", "libStdbool", "libStdio", "libStdlib", "libString", "libSysStat",
      "libWindows", "re_alloc", "str_alloc", "str_cstr", "str_free"}, {"array_str"})]

From_fs_statSync ==
  [fs_statSync |-> Throws(<<"struct str">>, {"THE_OS_MACOS", "THE_OS_WINDOWS", "_stat", "alloc", "free", "size_t",
      "snprintf", "sprintf", "stat", "str_cstr", "str_free", "struct _stat", "struct stat"}, {"alloc", "definitions",
      "libStdio", "libStdlib", "libSysStat", "str_cstr", "str_free"}, {"fs_Stats", "fs_Stats_alloc"}),
   fs_unlinkSync |-> Throws(<<"struct str">>, {"FILE_ATTRIBUTE_DIRECTORY", "GetFileAttributes", "RemoveDirectory",
      "THE_OS_WINDOWS", "_unlink", "alloc", "bool", "free", "size_t", "snprintf", "sprintf", "str_cstr", "str_free",
      "unlink"}, {"alloc", "definitions", "libStdbool", "libStdio", "libStdlib", "libUnistd", "libWindows",
      "str_cstr", "str_free"}, {}),
   fs_writeFileSync |-> Throws(<<"struct str", "struct buffer">>, {"FILE", "alloc", "buffer_free", "fclose", "fopen",
      "free", "fwrite", "size_t", "snprintf", "sprintf", "str_cstr", "str_free", "struct buffer"}, {"alloc",
      "buffer_free", "libStdio", "libStdlib", "str_cstr", "str_free", "typeBuffer"}, {}),
   i16_str |-> Fn(<<"int16_t">>, {"PRId16", "int16_t", "sprintf", "str_alloc", "struct str"}, {"libInttypes",
      "libStdint", "libStdio", "str_alloc", "typeStr"}),
   i32_str |-> Fn(<<"int32_t">>, {"PRId32", "int32_t", "sprintf", "str_alloc", "struct str"}, {"libInttypes",
      "libStdint", "libStdio", "str_alloc", "typeStr"})]

From_i64_str ==
  [i64_str |-> Fn(<<"int64_t">>, {"PRId64", "int64_t", "sprintf", "str_alloc", "struct str"}, {"libInttypes",
      "libStdint", "libStdio", "str_alloc", "typeStr"}),
   i8_str |-> Fn(<<"int8_t">>, {"PRId8", "int8_t", "sprintf", "str_alloc", "struct str"}, {"libInttypes", "libStdint",
      "libStdio", "str_alloc", "typeStr"}),
   int_str |-> Fn(<<"int32_t">>, {"PRId32", "int32_t", "sprintf", "str_alloc", "struct str"}, {"libInttypes",
      "libStdint", "libStdio", "str_alloc", "typeStr"}),
   new_error |-> Item(<<"struct str">>, {"NULL", "error_Error", "error_Error_alloc", "struct str"}, {"libStddef",
      "typeStr"}, {"error_Error", "error_Error_alloc"}, FALSE),
   os_arch |-> Throws(<<>>, {"GetSystemInfo", "PROCESSOR_ARCHITECTURE_ALPHA", "PROCESSOR_ARCHITECTURE_ALPHA64",
      "PROCESSOR_ARCHITECTURE_AMD64", "PROCESSOR_ARCHITECTURE_ARM", "PROCESSOR_ARCHITECTURE_ARM64",
      "PROCESSOR_ARCHITECTURE_IA32_ON_WIN64", "PROCESSOR_ARCHITECTURE_IA64", "PROCESSOR_ARCHITECTURE_INTEL",
      "PROCESSOR_ARCHITECTURE_MIPS", "PROCESSOR_ARCHITECTURE_PPC", "PROCESSOR_ARCHITECTURE_SHX", "SYSTEM_INFO",
      "THE_OS_WINDOWS", "str_alloc", "struct utsname", "uname"}, {"definitions", "libSysUtsname", "libWindows",
      "str_alloc"}, {}),
   os_name |-> Throws(<<>>, {"THE_OS_WINDOWS", "str_alloc", "strcmp", "struct utsname", "uname"}, {"definitions",
      "libString", "libSysUtsname", "str_alloc"}, {})]

From_path_basename ==
  [path_basename |-> Fn(<<"struct str">>, {"THE_OS_WINDOWS", "alloc", "memcpy", "size_t", "str_alloc", "str_free",
      "struct str"}, {"alloc", "definitions", "libStddef", "libString", "str_alloc", "str_free", "typeStr"}),
   path_dirname |-> Fn(<<"struct str">>, {"THE_OS_WINDOWS", "alloc", "memcpy", "re_alloc", "size_t", "str_alloc",
      "str_free", "struct str"}, {"alloc", "definitions", "libStddef", "libString", "re_alloc", "str_alloc",
      "str_free", "typeStr"}),
   path_mktemp |-> Throws(<<"unsigned char (*f) (char *)">>, {"SystemFunction036", "THE_OS_WINDOWS", "TMP_MAX",
      "free", "memcpy", "path_tmpdir", "re_alloc", "size_t", "str_alloc", "strlen"}, {"definitions",
      "externSystemFunction036", "libStdio", "libStdlib", "libString", "path_tmpdir", "re_alloc", "str_alloc"}, {}),
   path_tempDirectory |-> Throws(<<>>, {"free", "path_mktemp", "path_tempDirectoryFunctor", "str_alloc"},
      {"libStdlib", "path_mktemp", "path_tempDirectoryFunctor", "str_alloc"}, {})]

From_path_tempDirectoryFunctor ==
  [path_tempDirectoryFunctor |-> Fn(<<"char *">>, {"CreateDirectory", "NULL", "THE_OS_WINDOWS", "mkdtemp"},
      {"definitions", "libStddef", "libStdlib", "libUnistd", "libWindows"}),
   path_tempFile |-> Throws(<<>>, {"free", "path_mktemp", "path_tempFileFunctor", "str_alloc"}, {"libStdlib",
      "path_mktemp", "path_tempFileFunctor", "str_alloc"}, {}),
   path_tempFileFunctor |-> Fn(<<"char *">>, {"CREATE_NEW", "CreateFile", "FILE_ATTRIBUTE_NORMAL",
      "FILE_SHARE_DELETE", "FILE_SHARE_READ", "FILE_SHARE_WRITE", "GENERIC_READ", "GENERIC_WRITE",
      "INVALID_HANDLE_VALUE", "NULL", "THE_OS_WINDOWS", "close", "mkstemp"}, {"definitions", "libStddef", "libStdlib",
      "libUnistd", "libWindows"}),
   path_tmpdir |-> Throws(<<>>, {"GetTempPath", "THE_OS_WINDOWS", "alloc", "free", "getenv", "memcpy", "re_alloc",
      "size_t", "str_alloc", "strlen"}, {"alloc", "definitions", "libStdlib", "libString", "libWindows", "re_alloc",
      "str_alloc"}, {})]

From_print ==
  [print |-> Fn(<<"FILE *", "const char *", "...">>, {"FILE", "NULL", "PRId32", "PRId64", "PRIu32", "PRIu64", "alloc",
      "fflush", "fputs", "free", "int32_t", "int64_t", "memcpy", "re_alloc", "size_t", "snprintf", "sprintf",
      "strlen", "struct str", "uint32_t", "uint64_t", "va_arg", "va_end", "va_list", "va_start"}, {"alloc",
      "libInttypes", "libStdarg", "libStddef", "libStdint", "libStdio", "libStdlib", "libString", "re_alloc",
      "typeStr"}),
   process_args |-> Item(<<>>, {"alloc", "array_str", "size_t", "str_alloc", "struct str"}, {"alloc", "libStddef",
      "str_alloc", "typeStr"}, {"array_str"}, FALSE)]

From_process_cwd ==
  [process_cwd |-> Throws(<<>>, {"THE_OS_WINDOWS", "_getcwd", "getcwd", "str_alloc"}, {"definitions", "libUnistd",
      "libWinDirect", "str_alloc"}, {}),
   process_env |-> Item(<<>>, {"NULL", "alloc", "environ", "map_strMSstrME", "size_t", "str_alloc", "str_calloc",
      "strchr", "strlen"}, {"alloc", "libStddef", "libString", "str_alloc", "str_calloc", "varEnviron"},
      {"map_str_str", "pair_str_str"}, FALSE),
   process_exit |-> Fn(<<"unsigned char", "int32_t">>, {"EXIT_SUCCESS", "exit", "int32_t"}, {"libStdint",
      "libStdlib"}),
   process_getgid |-> Fn(<<>>, {"THE_OS_WINDOWS", "getgid", "int32_t"}, {"definitions", "libStdint", "libUnistd"}),
   process_getuid |-> Fn(<<>>, {"THE_OS_WINDOWS", "getuid", "int32_t"}, {"definitions", "libStdint", "libUnistd"}),
   process_home |-> Throws(<<>>, {"GetEnvironmentVariable", "THE_OS_WINDOWS", "getenv", "getpwuid", "getuid",
      "str_alloc"}, {"definitions", "libPwd", "libStdlib", "libUnistd", "libWindows", "str_alloc"}, {})]

From_process_runSync ==
  [process_runSync |-> Throws(<<"struct str">>, {"FILE", "THE_OS_WINDOWS", "_pclose", "_popen", "alloc", "fread",
      "free", "memcpy", "pclose", "popen", "re_alloc", "size_t", "snprintf", "sprintf", "str_cstr", "str_free",
      "struct buffer"}, {"alloc", "definitions", "libStdio", "libStdlib", "libString", "re_alloc", "str_cstr",
      "str_free", "typeBuffer"}, {}),
   random_randomFloat |-> Throws(<<"unsigned char", "double", "unsigned char", "double">>, {"RAND_bytes",
      "UINT32_MAX", "str_alloc", "uint32_t"}, {"libOpensslRand", "libStdint", "str_alloc"}, {}),
   random_randomInt |-> Throws(<<"unsigned char", "int32_t", "unsigned char", "int32_t">>, {"INT32_MAX", "INT32_MIN",
      "RAND_bytes", "UINT32_MAX", "int32_t", "int64_t", "str_alloc", "uint32_t"}, {"libOpensslRand", "libStdint",
      "str_alloc"}, {}),
   random_randomStr |-> Throws(<<"unsigned char", "struct str", "unsigned char", "int32_t">>, {"RAND_bytes", "alloc",
      "free", "int32_t", "round", "size_t", "str_alloc", "str_calloc", "str_free"}, {"alloc", "libMath",
      "libOpensslRand", "libStdint", "libStdlib", "str_alloc", "str_calloc", "str_free"}, {}),
   re_alloc |-> Fn(<<"void *", "size_t">>, {"NULL", "err_state", "error_alloc", "realloc", "size_t"}, {"error_alloc",
      "libStddef", "libStdlib", "varErrState"})]

From_request_close ==
  [request_close |-> Item(<<"struct request_Request **">>, {"NULL", "SSL_CTX_free", "SSL_free", "THE_OS_WINDOWS",
      "close", "closesocket", "request_Request", "struct request"}, {"definitions", "libOpensslSsl", "libStddef",
      "libUnistd", "libWinsock2", "typeRequest"}, {"request_Request"}, FALSE)]

From_request_open ==
  [request_open |-> Throws(<<"struct str", "struct str", "unsigned char", "struct buffer", "unsigned char",
      "struct array_request_Header">>, {"AF_INET", "INVALID_SOCKET", "IPPROTO_TCP", "MAKEWORD", "SOCKET_ERROR",
      "SOCK_STREAM", "SSL_CTX_free", "SSL_CTX_new", "SSL_connect", "SSL_free", "SSL_library_init", "SSL_new",
      "SSL_set_fd", "SSL_set_tlsext_host_name", "SSL_write", "THE_OS_WINDOWS", "TLS_client_method", "WSADATA",
      "WSAStartup", "alloc", "bool", "buffer_free", "close", "closesocket", "connect", "free", "freeaddrinfo",
      "getaddrinfo", "lib_openssl_init", "lib_ws2_init", "memcmp", "memcpy", "memset", "request_stringifyHeaders",
      "send", "size_t", "snprintf", "socket", "sprintf", "str_alloc", "str_cstr", "str_free", "strcmp", "strtoul",
      "struct addrinfo", "struct buffer", "struct request", "true", "url_parse"}, {"alloc", "buffer_free",
      "definitions", "libNetdb", "libNetinetIn", "libOpensslSsl", "libStdbool", "libStdio", "libStdlib", "libString",
      "libSysSocket", "libUnistd", "libWinWs2tcpip", "libWindows", "libWinsock2", "request_stringifyHeaders",
      "str_alloc", "str_cstr", "str_free", "typeBuffer", "typeRequest", "url_parse", "varLibOpensslInit",
      "varLibWs2Init"}, {"array_request_Header", "array_request_Header_free", "request_Request", "url_URL",
      "url_URL_free"})]

From_request_read ==
  [request_read |-> Throws(<<"struct request_Request **">>, {"SSL_read", "SSL_shutdown", "alloc", "free", "int32_t",
      "isdigit", "memcmp", "memcpy", "memmove", "re_alloc", "recv", "shutdown", "size_t", "str_alloc", "strtoul",
      "struct buffer", "struct request", "tolower", "true"}, {"alloc", "libCtype", "libOpensslSsl", "libStdbool",
      "libStdint", "libStdlib", "libString", "libSysSocket", "libWinsock2", "re_alloc", "str_alloc", "typeBuffer",
      "typeRequest"}, {"array_request_Header", "request_Header", "request_Header_alloc", "request_Request",
      "request_Response", "request_Response_alloc"})]

From_request_stringifyHeaders ==
  [request_stringifyHeaders |-> Item(<<"struct array_request_Header", "struct url_URL *", "struct buffer">>, {"NULL",
      "array_request_Header", "bool", "false", "free", "memcpy", "re_alloc", "request_Header", "size_t", "snprintf",
      "sprintf", "str_cstr", "strcmp", "struct buffer", "tolower", "true", "url_URL"}, {"libCtype", "libStdbool",
      "libStddef", "libStdio", "libStdlib", "libString", "re_alloc", "str_cstr", "typeBuffer"},
      {"array_request_Header", "request_Header", "url_URL"}, FALSE),
   str_alloc |-> Fn(<<"const char *">>, {"alloc", "memcpy", "size_t", "strlen", "struct str"}, {"alloc", "libStddef",
      "libString", "typeStr"}),
   str_at |-> Throws(<<"struct str", "int32_t">>, {"PRId32", "alloc", "int32_t", "size_t", "snprintf", "sprintf"},
      {"alloc", "libInttypes", "libStdint", "libStdio"}, {}),
   str_calloc |-> Fn(<<"const char *", "size_t">>, {"alloc", "memcpy", "size_t", "struct str"}, {"alloc", "libStddef",
      "libString", "typeStr"}),
   str_concat_cstr |-> Fn(<<"struct str", "const char *">>, {"alloc", "free", "memcpy", "size_t", "strlen",
      "struct str"}, {"alloc", "libStddef", "libStdlib", "libString", "typeStr"}),
   str_concat_str |-> Fn(<<"struct str", "struct str">>, {"alloc", "free", "memcpy", "size_t", "struct str"},
      {"alloc", "libStddef", "libStdlib", "libString", "typeStr"})]

From_str_contains ==
  [str_contains |-> Fn(<<"struct str", "struct str">>, {"bool", "free", "memcmp", "size_t", "struct str", "true"},
      {"libStdbool", "libStddef", "libStdlib", "libString", "typeStr"}),
   str_copy |-> Fn(<<"const struct str">>, {"alloc", "memcpy", "struct str"}, {"alloc", "libString", "typeStr"}),
   str_cstr |-> Fn(<<"const struct str">>, {"alloc", "memcpy", "struct str"}, {"alloc", "libString", "typeStr"}),
   str_empty |-> Fn(<<"struct str">>, {"bool", "free", "struct str"}, {"libStdbool", "libStdlib", "typeStr"}),
   str_eq_cstr |-> Fn(<<"struct str", "const char *">>, {"bool", "free", "memcmp", "strlen", "struct str"},
      {"libStdbool", "libStdlib", "libString", "typeStr"}),
   str_eq_str |-> Fn(<<"struct str", "struct str">>, {"bool", "free", "memcmp", "struct str"}, {"libStdbool",
      "libStdlib", "libString", "typeStr"}),
   str_escape |-> Fn(<<"const struct str">>, {"alloc", "re_alloc", "size_t", "struct str"}, {"alloc", "libStddef",
      "re_alloc", "typeStr"}),
   str_find |-> Fn(<<"struct str", "struct str">>, {"free", "int32_t", "memcmp", "size_t", "struct str"},
      {"libStddef", "libStdint", "libStdlib", "libString", "typeStr"})]

From_str_free ==
  [str_free |-> Fn(<<"struct str">>, {"free", "struct str"}, {"libStdlib", "typeStr"}),
   str_ge |-> Fn(<<"struct str", "struct str">>, {"bool", "free", "memcmp", "struct str"}, {"libStdbool", "libStdlib",
      "libString", "typeStr"}),
   str_gt |-> Fn(<<"struct str", "struct str">>, {"bool", "free", "memcmp", "struct str"}, {"libStdbool", "libStdlib",
      "libString", "typeStr"}),
   str_le |-> Fn(<<"struct str", "struct str">>, {"bool", "free", "memcmp", "struct str"}, {"libStdbool", "libStdlib",
      "libString", "typeStr"}),
   str_len |-> Fn(<<"struct str">>, {"free", "size_t", "struct str"}, {"libStddef", "libStdlib", "typeStr"}),
   str_lines |-> Item(<<"struct str", "unsigned char", "bool">>, {"NULL", "alloc", "array_str", "bool", "false",
      "free", "memcpy", "re_alloc", "size_t", "struct str"}, {"alloc", "libStdbool", "libStddef", "libStdlib",
      "libString", "re_alloc", "typeStr"}, {"array_str"}, FALSE),
   str_lower |-> Fn(<<"struct str">>, {"size_t", "struct str", "tolower"}, {"libCtype", "libStddef", "typeStr"}),
   str_lowerFirst |-> Fn(<<"struct str">>, {"struct str", "tolower"}, {"libCtype", "typeStr"})]

From_str_lt ==
  [str_lt |-> Fn(<<"struct str", "struct str">>, {"bool", "free", "memcmp", "struct str"}, {"libStdbool", "libStdlib",
      "libString", "typeStr"}),
   str_ne_cstr |-> Fn(<<"struct str", "const char *">>, {"bool", "free", "memcmp", "strlen", "struct str"},
      {"libStdbool", "libStdlib", "libString", "typeStr"}),
   str_ne_str |-> Fn(<<"struct str", "struct str">>, {"bool", "free", "memcmp", "struct str"}, {"libStdbool",
      "libStdlib", "libString", "typeStr"}),
   str_not |-> Fn(<<"struct str">>, {"bool", "free", "struct str"}, {"libStdbool", "libStdlib", "typeStr"}),
   str_realloc |-> Fn(<<"struct str", "struct str">>, {"free", "struct str"}, {"libStdlib", "typeStr"})]

From_str_replace ==
  [str_replace |-> Fn(<<"struct str", "struct str", "struct str", "unsigned char", "int32_t">>, {"NULL", "alloc",
      "free", "int32_t", "memcmp", "memcpy", "re_alloc", "size_t", "struct str"}, {"alloc", "libStddef", "libStdint",
      "libStdlib", "libString", "re_alloc", "typeStr"}),
   str_slice |-> Fn(<<"struct str", "unsigned char", "int32_t", "unsigned char", "int32_t">>, {"alloc", "free",
      "int32_t", "size_t", "str_alloc", "struct str"}, {"alloc", "libStddef", "libStdint", "libStdlib", "str_alloc",
      "typeStr"}),
   str_split |-> Item(<<"struct str", "unsigned char", "struct str">>, {"NULL", "alloc", "array_str", "free",
      "memcmp", "re_alloc", "size_t", "str_calloc", "struct str"}, {"alloc", "libStddef", "libStdlib", "libString",
      "re_alloc", "str_calloc", "typeStr"}, {"array_str"}, FALSE)]

From_str_toBuffer ==
  [str_toBuffer |-> Fn(<<"struct str">>, {"struct buffer", "struct str"}, {"typeBuffer", "typeStr"}),
   str_toF32 |-> Throws(<<"struct str">>, {"ERANGE", "FLT_MAX", "alloc", "errno", "free", "size_t", "snprintf",
      "sprintf", "str_cstr", "strtof"}, {"alloc", "libErrno", "libFloat", "libStdio", "libStdlib", "str_cstr"}, {}),
   str_toF64 |-> Throws(<<"struct str">>, {"DBL_MAX", "ERANGE", "alloc", "errno", "free", "size_t", "snprintf",
      "sprintf", "str_cstr", "strtod"}, {"alloc", "libErrno", "libFloat", "libStdio", "libStdlib", "str_cstr"}, {}),
   str_toFloat |-> Throws(<<"struct str">>, {"DBL_MAX", "ERANGE", "alloc", "errno", "free", "size_t", "snprintf",
      "sprintf", "str_cstr", "strtod"}, {"alloc", "libErrno", "libFloat", "libStdio", "libStdlib", "str_cstr"}, {})]

From_str_toI16 ==
  [str_toI16 |-> Throws(<<"struct str", "unsigned char", "int32_t">>, {"ERANGE", "INT16_MAX", "INT16_MIN", "PRId32",
      "alloc", "errno", "free", "int16_t", "int32_t", "size_t", "snprintf", "sprintf", "str_cstr", "strtol"},
      {"alloc", "libErrno", "libInttypes", "libStdint", "libStdio", "libStdlib", "str_cstr"}, {}),
   str_toI32 |-> Throws(<<"struct str", "unsigned char", "int32_t">>, {"ERANGE", "INT32_MAX", "INT32_MIN", "PRId32",
      "alloc", "errno", "free", "int32_t", "size_t", "snprintf", "sprintf", "str_cstr", "strtol"}, {"alloc",
      "libErrno", "libInttypes", "libStdint", "libStdio", "libStdlib", "str_cstr"}, {}),
   str_toI64 |-> Throws(<<"struct str", "unsigned char", "int32_t">>, {"ERANGE", "INT64_MAX", "INT64_MIN", "PRId32",
      "alloc", "errno", "free", "int32_t", "int64_t", "size_t", "snprintf", "sprintf", "str_cstr", "strtoll"},
      {"alloc", "libErrno", "libInttypes", "libStdint", "libStdio", "libStdlib", "str_cstr"}, {})]

From_str_toI8 ==
  [str_toI8 |-> Throws(<<"struct str", "unsigned char", "int32_t">>, {"ERANGE", "INT8_MAX", "INT8_MIN", "PRId32",
      "alloc", "errno", "free", "int32_t", "int8_t", "size_t", "snprintf", "sprintf", "str_cstr", "strtol"}, {"alloc",
      "libErrno", "libInttypes", "libStdint", "libStdio", "libStdlib", "str_cstr"}, {}),
   str_toInt |-> Throws(<<"struct str", "unsigned char", "int32_t">>, {"ERANGE", "INT32_MAX", "INT32_MIN", "PRId32",
      "alloc", "errno", "free", "int32_t", "size_t", "snprintf", "sprintf", "str_cstr", "strtol"}, {"alloc",
      "libErrno", "libInttypes", "libStdint", "libStdio", "libStdlib", "str_cstr"}, {}),
   str_toU16 |-> Throws(<<"struct str", "unsigned char", "int32_t">>, {"ERANGE", "PRId32", "UINT16_MAX", "alloc",
      "errno", "free", "int32_t", "size_t", "snprintf", "sprintf", "str_cstr", "strtoul", "uint16_t"}, {"alloc",
      "libErrno", "libInttypes", "libStdint", "libStdio", "libStdlib", "str_cstr"}, {})]

From_str_toU32 ==
  [str_toU32 |-> Throws(<<"struct str", "unsigned char", "int32_t">>, {"ERANGE", "PRId32", "UINT32_MAX", "alloc",
      "errno", "free", "int32_t", "size_t", "snprintf", "sprintf", "str_cstr", "strtoul", "uint32_t"}, {"alloc",
      "libErrno", "libInttypes", "libStdint", "libStdio", "libStdlib", "str_cstr"}, {}),
   str_toU64 |-> Throws(<<"struct str", "unsigned char", "int32_t">>, {"ERANGE", "PRId32", "UINT64_MAX", "alloc",
      "errno", "free", "int32_t", "size_t", "snprintf", "sprintf", "str_cstr", "strtoull", "uint64_t"}, {"alloc",
      "libErrno", "libInttypes", "libStdint", "libStdio", "libStdlib", "str_cstr"}, {}),
   str_toU8 |-> Throws(<<"struct str", "unsigned char", "int32_t">>, {"ERANGE", "PRId32", "UINT8_MAX", "alloc",
      "errno", "free", "int32_t", "size_t", "snprintf", "sprintf", "str_cstr", "strtoul", "uint8_t"}, {"alloc",
      "libErrno", "libInttypes", "libStdint", "libStdio", "libStdlib", "str_cstr"}, {})]

From_str_trim ==
  [str_trim |-> Fn(<<"struct str">>, {"alloc", "free", "isspace", "size_t", "str_alloc", "struct str"}, {"alloc",
      "libCtype", "libStddef", "libStdlib", "str_alloc", "typeStr"}),
   str_trimEnd |-> Fn(<<"struct str">>, {"NULL", "free", "isspace", "re_alloc", "struct str"}, {"libCtype",
      "libStddef", "libStdlib", "re_alloc", "typeStr"}),
   str_trimStart |-> Fn(<<"struct str">>, {"NULL", "free", "isspace", "memmove", "re_alloc", "size_t", "struct str"},
      {"libCtype", "libStddef", "libStdlib", "libString", "re_alloc", "typeStr"}),
   str_upper |-> Fn(<<"struct str">>, {"size_t", "struct str", "toupper"}, {"libCtype", "libStddef", "typeStr"}),
   str_upperFirst |-> Fn(<<"struct str">>, {"struct str", "toupper"}, {"libCtype", "typeStr"}),
   thread_id |-> Fn(<<>>, {"GetCurrentThreadId", "NULL", "SYS_gettid", "THE_OS_MACOS", "THE_OS_WINDOWS", "int32_t",
      "pthread_threadid_np", "syscall", "uint64_t"}, {"definitions", "libPthread", "libStddef", "libStdint",
      "libSysSyscall", "libUnistd", "libWindows"}),
   thread_sleep |-> Fn(<<"int32_t">>, {"Sleep", "THE_OS_WINDOWS", "int32_t", "usleep"}, {"definitions", "libStdint",
      "libUnistd", "libWindows"})]

From_threadpool_add ==
  [threadpool_add |-> Fn(<<"threadpool_t *", "threadpool_func_t", "void *", "void *", "void *",
      "threadpool_job_t *">>, {"NULL", "alloc", "threadpool_func_t", "threadpool_insert", "threadpool_job_t",
      "threadpool_t"}, {"alloc", "libStddef", "threadpool_insert", "typeThreadpool", "typeThreadpoolFunc",
      "typeThreadpoolJob"}),
   threadpool_cond_deinit |-> Fn(<<"threadpool_cond_t *">>, {"THE_OS_WINDOWS", "pthread_cond_destroy",
      "threadpool_cond_t"}, {"definitions", "libPthread", "typeThreadpoolCond"}),
   threadpool_cond_init |-> Fn(<<"threadpool_cond_t *">>, {"InitializeConditionVariable", "NULL", "THE_OS_WINDOWS",
      "pthread_cond_init", "threadpool_cond_t"}, {"definitions", "libPthread", "libStddef", "libWindows",
      "typeThreadpoolCond"}),
   threadpool_cond_signal |-> Fn(<<"threadpool_cond_t *">>, {"THE_OS_WINDOWS", "WakeConditionVariable",
      "pthread_cond_signal", "threadpool_cond_t"}, {"definitions", "libPthread", "libWindows", "typeThreadpoolCond"}),
   threadpool_cond_wait |-> Fn(<<"threadpool_cond_t *", "threadpool_mutex_t *">>, {"INFINITE",
      "SleepConditionVariableCS", "THE_OS_WINDOWS", "pthread_cond_wait", "threadpool_cond_t", "threadpool_mutex_t"},
      {"definitions", "libPthread", "libWindows", "typeThreadpoolCond", "typeThreadpoolMutex"}),
   threadpool_deinit |-> Fn(<<"threadpool_t *">>, {"NULL", "false", "free", "threadpool_cond_deinit",
      "threadpool_cond_signal", "threadpool_cond_wait", "threadpool_job_deinit", "threadpool_job_t",
      "threadpool_mutex_deinit", "threadpool_mutex_lock", "threadpool_mutex_unlock", "threadpool_t",
      "threadpool_thread_deinit", "threadpool_thread_t"}, {"libStdbool", "libStddef", "libStdlib",
      "threadpool_cond_deinit", "threadpool_cond_signal", "threadpool_cond_wait", "threadpool_job_deinit",
      "threadpool_mutex_deinit", "threadpool_mutex_lock", "threadpool_mutex_unlock", "threadpool_thread_deinit",
      "typeThreadpool", "typeThreadpoolJob", "typeThreadpoolThread"}),
   threadpool_error_assign |-> Fn(<<"threadpool_t *", "err_state_t *">>, {"err_state", "err_state_t", "memcpy",
      "threadpool_mutex_lock", "threadpool_mutex_unlock", "threadpool_t"}, {"libString", "threadpool_mutex_lock",
      "threadpool_mutex_unlock", "typeErrState", "typeThreadpool", "varErrState"}),
   threadpool_error_assign_parent |-> Fn(<<"threadpool_t *", "threadpool_job_t *", "err_state_t *">>, {"err_state_t",
      "memcpy", "threadpool_job_t", "threadpool_t"}, {"libString", "typeErrState", "typeThreadpool",
      "typeThreadpoolJob"})]

From_threadpool_get ==
  [threadpool_get |-> Fn(<<"threadpool_t *">>, {"NULL", "threadpool_cond_signal", "threadpool_job_t",
      "threadpool_mutex_lock", "threadpool_mutex_unlock", "threadpool_t"}, {"libStddef", "threadpool_cond_signal",
      "threadpool_mutex_lock", "threadpool_mutex_unlock", "typeThreadpool", "typeThreadpoolJob"}),
   threadpool_init |-> Fn(<<"int">>, {"NULL", "alloc", "threadpool_cond_init", "threadpool_cond_wait",
      "threadpool_mutex_init", "threadpool_mutex_lock", "threadpool_mutex_unlock", "threadpool_t",
      "threadpool_thread_init", "true"}, {"alloc", "libStdbool", "libStddef", "threadpool_cond_init",
      "threadpool_cond_wait", "threadpool_mutex_init", "threadpool_mutex_lock", "threadpool_mutex_unlock",
      "threadpool_thread_init", "typeThreadpool"}),
   threadpool_insert |-> Fn(<<"threadpool_t *", "threadpool_job_t *">>, {"NULL", "threadpool_cond_signal",
      "threadpool_job_t", "threadpool_mutex_lock", "threadpool_mutex_unlock", "threadpool_t"}, {"libStddef",
      "threadpool_cond_signal", "threadpool_mutex_lock", "threadpool_mutex_unlock", "typeThreadpool",
      "typeThreadpoolJob"}),
   threadpool_job_deinit |-> Fn(<<"threadpool_job_t *">>, {"NULL", "free", "threadpool_job_t"}, {"libStddef",
      "libStdlib", "typeThreadpoolJob"}),
   threadpool_job_step |-> Fn(<<"threadpool_job_t *", "int">>, {"threadpool_job_t"}, {"typeThreadpoolJob"}),
   threadpool_mutex_deinit |-> Fn(<<"threadpool_mutex_t *">>, {"DeleteCriticalSection", "THE_OS_WINDOWS",
      "pthread_mutex_destroy", "threadpool_mutex_t"}, {"definitions", "libPthread", "libWindows",
      "typeThreadpoolMutex"}),
   threadpool_mutex_init |-> Fn(<<"threadpool_mutex_t *">>, {"InitializeCriticalSection", "NULL", "THE_OS_WINDOWS",
      "pthread_mutex_init", "threadpool_mutex_t"}, {"definitions", "libPthread", "libStddef", "libWindows",
      "typeThreadpoolMutex"}),
   threadpool_mutex_lock |-> Fn(<<"threadpool_mutex_t *">>, {"EnterCriticalSection", "THE_OS_WINDOWS",
      "pthread_mutex_lock", "threadpool_mutex_t"}, {"definitions", "libPthread", "libWindows",
      "typeThreadpoolMutex"})]

From_threadpool_mutex_unlock ==
  [threadpool_mutex_unlock |-> Fn(<<"threadpool_mutex_t *">>, {"LeaveCriticalSection", "THE_OS_WINDOWS",
      "pthread_mutex_unlock", "threadpool_mutex_t"}, {"definitions", "libPthread", "libWindows",
      "typeThreadpoolMutex"}),
   threadpool_thread_deinit |-> Fn(<<"threadpool_thread_t *">>, {"CloseHandle", "INFINITE", "MemoryBarrier", "NULL",
      "THE_OS_WINDOWS", "WaitForSingleObject", "free", "pthread_join", "threadpool_thread_t"}, {"definitions",
      "libPthread", "libStddef", "libStdlib", "libWindows", "typeThreadpoolThread"}),
   threadpool_thread_init |-> Fn(<<"threadpool_t *", "threadpool_thread_t *">>, {"CREATE_SUSPENDED", "CreateThread",
      "LPTHREAD_START_ROUTINE", "NULL", "ResumeThread", "THE_OS_WINDOWS", "alloc", "pthread_create", "threadpool_t",
      "threadpool_thread_t", "threadpool_worker"}, {"alloc", "definitions", "libPthread", "libStddef", "libWindows",
      "threadpool_worker", "typeThreadpool", "typeThreadpoolThread"}),
   threadpool_wait |-> Fn(<<"threadpool_t *">>, {"NULL", "err_state", "threadpool_cond_wait", "threadpool_mutex_lock",
      "threadpool_mutex_unlock", "threadpool_t"}, {"libStddef", "threadpool_cond_wait", "threadpool_mutex_lock",
      "threadpool_mutex_unlock", "typeThreadpool", "varErrState"}),
   threadpool_worker |-> Fn(<<"void *">>, {"NULL", "err_state", "threadpool_cond_signal", "threadpool_cond_wait",
      "threadpool_get", "threadpool_job_t", "threadpool_mutex_lock", "threadpool_mutex_unlock", "threadpool_t",
      "threadpool_thread_t"}, {"libStddef", "threadpool_cond_signal", "threadpool_cond_wait", "threadpool_get",
      "threadpool_mutex_lock", "threadpool_mutex_unlock", "typeThreadpool", "typeThreadpoolJob",
      "typeThreadpoolThread", "varErrState"}),
   u16_str |-> Fn(<<"uint16_t">>, {"PRIu16", "sprintf", "str_alloc", "struct str", "uint16_t"}, {"libInttypes",
      "libStdint", "libStdio", "str_alloc", "typeStr"}),
   u32_str |-> Fn(<<"uint32_t">>, {"PRIu32", "sprintf", "str_alloc", "struct str", "uint32_t"}, {"libInttypes",
      "libStdint", "libStdio", "str_alloc", "typeStr"}),
   u64_str |-> Fn(<<"uint64_t">>, {"PRIu64", "sprintf", "str_alloc", "struct str", "uint64_t"}, {"libInttypes",
      "libStdint", "libStdio", "str_alloc", "typeStr"})]

From_u8_str ==
  [u8_str |-> Fn(<<"uint8_t">>, {"PRIu8", "sprintf", "str_alloc", "struct str", "uint8_t"}, {"libInttypes",
      "libStdio", "str_alloc", "typeStr"})]

From_url_parse ==
  [url_parse |-> Throws(<<"struct str">>, {"alloc", "isalnum", "memcmp", "memcpy", "re_alloc", "size_t", "str_alloc",
      "str_free"}, {"alloc", "libCtype", "libString", "re_alloc", "str_alloc", "str_free"}, {"url_URL",
      "url_URL_alloc"})]

From_utils_swap ==
  [utils_swap |-> Fn(<<"void *", "void *", "size_t">>, {"alloc", "free", "memcpy", "size_t"}, {"alloc", "libStddef",
      "libStdlib", "libString"}),
   xalloc |-> Fn(<<"void *", "size_t">>, {"NULL", "err_state", "error_alloc", "malloc", "memcpy", "size_t"},
      {"error_alloc", "libStddef", "libStdlib", "libString", "varErrState"})]

\* The whole table (codegen-api.hpp:23, the map codegenAPI)
Api ==
  From_alloc @@ From_buffer_str @@ From_char_repeat @@ From_error_alloc @@ From_error_stack_str @@
  From_fs_chmodSync @@ From_fs_copyFileSync @@ From_fs_isAbsoluteSync @@ From_fs_linkSync @@
  From_fs_realpathSync @@ From_fs_rmdirSync @@ From_fs_statSync @@ From_i64_str @@ From_path_basename @@
  From_path_tempDirectoryFunctor @@ From_print @@ From_process_cwd @@ From_process_runSync @@
  From_request_close @@ From_request_open @@ From_request_read @@ From_request_stringifyHeaders @@
  From_str_contains @@ From_str_free @@ From_str_lt @@ From_str_replace @@ From_str_toBuffer @@ From_str_toI16
  @@ From_str_toI8 @@ From_str_toU32 @@ From_str_trim @@ From_threadpool_add @@ From_threadpool_get @@
  From_threadpool_mutex_unlock @@ From_u8_str @@ From_url_parse @@ From_utils_swap

\* The C symbols a program may mention, by the header or definition each needs: the map
\* codegenMetadata, as one set of symbols for each need
Symbols1 ==
  {[needs |-> {"definitions"}, of |-> {"THE_EOL", "THE_OS_LINUX", "THE_OS_MACOS", "THE_OS_WINDOWS", "THE_PATH_SEP"}],
   [needs |-> {"externSystemFunction036"}, of |-> {"SystemFunction036"}],
   [needs |-> {"typeAny"}, of |-> {"struct any"}],
   [needs |-> {"typeBuffer"}, of |-> {"struct buffer"}],
   [needs |-> {"typeErrBuf"}, of |-> {"err_buf_t"}],
   [needs |-> {"typeErrStack"}, of |-> {"err_stack_t"}],
   [needs |-> {"typeErrState"}, of |-> {"err_state_t"}],
   [needs |-> {"typeRequest"}, of |-> {"struct request"}],
   [needs |-> {"typeStr"}, of |-> {"struct str"}],
   [needs |-> {"typeThreadpool"}, of |-> {"threadpool_t"}],
   [needs |-> {"typeThreadpoolCond"}, of |-> {"threadpool_cond_t"}],
   [needs |-> {"typeThreadpoolFunc"}, of |-> {"threadpool_func_t"}],
   [needs |-> {"typeThreadpoolJob"}, of |-> {"threadpool_job_t"}],
   [needs |-> {"typeThreadpoolMutex"}, of |-> {"threadpool_mutex_t"}],
   [needs |-> {"typeThreadpoolThread"}, of |-> {"threadpool_thread_t"}],
   [needs |-> {"typeWinReparseDataBuffer"}, of |-> {"struct win_reparse_data_buffer"}],
   [needs |-> {"varEnviron"}, of |-> {"environ"}],
   [needs |-> {"varErrState"}, of |-> {"err_state"}],
   [needs |-> {"varLibOpensslInit"}, of |-> {"lib_openssl_init"}],
   [needs |-> {"varLibWs2Init"}, of |-> {"lib_ws2_init"}],
   [needs |-> {"libCtype"}, of |-> {"isalnum", "isalpha", "isdigit", "islower", "isspace", "isupper", "tolower",
      "toupper"}],
   [needs |-> {"libDirent"}, of |-> {"DIR", "closedir", "opendir", "readdir", "struct dirent"}],
   [needs |-> {"libErrno"}, of |-> {"ERANGE", "errno"}],
   [needs |-> {"libFcntl"}, of |-> {"O_CREAT", "O_RDONLY", "O_WRONLY", "open"}],
   [needs |-> {"libFloat"}, of |-> {"DBL_MAX", "DBL_MIN", "FLT_MAX", "FLT_MIN"}],
   [needs |-> {"libInttypes"}, of |-> {"PRId16", "PRId32", "PRId64", "PRId8", "PRIu16", "PRIu32", "PRIu64", "PRIu8"}],
   [needs |-> {"libMath"}, of |-> {"ceil", "floor", "round"}],
   [needs |-> {"libNetdb", "libWinWs2tcpip"}, of |-> {"freeaddrinfo", "getaddrinfo", "struct addrinfo"}],
   [needs |-> {"libNetinetIn", "libWinsock2"}, of |-> {"IPPROTO_TCP", "WSADATA", "WSAStartup"}],
   [needs |-> {"libOpensslRand"}, of |-> {"RAND_bytes"}],
   [needs |-> {"libOpensslSsl"}, of |-> {"SSL_CTX_free", "SSL_CTX_new", "SSL_connect", "SSL_free", "SSL_library_init",
      "SSL_new", "SSL_read", "SSL_set_fd", "SSL_set_tlsext_host_name", "SSL_shutdown", "SSL_write",
      "TLS_client_method"}],
   [needs |-> {"libPthread"}, of |-> {"pthread_cond_destroy", "pthread_cond_init", "pthread_cond_signal",
      "pthread_cond_t", "pthread_cond_wait", "pthread_create", "pthread_join", "pthread_mutex_destroy",
      "pthread_mutex_init", "pthread_mutex_lock", "pthread_mutex_t", "pthread_mutex_unlock", "pthread_t",
      "pthread_threadid_np"}],
   [needs |-> {"libPwd"}, of |-> {"getpwuid"}],
   [needs |-> {"libSetJmp"}, of |-> {"longjmp", "setjmp", "struct jmp_buf"}],
   [needs |-> {"libStdNoReturn"}, of |-> {"noreturn"}],
   [needs |-> {"libStdarg"}, of |-> {"va_arg", "va_end", "va_list", "va_start"}],
   [needs |-> {"libStdbool"}, of |-> {"bool", "false", "true"}],
   [needs |-> {"libStddef"}, of |-> {"NULL", "size_t"}],
   [needs |-> {"libStdint"}, of |-> {"INT16_MAX", "INT16_MIN", "INT32_MAX", "INT32_MIN", "INT64_MAX", "INT64_MIN",
      "INT8_MAX", "INT8_MIN", "UINT16_MAX", "UINT32_MAX", "UINT64_MAX", "UINT8_MAX", "int16_t", "int32_t", "int64_t",
      "int8_t", "uint16_t", "uint32_t", "uint64_t", "uint8_t"}],
   [needs |-> {"libStdio"}, of |-> {"FILE", "TMP_MAX"}]}
Symbols2 ==
  {[needs |-> {"libStdio"}, of |-> {"_pclose", "_popen", "_unlink", "fclose", "fflush", "fopen", "fprintf", "fputc",
      "fputs", "fread", "fwrite", "pclose", "popen", "remove", "rename", "snprintf", "sprintf", "stderr", "stdin",
      "stdout"}],
   [needs |-> {"libStdlib"}, of |-> {"EXIT_FAILURE", "EXIT_SUCCESS", "exit", "free", "getenv", "malloc", "realloc",
      "realpath", "strtod", "strtof", "strtol", "strtoll", "strtoul", "strtoull"}],
   [needs |-> {"libStdlib", "libUnistd"}, of |-> {"mkdtemp", "mkstemp"}],
   [needs |-> {"libString"}, of |-> {"memcmp", "memcpy", "memmove", "memset", "strchr", "strcmp", "strlen"}],
   [needs |-> {"libSysStat"}, of |-> {"S_IFDIR", "S_IFLNK", "S_IFMT", "S_IFREG", "_S_IFDIR", "_S_IFMT", "_S_IFREG",
      "_stat", "chmod", "fchmod", "fstat", "lstat", "mkdir", "stat", "struct _stat", "struct stat"}],
   [needs |-> {"libSysSocket", "libWinsock2"}, of |-> {"AF_INET", "SOCK_STREAM", "connect", "recv", "send",
      "shutdown", "socket"}],
   [needs |-> {"libSysSyscall"}, of |-> {"SYS_gettid"}],
   [needs |-> {"libSysTypes"}, of |-> {"ssize_t"}],
   [needs |-> {"libSysUtsname"}, of |-> {"struct utsname", "uname"}],
   [needs |-> {"libTime"}, of |-> {"CLOCK_REALTIME", "clock_gettime", "struct timespec"}],
   [needs |-> {"libUnistd"}, of |-> {"access", "chown", "close", "ftruncate", "getcwd", "getgid", "getuid", "read",
      "rmdir", "symlink", "syscall", "unlink", "usleep", "write"}],
   [needs |-> {"libWinDirect"}, of |-> {"_getcwd"}],
   [needs |-> {"libWinIo"}, of |-> {"_access", "_chmod"}],
   [needs |-> {"libWindows"}, of |-> {"CONDITION_VARIABLE", "CREATE_NEW", "CREATE_SUSPENDED", "CRITICAL_SECTION",
      "CloseHandle", "CopyFile", "CreateDirectory", "DWORD", "ERROR_FILE_NOT_FOUND", "ERROR_NO_MORE_FILES",
      "FILETIME", "FILE_ATTRIBUTE_DIRECTORY", "FILE_ATTRIBUTE_NORMAL", "FILE_FLAG_BACKUP_SEMANTICS",
      "FILE_FLAG_OPEN_REPARSE_POINT", "FILE_SHARE_DELETE", "FILE_SHARE_READ", "FILE_SHARE_WRITE",
      "FSCTL_GET_REPARSE_POINT", "GENERIC_READ", "GENERIC_WRITE", "HANDLE", "INFINITE", "INVALID_FILE_ATTRIBUTES",
      "INVALID_HANDLE_VALUE", "IO_REPARSE_TAG_APPEXECLINK", "IO_REPARSE_TAG_MOUNT_POINT", "IO_REPARSE_TAG_SYMLINK",
      "LPTHREAD_START_ROUTINE", "MAKEWORD", "MAXIMUM_REPARSE_DATA_BUFFER_SIZE", "MAX_PATH", "OPEN_EXISTING",
      "PROCESSOR_ARCHITECTURE_ALPHA", "PROCESSOR_ARCHITECTURE_ALPHA64", "PROCESSOR_ARCHITECTURE_AMD64",
      "PROCESSOR_ARCHITECTURE_ARM", "PROCESSOR_ARCHITECTURE_ARM64", "PROCESSOR_ARCHITECTURE_IA32_ON_WIN64",
      "PROCESSOR_ARCHITECTURE_IA64", "PROCESSOR_ARCHITECTURE_INTEL", "PROCESSOR_ARCHITECTURE_MIPS",
      "PROCESSOR_ARCHITECTURE_PPC", "PROCESSOR_ARCHITECTURE_SHX", "SYMBOLIC_LINK_FLAG_DIRECTORY", "SYSTEM_INFO",
      "VOLUME_NAME_DOS", "WIN32_FIND_DATA"}]}
Symbols3 ==
  {[needs |-> {"libWindows"}, of |-> {"CreateFile", "CreateSymbolicLink", "CreateThread", "DeleteCriticalSection",
      "DeviceIoControl", "EnterCriticalSection", "FindClose", "FindFirstFile", "FindNextFile", "GetCurrentThreadId",
      "GetEnvironmentVariable", "GetFileAttributes", "GetFinalPathNameByHandle", "GetLastError", "GetSystemInfo",
      "GetSystemTimePreciseAsFileTime", "GetTempPath", "InitializeConditionVariable", "InitializeCriticalSection",
      "LeaveCriticalSection", "MemoryBarrier", "RemoveDirectory", "ResumeThread", "Sleep", "SleepConditionVariableCS",
      "WaitForSingleObject", "WakeConditionVariable"}],
   [needs |-> {"libWinsock2"}, of |-> {"INVALID_SOCKET", "SOCKET", "SOCKET_ERROR", "closesocket"}]}

SymbolRows == Symbols1 \cup Symbols2 \cup Symbols3
Symbols == UNION {r.of : r \in SymbolRows}
NeedsOf(s) == UNION {r.needs : r \in {q \in SymbolRows : s \in q.of}}
SymbolHeaders == [s \in Symbols |-> NeedsOf(s)]
====
