------------------------------- MODULE Results -------------------------------
(***************************************************************************)
(* results.c: the library's result codes, the conversions of errno and     *)
(* GetLastError values to them, and which codes have a text of their own.  *)
(*                                                                         *)
(* Which names <errno.h> defines, and what their numbers are, depends on   *)
(* the platform: it is a function from the defined names to numbers.       *)
(***************************************************************************)
EXTENDS Integers, Sequences

(* The codes that ns_result_to_string has a case for, and all of them.     *)
Named ==
  {"NS_SUCCESS", "NS_ERROR", "NS_INVALID_ARGS", "NS_INVALID_OPERATION",
   "NS_OUT_OF_MEMORY", "NS_OUT_OF_RANGE", "NS_ACCESS_DENIED",
   "NS_DOES_NOT_EXIST", "NS_ALREADY_EXISTS", "NS_TOO_MANY_OPEN_FILES",
   "NS_INVALID_FILE", "NS_TOO_BIG", "NS_PATH_TOO_LONG", "NS_NAME_TOO_LONG",
   "NS_NOT_DIRECTORY", "NS_IS_DIRECTORY", "NS_DIRECTORY_NOT_EMPTY",
   "NS_AT_END", "NS_NO_SPACE", "NS_BUSY", "NS_IO_ERROR", "NS_INTERRUPT",
   "NS_UNAVAILABLE", "NS_ALREADY_IN_USE", "NS_BAD_ADDRESS", "NS_BAD_SEEK",
   "NS_BAD_PIPE", "NS_DEADLOCK", "NS_TOO_MANY_LINKS", "NS_NOT_IMPLEMENTED",
   "NS_NO_MESSAGE", "NS_BAD_MESSAGE", "NS_NO_DATA_AVAILABLE",
   "NS_INVALID_DATA", "NS_TIMEOUT", "NS_NO_NETWORK", "NS_NOT_UNIQUE",
   "NS_NOT_SOCKET", "NS_NO_ADDRESS", "NS_BAD_PROTOCOL",
   "NS_PROTOCOL_UNAVAILABLE", "NS_PROTOCOL_NOT_SUPPORTED",
   "NS_PROTOCOL_FAMILY_NOT_SUPPORTED", "NS_ADDRESS_FAMILY_NOT_SUPPORTED",
   "NS_SOCKET_NOT_SUPPORTED", "NS_CONNECTION_RESET", "NS_ALREADY_CONNECTED",
   "NS_NOT_CONNECTED", "NS_CONNECTION_REFUSED", "NS_NO_HOST",
   "NS_IN_PROGRESS", "NS_CANCELLED", "NS_MEMORY_ALREADY_MAPPED",
   "NS_DIFFERENT_DEVICE"}

Codes ==
  Named \cup {"NS_CHECKSUM_MISMATCH", "NS_NO_BACKEND", "NS_NEEDS_MORE_INPUT", "NS_HAS_MORE_OUTPUT"}

(* The texts of ns_result_to_string are all different, and each stands     *)
(* for its code here.  The default case has that of NS_ERROR.              *)
Text(code) == IF code \in Named THEN code ELSE "NS_ERROR"
-----------------------------------------------------------------------------
(* The names that ns_result_from_errno compares with, in its order. *)
Names ==
  <<"EPERM", "ENOENT", "ESRCH", "EINTR", "EIO", "ENXIO", "E2BIG", "ENOEXEC",
    "EBADF", "EAGAIN", "ENOMEM", "EACCES", "EFAULT", "EBUSY", "EEXIST",
    "EXDEV", "ENODEV", "ENOTDIR", "EISDIR", "EINVAL", "ENFILE", "EMFILE",
    "ENOTTY", "ETXTBSY", "EFBIG", "ENOSPC", "ESPIPE", "EROFS", "EPIPE",
    "EDOM", "ERANGE", "EDEADLK", "ENAMETOOLONG", "ENOSYS", "ENOTEMPTY",
    "ELNRNG", "EBFONT", "ENODATA", "ETIME", "ENOSR", "ENONET", "EOVERFLOW",
    "ELIBACC", "ELIBBAD", "ELIBSCN", "EILSEQ", "ENOTSOCK", "EDESTADDRREQ",
    "EMSGSIZE", "EPROTOTYPE", "ENOPROTOOPT", "EPROTONOSUPPORT",
    "ESOCKTNOSUPPORT", "EOPNOTSUPP", "EPFNOSUPPORT", "EAFNOSUPPORT",
    "EADDRINUSE", "ENETDOWN", "ENETUNREACH", "ENETRESET", "ECONNABORTED",
    "ECONNRESET", "ENOBUFS", "EISCONN", "ENOTCONN", "ETIMEDOUT",
    "ECONNREFUSED", "EHOSTDOWN", "EHOSTUNREACH", "EALREADY", "EINPROGRESS",
    "ESTALE", "EREMOTEIO", "EDQUOT", "ENOMEDIUM", "ECANCELED">>

(* What it returns for each. *)
CodeOf(name) ==
  CASE name \in {"EPERM", "ENOTTY", "EOPNOTSUPP"} -> "NS_INVALID_OPERATION"
    [] name \in {"ENOENT", "ESRCH", "ENXIO", "ENODEV", "ENOMEDIUM"} -> "NS_DOES_NOT_EXIST"
    [] name = "EINTR" -> "NS_INTERRUPT"
    [] name \in {"EIO", "EREMOTEIO"} -> "NS_IO_ERROR"
    [] name \in {"E2BIG", "EINVAL"} -> "NS_INVALID_ARGS"
    [] name \in {"ENOEXEC", "EBADF", "EBFONT", "ELIBBAD", "ELIBSCN", "ESTALE"}
          -> "NS_INVALID_FILE"
    [] name = "EAGAIN" -> "NS_UNAVAILABLE"
    [] name = "ENOMEM" -> "NS_OUT_OF_MEMORY"
    [] name \in {"EACCES", "EROFS", "ELIBACC"} -> "NS_ACCESS_DENIED"
    [] name = "EFAULT" -> "NS_BAD_ADDRESS"
    [] name \in {"EBUSY", "ETXTBSY"} -> "NS_BUSY"
    [] name = "EEXIST" -> "NS_ALREADY_EXISTS"
    [] name = "EXDEV" -> "NS_DIFFERENT_DEVICE"
    [] name = "ENOTDIR" -> "NS_NOT_DIRECTORY"
    [] name = "EISDIR" -> "NS_IS_DIRECTORY"
    [] name \in {"ENFILE", "EMFILE"} -> "NS_TOO_MANY_OPEN_FILES"
    [] name \in {"EFBIG", "EOVERFLOW", "EMSGSIZE"} -> "NS_TOO_BIG"
    [] name \in {"ENOSPC", "ENOBUFS", "EDQUOT"} -> "NS_NO_SPACE"
    [] name = "ESPIPE" -> "NS_BAD_SEEK"
    [] name = "EPIPE" -> "NS_BAD_PIPE"
    [] name \in {"EDOM", "ERANGE", "ELNRNG"} -> "NS_OUT_OF_RANGE"
    [] name = "EDEADLK" -> "NS_DEADLOCK"
    [] name = "ENAMETOOLONG" -> "NS_PATH_TOO_LONG"
    [] name = "ENOSYS" -> "NS_NOT_IMPLEMENTED"
    [] name = "ENOTEMPTY" -> "NS_DIRECTORY_NOT_EMPTY"
    [] name \in {"ENODATA", "ENOSR"} -> "NS_NO_DATA_AVAILABLE"
    [] name \in {"ETIME", "ETIMEDOUT"} -> "NS_TIMEOUT"
    [] name \in {"ENONET", "ENETDOWN", "ENETUNREACH", "ENETRESET",
                 "ECONNABORTED"}
          -> "NS_NO_NETWORK"
    [] name = "EILSEQ" -> "NS_INVALID_DATA"
    [] name = "ENOTSOCK" -> "NS_NOT_SOCKET"
    [] name = "EDESTADDRREQ" -> "NS_NO_ADDRESS"
    [] name = "EPROTOTYPE" -> "NS_BAD_PROTOCOL"
    [] name = "ENOPROTOOPT" -> "NS_PROTOCOL_UNAVAILABLE"
    [] name = "EPROTONOSUPPORT" -> "NS_PROTOCOL_NOT_SUPPORTED"
    [] name = "ESOCKTNOSUPPORT" -> "NS_SOCKET_NOT_SUPPORTED"
    [] name = "EPFNOSUPPORT" -> "NS_PROTOCOL_FAMILY_NOT_SUPPORTED"
    [] name = "EAFNOSUPPORT" -> "NS_ADDRESS_FAMILY_NOT_SUPPORTED"
    [] name = "EADDRINUSE" -> "NS_ALREADY_IN_USE"
    [] name = "ECONNRESET" -> "NS_CONNECTION_RESET"
    [] name = "EISCONN" -> "NS_ALREADY_CONNECTED"
    [] name = "ENOTCONN" -> "NS_NOT_CONNECTED"
    [] name = "ECONNREFUSED" -> "NS_CONNECTION_REFUSED"
    [] name \in {"EHOSTDOWN", "EHOSTUNREACH"} -> "NS_NO_HOST"
    [] name \in {"EALREADY", "EINPROGRESS"} -> "NS_IN_PROGRESS"
    [] name = "ECANCELED" -> "NS_CANCELLED"

(* The comparisons that are compiled in and hold. *)
Matches(platform, error) ==
  {i \in 1 .. Len(Names) : Names[i] \in DOMAIN platform /\ platform[Names[i]] = error}

First(matches) == CHOOSE i \in matches : \A k \in matches : i <= k

(* ns_result_from_errno *)
FromErrno(platform, error) ==
  IF error = 0 THEN "NS_SUCCESS"
  ELSE IF Matches(platform, error) = {} THEN "NS_ERROR"
  ELSE CodeOf(Names[First(Matches(platform, error))])
-----------------------------------------------------------------------------
(* ns_result_from_GetLastError; Windows gives each name a number of its    *)
(* own, which stands for it here.                                          *)
FromGetLastError(error) ==
  CASE error = "ERROR_SUCCESS" -> "NS_SUCCESS"
    [] error \in {"ERROR_NOT_ENOUGH_MEMORY", "ERROR_OUTOFMEMORY"} -> "NS_OUT_OF_MEMORY"
    [] error = "ERROR_BUSY" -> "NS_BUSY"
    [] error = "ERROR_SEM_TIMEOUT" -> "NS_TIMEOUT"
    [] error \in {"ERROR_ALREADY_EXISTS", "ERROR_FILE_EXISTS"} -> "NS_ALREADY_EXISTS"
    [] error \in {"ERROR_ACCESS_DENIED", "ERROR_WRITE_PROTECT",
                  "ERROR_PRIVILEGE_NOT_HELD", "ERROR_SHARING_VIOLATION",
                  "ERROR_LOCK_VIOLATION"}
          -> "NS_ACCESS_DENIED"
    [] error \in {"ERROR_FILE_NOT_FOUND", "ERROR_PATH_NOT_FOUND"} -> "NS_DOES_NOT_EXIST"
    [] error \in {"ERROR_INVALID_NAME", "ERROR_BAD_PATHNAME",
                  "ERROR_INVALID_PARAMETER", "ERROR_INVALID_HANDLE"}
          -> "NS_INVALID_ARGS"
    [] error = "ERROR_INVALID_FUNCTION" -> "NS_INVALID_OPERATION"
    [] error = "ERROR_FILENAME_EXCED_RANGE" -> "NS_PATH_TOO_LONG"
    [] error = "ERROR_DIRECTORY" -> "NS_NOT_DIRECTORY"
    [] error = "ERROR_DIR_NOT_EMPTY" -> "NS_DIRECTORY_NOT_EMPTY"
    [] error = "ERROR_FILE_TOO_LARGE" -> "NS_TOO_BIG"
    [] error = "ERROR_DISK_FULL" -> "NS_OUT_OF_RANGE"
    [] error = "ERROR_HANDLE_EOF" -> "NS_AT_END"
    [] error = "ERROR_SEEK" -> "NS_BAD_SEEK"
    [] error = "ERROR_OPERATION_ABORTED" -> "NS_CANCELLED"
    [] error = "ERROR_CANCELLED" -> "NS_INTERRUPT"
    [] error = "ERROR_TOO_MANY_OPEN_FILES" -> "NS_TOO_MANY_OPEN_FILES"
    [] error = "ERROR_INVALID_DATA" -> "NS_INVALID_DATA"
    [] error = "ERROR_NO_DATA" -> "NS_NO_DATA_AVAILABLE"
    [] error = "ERROR_NOT_SAME_DEVICE" -> "NS_DIFFERENT_DEVICE"
    [] OTHER -> "NS_ERROR"
=============================================================================
