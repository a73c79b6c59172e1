SPECIFICATION Spec
CONSTANTS Files = {tty, f}
          None = None
          Limits = {4}
          W = 2
          Calls = {"open", "dupfd", "dupfd_above", "close"}
PROPERTY NoReplace
