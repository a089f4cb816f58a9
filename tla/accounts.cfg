SPECIFICATION Spec
CONSTANTS
  b1 = b1
  b2 = b2
  ced = ced
  ann = ann
  demo = demo
  pw1 = pw1
  pw2 = pw2
  nobody = nobody
  Browsers <- TwoBrowsers
  Emails <- TwoEmails
  Passwords <- AllPasswords
  Short <- ShortPasswords
  DemoEmail <- ced
  DemoPassword <- demo
  Nobody <- nobody
  MaxTokens = 6
  MaxFaults = 2
SYMMETRY Symmetry
INVARIANT SessionsAreEarned
INVARIANT FormsStayInTheirSession
INVARIANT RegistrationsAreRecorded
PROPERTY PasswordsAreNotOverwritten
